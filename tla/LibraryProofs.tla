--------------------------- MODULE LibraryProofs ---------------------------
(* Theorems about the parts of the library that share no state at run time. *)
EXTENDS Retention, Client, Timeline, Retrieval, Revisions, Migrations, Enrichment, ListLemmas,
        FunctionTheorems, TLAPS

-----------------------------------------------------------------------------
(* The purge of Retention.tla next to any number of analyses.               *)

RetentionTypeOK ==
    /\ StoreTypeOK
    /\ task = [r \in Req |-> task[r]]
    /\ promised \subseteq Req

(* A row is inserted once: as long as the submission exists a name that was *)
(* given to an analysis has its row.                                        *)
BegunHasRow == exists => \A r \in Req : task[r] # "none" => status[r] # "absent"

(* While an analysis has yet to read, the last activity is young.           *)
DueIsActivity == quiet => \A r \in Req : task[r] # "due"

(* What was promised is there until it is read, and no purge has picked it. *)
PromiseStands == \A r \in promised :
    /\ task[r] # "none"
    /\ task[r] = "due" => pdf /\ purge = "idle"

PurgeInv ==
    /\ RetentionTypeOK
    /\ BegunHasRow
    /\ DueIsActivity
    /\ PromiseStands
    /\ PurgeSparesAnalyses

-----------------------------------------------------------------------------
LEMMA PurgeInit == RetentionInit => PurgeInv
<1> SUFFICES ASSUME RetentionInit PROVE PurgeInv
    OBVIOUS
<1>1. RetentionTypeOK
    BY DEF RetentionInit, RetentionTypeOK, StoreInit, StoreTypeOK, Status
<1>2. \A r \in Req : task[r] = "none"
    BY DEF RetentionInit
<1> QED
    BY <1>1, <1>2 DEF RetentionInit, PurgeInv, BegunHasRow, DueIsActivity, PromiseStands, PurgeSparesAnalyses

LEMMA PurgeBegin ==
    ASSUME PurgeInv, NEW r \in Req, BeginAnalysis(r)
    PROVE  PurgeInv'
<1> USE DEF PurgeInv
<1>1. /\ exists /\ status[r] = "absent" /\ status' = [status EXCEPT ![r] = "pending"]
      /\ UNCHANGED <<exists, pdf, purge>> /\ quiet' = FALSE
      /\ task' = [task EXCEPT ![r] = "due"]
      /\ promised' = IF pdf /\ purge = "idle" THEN promised \cup {r} ELSE promised
    BY DEF BeginAnalysis, InsertRow
<1>2. /\ task' = [q \in Req |-> task'[q]] /\ task'[r] = "due"
      /\ \A q \in Req \ {r} : task'[q] = task[q]
    BY <1>1 DEF RetentionTypeOK
<1>3. RetentionTypeOK'
    BY <1>1, <1>2 DEF RetentionTypeOK, StoreTypeOK, Status
<1>4. BegunHasRow'
    BY <1>1, <1>2 DEF BegunHasRow, RetentionTypeOK, StoreTypeOK
<1>5. r \notin promised
    BY <1>1 DEF BegunHasRow, PromiseStands
<1>6. PromiseStands'
    BY <1>1, <1>2, <1>5 DEF PromiseStands, RetentionTypeOK
<1>7. PurgeSparesAnalyses'
    BY <1>1, <1>2, <1>5 DEF PurgeSparesAnalyses, RetentionTypeOK
<1> QED
    BY <1>1, <1>3, <1>4, <1>6, <1>7 DEF DueIsActivity

LEMMA PurgeRead ==
    ASSUME PurgeInv, NEW r \in Req, ReadPdf(r)
    PROVE  PurgeInv'
<1> USE DEF PurgeInv
<1>1. /\ status[r] # "absent" /\ task[r] = "due"
      /\ UNCHANGED <<exists, status, pdf, quiet, purge, promised>>
      /\ task' = [task EXCEPT ![r] = IF pdf THEN "read" ELSE "blind"]
    BY DEF ReadPdf, storeVars
<1>2. /\ task' = [q \in Req |-> task'[q]] /\ task'[r] = IF pdf THEN "read" ELSE "blind"
      /\ \A q \in Req \ {r} : task'[q] = task[q]
    BY <1>1 DEF RetentionTypeOK
<1>3. RetentionTypeOK'
    BY <1>1, <1>2 DEF RetentionTypeOK, StoreTypeOK
<1>4. BegunHasRow' /\ DueIsActivity'
    BY <1>1, <1>2 DEF BegunHasRow, DueIsActivity
<1>5. r \in promised => pdf
    BY <1>1 DEF PromiseStands
<1>6. PromiseStands' /\ PurgeSparesAnalyses'
    BY <1>1, <1>2, <1>5 DEF PromiseStands, PurgeSparesAnalyses, RetentionTypeOK
<1> QED
    BY <1>3, <1>4, <1>6

(* Rows change, but none goes while the submission stays.                   *)
LEMMA PurgeStore ==
    ASSUME PurgeInv, AnalysisGoesOn
    PROVE  PurgeInv'
<1> USE DEF PurgeInv
<1>1. UNCHANGED <<pdf, quiet, purge, task, promised>>
    BY DEF AnalysisGoesOn
<1>2. /\ StoreTypeOK'
      /\ exists' => exists /\ \A q \in Req : status[q] # "absent" => status'[q] # "absent"
    <2>1. ASSUME NEW r \in Req, RunRow(r) \/ FinishRow(r) \/ ExpireRow(r)
          PROVE  /\ exists' = exists
                 /\ \E s \in Status \ {"absent"} : status' = [status EXCEPT ![r] = s]
        BY <2>1 DEF RunRow, FinishRow, ExpireRow, Status
    <2>2. CASE \E r \in Req : RunRow(r) \/ FinishRow(r) \/ ExpireRow(r)
        BY <2>1, <2>2 DEF RetentionTypeOK, StoreTypeOK
    <2>3. CASE DeleteSubmission
        BY <2>3 DEF DeleteSubmission, StoreTypeOK, Status
    <2> QED
        BY <2>2, <2>3 DEF AnalysisGoesOn
<1>3. RetentionTypeOK' /\ BegunHasRow'
    BY <1>1, <1>2 DEF RetentionTypeOK, BegunHasRow
<1>4. DueIsActivity' /\ PromiseStands' /\ PurgeSparesAnalyses'
    BY <1>1 DEF DueIsActivity, PromiseStands, PurgeSparesAnalyses
<1> QED
    BY <1>3, <1>4

(* The period ends what has not read; the purge looks for what is quiet.    *)
LEMMA PurgeOwnSteps ==
    ASSUME PurgeInv, PeriodPasses \/ Choose \/ CommitPurge
    PROVE  PurgeInv'
<1> USE DEF PurgeInv
<1>1. UNCHANGED <<exists, status, promised>>
    BY DEF PeriodPasses, Choose, CommitPurge, storeVars
<1>2. CASE PeriodPasses
    <2>1. /\ UNCHANGED <<pdf, purge>>
          /\ task' = [r \in Req |-> IF task[r] = "due" THEN "over" ELSE task[r]]
        BY <1>2 DEF PeriodPasses
    <2>2. \A r \in Req : task'[r] = IF task[r] = "due" THEN "over" ELSE task[r]
        BY <2>1
    <2>3. task' = [r \in Req |-> task'[r]]
        BY <2>1
    <2>4. RetentionTypeOK'
        BY <1>1, <2>3 DEF RetentionTypeOK, StoreTypeOK
    <2>5. BegunHasRow' /\ DueIsActivity' /\ PromiseStands' /\ PurgeSparesAnalyses'
        BY <1>1, <2>2 DEF BegunHasRow, DueIsActivity, PromiseStands, PurgeSparesAnalyses, RetentionTypeOK
    <2> QED
        BY <2>4, <2>5
<1>3. CASE Choose \/ CommitPurge
    <2>1. UNCHANGED <<task, quiet>>
        BY <1>3 DEF Choose, CommitPurge
    <2>2. RetentionTypeOK' /\ BegunHasRow' /\ DueIsActivity' /\ PurgeSparesAnalyses'
        BY <1>1, <2>1 DEF RetentionTypeOK, StoreTypeOK, BegunHasRow, DueIsActivity, PurgeSparesAnalyses
    <2>3. \A r \in promised : task[r] # "due"
        BY <1>3 DEF Choose, CommitPurge, DueIsActivity, PromiseStands, RetentionTypeOK
    <2>4. PromiseStands'
        BY <1>1, <2>1, <2>3 DEF PromiseStands
    <2> QED
        BY <2>2, <2>4
<1> QED
    BY <1>2, <1>3

LEMMA PurgeNext == PurgeInv /\ [RetentionNext]_retentionVars => PurgeInv'
<1> SUFFICES ASSUME PurgeInv, [RetentionNext]_retentionVars PROVE PurgeInv'
    OBVIOUS
<1>1. CASE UNCHANGED retentionVars
    BY <1>1 DEF retentionVars, storeVars, PurgeInv, RetentionTypeOK, StoreTypeOK, BegunHasRow, DueIsActivity,
       PromiseStands, PurgeSparesAnalyses
<1>2. CASE RetentionNext
    BY <1>2, PurgeBegin, PurgeRead, PurgeStore, PurgeOwnSteps DEF RetentionNext
<1> QED
    BY <1>1, <1>2

(* Every reachable state of the retention satisfies the invariant.          *)
THEOREM PurgeInvariance == RetentionSpec => []PurgeInv
BY PurgeInit, PurgeNext, PTL DEF RetentionSpec

(* However many analyses start, expire and are retried around the purge, it *)
(* takes no PDF from one that began, with the PDF there, before the UPDATE  *)
(* chose its rows; those that begin between that choice and the commit are  *)
(* left out, and do lose it.                                                *)
THEOREM AnalysesAreSpared == RetentionSpec => []PurgeSparesAnalyses
<1>1. PurgeInv => PurgeSparesAnalyses
    BY DEF PurgeInv
<1> QED
    BY <1>1, PurgeInvariance, PTL
-----------------------------------------------------------------------------
(* The OpenReview client: any number of requests, token deaths and other    *)
(* processes.                                                               *)
FetchState == [at : {"new", "auth", "login", "write", "send", "answer", "done", "exhausted", "failed"},
               attempt : Nat, tries : Nat, token : Nat, refused : Nat]
ClientTypeOK ==
    /\ built \in BOOLEAN
    /\ tokens \in Seq({"good", "late", "expired", "revoked"})
    /\ header \in Nat /\ file \in Nat
    /\ fetch \in [Fetcher -> FetchState]
    /\ logins \in Nat /\ errors \in Nat

(* What a request is about to write is the token it was issued.             *)
WrittenIsGood == \A f \in Fetcher : fetch[f].at = "write" =>
    fetch[f].token \in DOMAIN tokens /\ tokens[fetch[f].token] = "good"

(* R[f], the tokens that f was refused with: as many as its refusals, dead, *)
(* never in the file again, nor in the header except while f logs in.       *)
Apart(R) == \A f \in Fetcher :
    /\ Cardinality(R[f]) = fetch[f].refused
    /\ file \notin R[f]
    /\ fetch[f].at = "new" => R[f] = {}
    /\ fetch[f].at \in {"send", "answer", "write"} => header \notin R[f]
    /\ fetch[f].at = "answer" => fetch[f].token \notin R[f]
RefusedDiffer == \E R \in [Fetcher -> SUBSET Dead] : Apart(R)

(* Each login is paid for by the first construction, an error or a refusal: *)
(* who is about to log in is counted ahead of it.                           *)
Wants == [f \in Fetcher |-> IF fetch[f].at \in {"auth", "login"} THEN 1 ELSE 0]
Refusals == [f \in Fetcher |-> fetch[f].refused]
Unbuilt == IF ~built /\ building = Nobody THEN 1 ELSE 0
LoginsPaid == logins + Total(Wants, Fetcher) + Unbuilt <= 1 + errors + Total(Refusals, Fetcher)

ClientInv == ClientTypeOK /\ WrittenIsGood /\ RefusedDiffer /\ LoginsPaid

(* The dead stay dead.                                                      *)
LEMMA DeadProperties ==
    ASSUME ClientTypeOK
    PROVE  IsFiniteSet(Dead) /\ Dead \subseteq DOMAIN tokens /\ Dead \subseteq Nat \ {0}
<1>1. Dead \subseteq 1 .. Len(tokens) /\ Len(tokens) \in Nat /\ DOMAIN tokens = 1 .. Len(tokens)
    BY DEF Dead, ClientTypeOK
<1>2. IsFiniteSet(1 .. Len(tokens))
    BY <1>1, FS_Interval
<1>3. IsFiniteSet(Dead)
    BY <1>1, <1>2, FS_Subset
<1> QED
    BY <1>1, <1>3

(* The balance holds if the request that moves pays for what it wants.      *)
LEMMA LoginsStayPaid ==
    ASSUME ClientTypeOK, ClientTypeOK', LoginsPaid, NEW f \in Fetcher,
           \A g \in Fetcher \ {f} : fetch'[g] = fetch[g],
           logins' + Wants'[f] + Unbuilt' + errors + fetch[f].refused
               <= logins + Wants[f] + Unbuilt + errors' + fetch'[f].refused
    PROVE  LoginsPaid'
<1> USE ClientConstants DEF ClientConstants
<1>1. /\ \A g \in Fetcher : Wants[g] \in Nat /\ Wants'[g] \in Nat
      /\ \A g \in Fetcher \ {f} : Wants'[g] = Wants[g]
    BY DEF Wants
<1>2. /\ \A g \in Fetcher : Refusals[g] = fetch[g].refused /\ Refusals'[g] = fetch'[g].refused
      /\ \A g \in Fetcher : Refusals[g] \in Nat /\ Refusals'[g] \in Nat
      /\ \A g \in Fetcher \ {f} : Refusals'[g] = Refusals[g]
    BY DEF Refusals, ClientTypeOK, FetchState
<1>3. /\ Total(Wants', Fetcher) + Wants[f] = Total(Wants, Fetcher) + Wants'[f]
      /\ Total(Wants', Fetcher) \in Nat /\ Total(Wants, Fetcher) \in Nat
    BY <1>1, TotalUpdate
<1>4. /\ Total(Refusals', Fetcher) + Refusals[f] = Total(Refusals, Fetcher) + Refusals'[f]
      /\ Total(Refusals', Fetcher) \in Nat /\ Total(Refusals, Fetcher) \in Nat
    BY <1>2, TotalUpdate
<1>5. /\ Unbuilt \in Nat /\ Unbuilt' \in Nat
      /\ logins \in Nat /\ logins' \in Nat /\ errors \in Nat /\ errors' \in Nat
    BY DEF Unbuilt, ClientTypeOK
<1> QED
    BY <1>1, <1>2, <1>3, <1>4, <1>5 DEF LoginsPaid
(* A step of one request that refuses nothing keeps the refused tokens.     *)
LEMMA RefusedStayApart ==
    ASSUME ClientTypeOK, RefusedDiffer, NEW f \in Fetcher, Dead \subseteq Dead',
           \A g \in Fetcher \ {f} : fetch'[g] = fetch[g],
           fetch'[f].refused = fetch[f].refused,
           fetch'[f].at = "new" => fetch[f].at = "new",
           \A R \in [Fetcher -> SUBSET Dead] : Apart(R) =>
               /\ \A g \in Fetcher : file' \notin R[g]
               /\ header' = header \/ \A g \in Fetcher : header' \notin R[g]
               /\ fetch'[f].at \in {"send", "answer", "write"} => header' \notin R[f]
               /\ fetch'[f].at = "answer" => fetch'[f].token \notin R[f]
    PROVE  RefusedDiffer'
<1>1. PICK R \in [Fetcher -> SUBSET Dead] : Apart(R)
    BY DEF RefusedDiffer
<1>2. R \in [Fetcher -> SUBSET Dead']
    OBVIOUS
<1>3. Apart(R)'
    <2> SUFFICES ASSUME NEW g \in Fetcher
                 PROVE  /\ Cardinality(R[g]) = fetch'[g].refused
                        /\ file' \notin R[g]
                        /\ fetch'[g].at = "new" => R[g] = {}
                        /\ fetch'[g].at \in {"send", "answer", "write"} => header' \notin R[g]
                        /\ fetch'[g].at = "answer" => fetch'[g].token \notin R[g]
        BY DEF Apart
    <2>1. CASE g = f
        BY <1>1, <2>1 DEF Apart
    <2>2. CASE g # f
        BY <1>1, <2>2 DEF Apart
    <2> QED
        BY <2>1, <2>2
<1> QED
    BY <1>2, <1>3 DEF RefusedDiffer

LEMMA ClientStart == ClientInit => ClientInv
<1> SUFFICES ASSUME ClientInit PROVE ClientInv
    OBVIOUS
<1> USE ClientConstants DEF ClientInit
<1>1. Len(tokens) \in Nat /\ tokens \in Seq({"good", "late", "expired", "revoked"})
    <2>1. CASE tokens = <<>>
        BY <2>1
    <2>2. CASE \E k \in {"good", "late", "revoked"} : tokens = <<k>>
        BY <2>2
    <2> QED
        BY <2>1, <2>2
<1>0. \A f \in Fetcher : fetch[f] = NewFetch
    OBVIOUS
<1>2. ClientTypeOK
    BY <1>1, <1>0 DEF ClientTypeOK, FetchState, NewFetch, NoToken
<1>3. WrittenIsGood
    BY <1>1, <1>0 DEF WrittenIsGood, NewFetch
<1>4. RefusedDiffer
    <2> DEFINE R == [f \in Fetcher |-> {}]
    <2>1. R \in [Fetcher -> SUBSET Dead]
        OBVIOUS
    <2>2. Apart(R)
        BY <1>0, FS_EmptySet DEF Apart, NewFetch
    <2> QED
        BY <2>1, <2>2 DEF RefusedDiffer
<1>5. LoginsPaid
    <2>1. \A f \in Fetcher : Wants[f] = 0 /\ Refusals[f] = 0
        BY <1>1, <1>0 DEF Wants, Refusals, NewFetch
    <2>2. Total(Wants, Fetcher) = Total(Refusals, Fetcher) /\ Total(Wants, Fetcher) \in Nat
        BY <2>1, TotalAgree, TotalNat DEF ClientConstants
    <2> QED
        BY <2>2 DEF LoginsPaid, Unbuilt
<1> QED
    BY <1>2, <1>3, <1>4, <1>5 DEF ClientInv

(* One request moves, the others stay.                                      *)
LEMMA FetchMoves ==
    ASSUME ClientTypeOK, NEW f \in Fetcher, NEW rec \in FetchState, Put(f, rec)
    PROVE  /\ fetch' \in [Fetcher -> FetchState] /\ fetch'[f] = rec
           /\ \A g \in Fetcher \ {f} : fetch'[g] = fetch[g]
BY DEF Put, ClientTypeOK

LEMMA MovedMoves ==
    ASSUME ClientTypeOK, NEW f \in Fetcher, Moved(f, "failed") \/ Moved(f, "send") \/ Moved(f, "auth")
              \/ Moved(f, "login") \/ Moved(f, "done") \/ Moved(f, "exhausted") \/ NextAttempt(f)
    PROVE  /\ fetch' \in [Fetcher -> FetchState]
           /\ \A g \in Fetcher \ {f} : fetch'[g] = fetch[g]
           /\ fetch'[f].refused = fetch[f].refused
           /\ \A place : Moved(f, place) => fetch'[f].at = place
           /\ NextAttempt(f) => fetch'[f].at \in {"exhausted", "send"}
<1>1. fetch[f] \in FetchState /\ fetch[f].attempt + 1 \in Nat
    BY DEF ClientTypeOK, FetchState
<1>2. ASSUME NEW place, Moved(f, place),
             place \in {"new", "auth", "login", "write", "send", "answer", "done", "exhausted", "failed"}
      PROVE  /\ fetch' \in [Fetcher -> FetchState]
             /\ \A g \in Fetcher \ {f} : fetch'[g] = fetch[g]
             /\ fetch'[f].refused = fetch[f].refused
    <2> DEFINE rec == [fetch[f] EXCEPT !.at = place]
    <2>1. rec \in FetchState /\ rec.refused = fetch[f].refused /\ Put(f, rec)
        BY <1>1, <1>2 DEF FetchState, Moved
    <2> QED
        BY <2>1, FetchMoves
<1>3. ASSUME NEW place, Moved(f, place) PROVE fetch'[f].at = place
    BY <1>1, <1>3 DEF FetchState, Moved, Put, ClientTypeOK
<1>4. ASSUME NextAttempt(f)
      PROVE  /\ fetch' \in [Fetcher -> FetchState]
             /\ \A g \in Fetcher \ {f} : fetch'[g] = fetch[g]
             /\ fetch'[f].refused = fetch[f].refused
             /\ fetch'[f].at \in {"exhausted", "send"}
    <2> DEFINE rec == [fetch[f] EXCEPT !.attempt = @ + 1,
                            !.at = IF fetch[f].attempt + 1 = MAX_RETRIES THEN "exhausted" ELSE "send"]
    <2>1. /\ rec \in FetchState /\ rec.refused = fetch[f].refused /\ rec.at \in {"exhausted", "send"}
          /\ Put(f, rec)
        BY <1>1, <1>4 DEF FetchState, NextAttempt
    <2> QED
        BY <2>1, FetchMoves
<1> QED
    BY <1>2, <1>3, <1>4

(* The lock of get_client; sending and the answers that are no refusals.    *)
LEMMA ClientSends ==
    ASSUME ClientInv, NEW f \in Fetcher, GetClient(f) \/ Send(f) \/ Answered(f) \/ Limited(f)
    PROVE  ClientInv'
<1> USE ClientConstants DEF ClientConstants, ClientInv
<1>1. /\ UNCHANGED <<built, tokens, header, file, logins, errors>>
      /\ \A g \in Fetcher \ {f} : fetch'[g] = fetch[g]
      /\ fetch'[f].refused = fetch[f].refused
      /\ fetch' \in [Fetcher -> FetchState]
      /\ fetch'[f].at \notin {"new", "write", "login"}
      /\ \/ /\ fetch[f].at = "new" /\ building = Nobody
            /\ fetch'[f].at = IF built THEN "send" ELSE "auth"
            /\ building' = IF built THEN Nobody ELSE f
         \/ /\ fetch[f].at \in {"send", "answer"} /\ building' = building
            /\ fetch'[f].at # "auth"
            /\ fetch'[f].at = "send" => fetch[f].at = "answer"
            /\ fetch'[f].at = "answer" => fetch[f].at = "send" /\ fetch'[f].token = header
    <2>1. CASE GetClient(f)
        BY <2>1, MovedMoves DEF GetClient
    <2>2. CASE Send(f)
        <3> DEFINE rec == [fetch[f] EXCEPT !.at = "answer", !.token = header]
        <3>1. fetch[f] \in FetchState
            BY DEF ClientTypeOK
        <3>2. /\ rec \in FetchState /\ rec.at = "answer" /\ rec.token = header
              /\ rec.refused = fetch[f].refused /\ Put(f, rec)
            BY <2>2, <3>1 DEF Send, ClientTypeOK, FetchState
        <3> HIDE DEF rec
        <3> QED
            BY <2>2, <3>2, FetchMoves DEF Send
    <2>3. CASE Answered(f)
        BY <2>3, MovedMoves DEF Answered
    <2>4. CASE Limited(f)
        BY <2>4, MovedMoves DEF Limited
    <2> QED
        BY <2>1, <2>2, <2>3, <2>4
<1>2. ClientTypeOK'
    BY <1>1 DEF ClientTypeOK
<1>3. WrittenIsGood'
    BY <1>1 DEF WrittenIsGood
<1>4. RefusedDiffer'
    <2>1. Dead' = Dead
        BY <1>1 DEF Dead
    <2>2. ASSUME NEW R \in [Fetcher -> SUBSET Dead], Apart(R)
          PROVE  /\ \A g \in Fetcher : file' \notin R[g]
                 /\ fetch'[f].at = "send" => header' \notin R[f]
                 /\ fetch'[f].at = "answer" => fetch'[f].token \notin R[f]
        BY <1>1, <2>2 DEF Apart
    <2> QED
        BY <1>1, <2>1, <2>2, RefusedStayApart
<1>5. LoginsPaid'
    <2>1. Wants'[f] + Unbuilt' <= Wants[f] + Unbuilt
        BY <1>1 DEF Wants, Unbuilt
    <2>2. /\ Wants'[f] \in Nat /\ Wants[f] \in Nat /\ Unbuilt' \in Nat /\ Unbuilt \in Nat
          /\ logins \in Nat /\ errors \in Nat /\ fetch[f].refused \in Nat
        BY DEF Wants, Unbuilt, ClientTypeOK, FetchState
    <2>3. logins' + Wants'[f] + Unbuilt' + errors + fetch[f].refused
               <= logins + Wants[f] + Unbuilt + errors' + fetch'[f].refused
        BY <1>1, <2>1, <2>2
    <2> QED
        BY <1>1, <1>2, <2>3, LoginsStayPaid
<1> QED
    BY <1>2, <1>3, <1>4, <1>5
(* Authenticating: the header gets the token of the file or of a login.     *)
LEMMA AuthenticatedMoves ==
    ASSUME ClientTypeOK, NEW f \in Fetcher, Authenticated(f), fetch[f].at \in {"auth", "write"}
    PROVE  /\ fetch' \in [Fetcher -> FetchState] /\ built' \in BOOLEAN
           /\ \A g \in Fetcher \ {f} : fetch'[g] = fetch[g]
           /\ fetch'[f].refused = fetch[f].refused
           /\ fetch'[f].at \in {"exhausted", "send"}
           /\ Unbuilt' <= Unbuilt
<1> USE ClientConstants DEF ClientConstants
<1>1. CASE building = f /\ built' = TRUE /\ building' = Nobody /\ Moved(f, "send")
    BY <1>1, MovedMoves DEF Unbuilt
<1>2. CASE building # f /\ NextAttempt(f) /\ UNCHANGED <<built, building>>
    BY <1>2, MovedMoves DEF Unbuilt, ClientTypeOK
<1> QED
    BY <1>1, <1>2 DEF Authenticated

LEMMA ClientReads ==
    ASSUME ClientInv, NEW f \in Fetcher, ReadToken(f)
    PROVE  ClientInv'
<1> USE ClientConstants DEF ClientConstants, ClientInv
<1>1. /\ UNCHANGED <<tokens, file, logins, errors>>
      /\ fetch[f].at = "auth"
      /\ \A g \in Fetcher \ {f} : fetch'[g] = fetch[g]
      /\ fetch'[f].refused = fetch[f].refused
      /\ fetch' \in [Fetcher -> FetchState] /\ built' \in BOOLEAN
      /\ fetch'[f].at \in {"exhausted", "send", "login"}
      /\ Unbuilt' <= Unbuilt
      /\ \/ header' = file
         \/ header' = header /\ fetch'[f].at = "login"
    <2>1. CASE Readable(file) /\ header' = file /\ Authenticated(f)
        BY <2>1, AuthenticatedMoves DEF ReadToken
    <2>2. CASE Moved(f, "login") /\ UNCHANGED <<built, building, header>>
        BY <2>2, MovedMoves DEF ReadToken, ClientTypeOK, Unbuilt
    <2> QED
        BY <2>1, <2>2 DEF ReadToken
<1>2. ClientTypeOK'
    BY <1>1 DEF ClientTypeOK
<1>3. WrittenIsGood'
    BY <1>1 DEF WrittenIsGood
<1>4. RefusedDiffer'
    <2>1. Dead' = Dead
        BY <1>1 DEF Dead
    <2>2. ASSUME NEW R \in [Fetcher -> SUBSET Dead], Apart(R)
          PROVE  /\ \A g \in Fetcher : file' \notin R[g]
                 /\ header' = header \/ \A g \in Fetcher : header' \notin R[g]
                 /\ fetch'[f].at = "send" => header' \notin R[f]
        BY <1>1, <2>2 DEF Apart
    <2> QED
        BY <1>1, <2>1, <2>2, RefusedStayApart
<1>5. LoginsPaid'
    <2>1. Wants'[f] <= Wants[f]
        BY <1>1 DEF Wants
    <2>2. /\ Wants'[f] \in Nat /\ Wants[f] \in Nat /\ Unbuilt' \in Nat /\ Unbuilt \in Nat
          /\ logins \in Nat /\ errors \in Nat /\ fetch[f].refused \in Nat
        BY DEF Wants, Unbuilt, ClientTypeOK, FetchState
    <2>3. logins' + Wants'[f] + Unbuilt' + errors + fetch[f].refused
               <= logins + Wants[f] + Unbuilt + errors' + fetch'[f].refused
        BY <1>1, <2>1, <2>2
    <2> QED
        BY <1>1, <1>2, <2>3, LoginsStayPaid
<1> QED
    BY <1>2, <1>3, <1>4, <1>5

LEMMA ClientLogsIn ==
    ASSUME ClientInv, NEW f \in Fetcher, Login(f)
    PROVE  ClientInv'
<1> USE ClientConstants DEF ClientConstants, ClientInv
<1> DEFINE k == Len(tokens) + 1
           rec == [fetch[f] EXCEPT !.at = "write", !.token = Len(tokens'), !.tries = 0]
<1>1. /\ tokens \in Seq({"good", "late", "expired", "revoked"}) /\ Len(tokens) \in Nat
      /\ DOMAIN tokens = 1 .. Len(tokens) /\ fetch[f] \in FetchState
    BY DEF ClientTypeOK
<1>2. /\ tokens' \in Seq({"good", "late", "expired", "revoked"}) /\ Len(tokens') = k
      /\ DOMAIN tokens' = 1 .. k /\ tokens'[k] = "good"
      /\ \A j \in DOMAIN tokens : tokens'[j] = tokens[j]
    BY <1>1 DEF Login
<1>3. /\ UNCHANGED <<built, building, file, errors>> /\ logins' = logins + 1 /\ header' = k
      /\ fetch[f].at = "login" /\ Put(f, rec)
    BY <1>2 DEF Login
<1>4. rec \in FetchState /\ rec.at = "write" /\ rec.token = k /\ rec.refused = fetch[f].refused
    <2>1. Len(tokens') \in Nat /\ Len(tokens') = k
        BY <1>1, <1>2
    <2> HIDE DEF k
    <2> QED
        BY <1>1, <2>1 DEF FetchState
<1> HIDE DEF rec
<1>5. /\ fetch' \in [Fetcher -> FetchState] /\ fetch'[f] = rec
      /\ \A g \in Fetcher \ {f} : fetch'[g] = fetch[g]
    BY <1>3, <1>4, FetchMoves
<1>6. ClientTypeOK'
    BY <1>1, <1>2, <1>3, <1>5 DEF ClientTypeOK
<1>7. WrittenIsGood'
    BY <1>1, <1>2, <1>4, <1>5 DEF WrittenIsGood
<1>8. RefusedDiffer'
    <2>1. Dead \subseteq Dead' /\ k \notin Dead
        BY <1>1, <1>2 DEF Dead
    <2>2. ASSUME NEW R \in [Fetcher -> SUBSET Dead], Apart(R)
          PROVE  \A g \in Fetcher : file' \notin R[g] /\ header' \notin R[g]
        BY <1>3, <2>1, <2>2 DEF Apart
    <2> QED
        BY <1>4, <1>5, <2>1, <2>2, RefusedStayApart
<1>9. LoginsPaid'
    <2>1. Wants'[f] = 0 /\ Wants[f] = 1 /\ Unbuilt' = Unbuilt
        BY <1>3, <1>4, <1>5 DEF Wants, Unbuilt
    <2>2. Unbuilt \in Nat /\ logins \in Nat /\ errors \in Nat /\ fetch[f].refused \in Nat
        BY DEF Unbuilt, ClientTypeOK, FetchState
    <2>3. logins' + Wants'[f] + Unbuilt' + errors + fetch[f].refused
               <= logins + Wants[f] + Unbuilt + errors' + fetch'[f].refused
        BY <1>3, <1>4, <1>5, <2>1, <2>2
    <2> QED
        BY <1>5, <1>6, <2>3, LoginsStayPaid
<1> QED
    BY <1>6, <1>7, <1>8, <1>9
LEMMA ClientWrites ==
    ASSUME ClientInv, NEW f \in Fetcher, WriteToken(f)
    PROVE  ClientInv'
<1> USE DEF ClientInv
<1>1. /\ UNCHANGED <<tokens, header, logins, errors>> /\ file' = fetch[f].token
      /\ fetch[f].at = "write"
      /\ \A g \in Fetcher \ {f} : fetch'[g] = fetch[g]
      /\ fetch'[f].refused = fetch[f].refused
      /\ fetch' \in [Fetcher -> FetchState] /\ built' \in BOOLEAN
      /\ fetch'[f].at \in {"exhausted", "send"}
      /\ Unbuilt' <= Unbuilt
    BY AuthenticatedMoves DEF WriteToken
<1>2. ClientTypeOK'
    BY <1>1 DEF ClientTypeOK, FetchState
<1>3. WrittenIsGood'
    BY <1>1 DEF WrittenIsGood
<1>4. RefusedDiffer'
    <2>1. Dead' = Dead /\ file' \notin Dead
        BY <1>1 DEF Dead, WrittenIsGood
    <2>2. ASSUME NEW R \in [Fetcher -> SUBSET Dead], Apart(R)
          PROVE  /\ \A g \in Fetcher : file' \notin R[g]
                 /\ header' \notin R[f]
        BY <1>1, <2>1, <2>2 DEF Apart
    <2> QED
        BY <1>1, <2>1, <2>2, RefusedStayApart
<1>5. LoginsPaid'
    <2>1. Wants'[f] = 0 /\ Wants[f] = 0
        BY <1>1 DEF Wants
    <2>2. /\ Unbuilt' \in Nat /\ Unbuilt \in Nat
          /\ logins \in Nat /\ errors \in Nat /\ fetch[f].refused \in Nat
        BY DEF Unbuilt, ClientTypeOK, FetchState
    <2>3. logins' + Wants'[f] + Unbuilt' + errors + fetch[f].refused
               <= logins + Wants[f] + Unbuilt + errors' + fetch'[f].refused
        BY <1>1, <2>1, <2>2
    <2> QED
        BY <1>1, <1>2, <2>3, LoginsStayPaid
<1> QED
    BY <1>2, <1>3, <1>4, <1>5

(* The ends that are no success: out of tries, or an error.                 *)
LEMMA ClientGivesUp ==
    ASSUME ClientInv, NEW f \in Fetcher, LoginLimited(f) \/ Raises(f)
    PROVE  ClientInv'
<1> USE ClientConstants DEF ClientConstants, ClientInv
<1>1. fetch[f] \in FetchState
    BY DEF ClientTypeOK
<1>2. /\ UNCHANGED <<built, tokens, header, file, logins>>
      /\ \A g \in Fetcher \ {f} : fetch'[g] = fetch[g]
      /\ fetch'[f].refused = fetch[f].refused
      /\ fetch' \in [Fetcher -> FetchState]
      /\ errors' \in Nat
      /\ \/ /\ fetch[f].at = "login" /\ fetch'[f].at = "login"
            /\ building' = building /\ errors' = errors
         \/ /\ fetch[f].at = "login" /\ fetch'[f].at = "exhausted"
            /\ building' = (IF building = f THEN Nobody ELSE building) /\ errors' = errors
         \/ /\ fetch[f].at \in {"login", "write", "answer"} /\ fetch'[f].at = "failed"
            /\ building' = (IF building = f THEN Nobody ELSE building) /\ errors' = errors + 1
    <2>1. CASE Raises(f)
        BY <2>1, MovedMoves DEF Raises, Abort, ClientTypeOK
    <2>2. CASE LoginLimited(f) /\ Abort(f, "exhausted")
        BY <2>2, MovedMoves DEF LoginLimited, Abort, ClientTypeOK
    <2>3. CASE LoginLimited(f) /\ ~Abort(f, "exhausted")
        <3> DEFINE rec == [fetch[f] EXCEPT !.tries = @ + 1]
        <3>1. rec \in FetchState /\ rec.at = fetch[f].at /\ rec.refused = fetch[f].refused
            BY <1>1 DEF FetchState
        <3>2. Put(f, rec) /\ UNCHANGED <<built, building, tokens, header, file, logins, errors>> /\ fetch[f].at = "login"
            BY <2>3 DEF LoginLimited
        <3> HIDE DEF rec
        <3> QED
            BY <3>1, <3>2, FetchMoves DEF ClientTypeOK
    <2> QED
        BY <2>1, <2>2, <2>3
<1>3. ClientTypeOK'
    BY <1>2 DEF ClientTypeOK
<1>4. WrittenIsGood'
    BY <1>2 DEF WrittenIsGood
<1>5. RefusedDiffer'
    <2>1. Dead' = Dead
        BY <1>2 DEF Dead
    <2>2. ASSUME NEW R \in [Fetcher -> SUBSET Dead], Apart(R)
          PROVE  \A g \in Fetcher : file' \notin R[g]
        BY <1>2, <2>2 DEF Apart
    <2> QED
        BY <1>2, <2>1, <2>2, RefusedStayApart
<1>6. LoginsPaid'
    <2>1. Wants'[f] + Unbuilt' + errors <= Wants[f] + Unbuilt + errors'
        <3>1. built' = built /\ errors \in Nat
            BY <1>2 DEF ClientTypeOK
        <3> QED
            BY <1>2, <3>1 DEF Wants, Unbuilt
    <2>2. /\ Wants'[f] \in Nat /\ Wants[f] \in Nat /\ Unbuilt' \in Nat /\ Unbuilt \in Nat
          /\ logins \in Nat /\ errors \in Nat /\ errors' \in Nat /\ fetch[f].refused \in Nat
        BY <1>2 DEF Wants, Unbuilt, ClientTypeOK, FetchState
    <2>3. logins' + Wants'[f] + Unbuilt' + errors + fetch[f].refused
               <= logins + Wants[f] + Unbuilt + errors' + fetch'[f].refused
        BY <1>2, <2>1, <2>2
    <2> QED
        BY <1>2, <1>3, <2>3, LoginsStayPaid
<1> QED
    BY <1>3, <1>4, <1>5, <1>6

(* A refusal: the token is new among those f was refused with, and leaves   *)
(* the file with whatever else was there.                                   *)
LEMMA ClientRefused ==
    ASSUME ClientInv, NEW f \in Fetcher, Refused(f)
    PROVE  ClientInv'
<1> USE ClientConstants DEF ClientConstants, ClientInv
<1> DEFINE rec == [fetch[f] EXCEPT !.at = "auth", !.refused = @ + 1]
           t == fetch[f].token
<1>1. fetch[f] \in FetchState
    BY DEF ClientTypeOK
<1>2. rec \in FetchState /\ rec.at = "auth" /\ rec.refused = fetch[f].refused + 1
    <2>1. fetch[f].refused + 1 \in Nat
        BY <1>1 DEF FetchState
    <2> QED
        BY <1>1, <2>1 DEF FetchState
<1>3. /\ UNCHANGED <<built, building, tokens, header, logins, errors>> /\ file' = NoToken
      /\ fetch[f].at = "answer" /\ t \in Dead /\ Put(f, rec)
    BY DEF Refused
<1> HIDE DEF rec
<1>4. /\ fetch' \in [Fetcher -> FetchState] /\ fetch'[f] = rec
      /\ \A g \in Fetcher \ {f} : fetch'[g] = fetch[g]
    BY <1>2, <1>3, FetchMoves
<1>5. ClientTypeOK'
    BY <1>3, <1>4 DEF ClientTypeOK, NoToken
<1>6. WrittenIsGood'
    BY <1>2, <1>3, <1>4 DEF WrittenIsGood
<1>7. RefusedDiffer'
    <2>1. PICK R \in [Fetcher -> SUBSET Dead] : Apart(R)
        BY DEF RefusedDiffer
    <2>2. Dead' = Dead /\ IsFiniteSet(Dead) /\ Dead \subseteq Nat \ {0}
        BY <1>3, DeadProperties DEF Dead
    <2>3. PICK Q \in [Fetcher -> SUBSET Dead'] : Q[f] = R[f] \cup {t} /\ \A g \in Fetcher \ {f} : Q[g] = R[g]
        <3>1. [R EXCEPT ![f] = @ \cup {t}] \in [Fetcher -> SUBSET Dead']
            BY <1>3, <2>2
        <3> QED
            BY <3>1
    <2>4. Cardinality(Q[f]) = fetch'[f].refused
        <3>1. IsFiniteSet(R[f]) /\ t \notin R[f] /\ Cardinality(R[f]) = fetch[f].refused
            BY <1>3, <2>1, <2>2, FS_Subset DEF Apart
        <3>2. Cardinality(R[f] \cup {t}) = Cardinality(R[f]) + 1
            BY <3>1, FS_AddElement
        <3> QED
            BY <1>2, <1>4, <2>3, <3>1, <3>2
    <2>5. Apart(Q)'
        <3> SUFFICES ASSUME NEW g \in Fetcher
                     PROVE  /\ Cardinality(Q[g]) = fetch'[g].refused
                            /\ file' \notin Q[g]
                            /\ fetch'[g].at = "new" => Q[g] = {}
                            /\ fetch'[g].at \in {"send", "answer", "write"} => header' \notin Q[g]
                            /\ fetch'[g].at = "answer" => fetch'[g].token \notin Q[g]
            BY DEF Apart
        <3>1. file' \notin Q[g]
            BY <1>3, <2>2, <2>3 DEF NoToken
        <3>2. CASE g = f
            BY <1>2, <1>4, <2>4, <3>1, <3>2
        <3>3. CASE g # f
            BY <1>3, <1>4, <2>1, <2>3, <3>1, <3>3 DEF Apart
        <3> QED
            BY <3>2, <3>3
    <2> QED
        BY <2>3, <2>5 DEF RefusedDiffer
<1>8. LoginsPaid'
    <2>1. Wants'[f] = 1 /\ Wants[f] = 0 /\ Unbuilt' = Unbuilt
        BY <1>2, <1>3, <1>4 DEF Wants, Unbuilt
    <2>2. Unbuilt \in Nat /\ logins \in Nat /\ errors \in Nat /\ fetch[f].refused \in Nat
        BY DEF Unbuilt, ClientTypeOK, FetchState
    <2>3. logins' + Wants'[f] + Unbuilt' + errors + fetch[f].refused
               <= logins + Wants[f] + Unbuilt + errors' + fetch'[f].refused
        BY <1>2, <1>3, <1>4, <2>1, <2>2
    <2> QED
        BY <1>4, <1>5, <2>3, LoginsStayPaid
<1> QED
    BY <1>5, <1>6, <1>7, <1>8

(* Tokens die, and the other processes write and delete the file.           *)
LEMMA ClientWorld ==
    ASSUME ClientInv, (\E k \in DOMAIN tokens : TokenDies(k)) \/ OtherProcess
    PROVE  ClientInv'
<1> USE DEF ClientInv
<1>1. /\ tokens \in Seq({"good", "late", "expired", "revoked"}) /\ Len(tokens) \in Nat
      /\ DOMAIN tokens = 1 .. Len(tokens) /\ Dead \subseteq DOMAIN tokens
    BY DEF ClientTypeOK, Dead
<1>2. /\ UNCHANGED <<built, building, header, fetch, logins, errors>>
      /\ tokens' \in Seq({"good", "late", "expired", "revoked"})
      /\ Dead \subseteq Dead'
      /\ file' = file \/ file' \notin Dead
      /\ file' \in Nat
      /\ \A f \in Fetcher : fetch[f].at = "write" =>
            fetch[f].token \in DOMAIN tokens' /\ tokens'[fetch[f].token] = "good"
    <2>1. ASSUME NEW k \in DOMAIN tokens, TokenDies(k)
          PROVE  /\ UNCHANGED <<built, building, header, fetch, logins, errors, file>>
                 /\ tokens' \in Seq({"good", "late", "expired", "revoked"})
                 /\ Dead \subseteq Dead'
                 /\ \A f \in Fetcher : fetch[f].at = "write" =>
                       fetch[f].token \in DOMAIN tokens' /\ tokens'[fetch[f].token] = "good"
        BY <1>1, <2>1 DEF TokenDies, Dead, WrittenIsGood
    <2>2. CASE OtherProcess
        <3>1. CASE tokens' = Append(tokens, "good") /\ file' = Len(tokens')
            BY <1>1, <2>2, <3>1 DEF OtherProcess, Dead, WrittenIsGood
        <3>2. CASE file' = NoToken /\ UNCHANGED tokens
            BY <1>1, <2>2, <3>2 DEF OtherProcess, Dead, WrittenIsGood, NoToken
        <3> QED
            BY <2>2, <3>1, <3>2 DEF OtherProcess
    <2> QED
        BY <2>1, <2>2 DEF ClientTypeOK
<1>3. ClientTypeOK' /\ WrittenIsGood'
    BY <1>2 DEF ClientTypeOK, WrittenIsGood
<1>4. RefusedDiffer'
    <2>1. PICK R \in [Fetcher -> SUBSET Dead] : Apart(R)
        BY DEF RefusedDiffer
    <2>2. R \in [Fetcher -> SUBSET Dead'] /\ Apart(R)'
        BY <1>2, <2>1 DEF Apart
    <2> QED
        BY <2>2 DEF RefusedDiffer
<1>5. LoginsPaid'
    BY <1>2 DEF LoginsPaid, Wants, Refusals, Unbuilt
<1> QED
    BY <1>3, <1>4, <1>5

LEMMA ClientSteps == ClientInv /\ [ClientNext]_clientVars => ClientInv'
<1> SUFFICES ASSUME ClientInv, [ClientNext]_clientVars PROVE ClientInv'
    OBVIOUS
<1>1. CASE UNCHANGED clientVars
    BY <1>1 DEF clientVars, ClientInv, ClientTypeOK, WrittenIsGood, RefusedDiffer, Apart, Dead, LoginsPaid,
       Wants, Refusals, Unbuilt
<1>2. CASE ClientNext
    BY <1>2, ClientReads, ClientLogsIn, ClientGivesUp, ClientWrites, ClientSends, ClientRefused, ClientWorld
       DEF ClientNext
<1> QED
    BY <1>1, <1>2

(* Every reachable state of the client satisfies the invariant.             *)
THEOREM ClientInvariance == ClientSpec => []ClientInv
BY ClientStart, ClientSteps, PTL DEF ClientSpec

(* However many requests share the header and the file, a token that dies   *)
(* costs each of them one attempt and one login at most, and the first ones *)
(* together log in once.                                                    *)
THEOREM LoginsStayRare == ClientSpec => []ReauthenticationSettles
<1>1. ClientInv => ReauthenticationSettles
    <2> SUFFICES ASSUME ClientInv PROVE ReauthenticationSettles
        OBVIOUS
    <2> USE ClientConstants DEF ClientConstants, ClientInv
    <2>1. ASSUME NEW f \in Fetcher PROVE fetch[f].refused <= Cardinality(Dead)
        <3>1. PICK R \in [Fetcher -> SUBSET Dead] : Apart(R)
            BY DEF RefusedDiffer
        <3> QED
            BY <3>1, DeadProperties, FS_Subset DEF Apart
    <2>2. \A f \in Fetcher : Wants[f] \in Nat /\ Refusals[f] \in Nat
        BY DEF Wants, Refusals, ClientTypeOK, FetchState
    <2>3. /\ Total(Wants, Fetcher) \in Nat /\ Total(Refusals, Fetcher) \in Nat
          /\ Unbuilt \in Nat /\ logins \in Nat /\ errors \in Nat
        BY <2>2, TotalNat DEF Unbuilt, ClientTypeOK
    <2> QED
        BY <2>1, <2>3 DEF ReauthenticationSettles, LoginsPaid, Refusals
<1> QED
    BY <1>1, ClientInvariance, PTL

-----------------------------------------------------------------------------
(* The timeline of Timeline.tla, for any notes and any times.               *)

Told == {"review", "review_update", "rebuttal", "comment", "author_revision", "meta_review", "decision"}
TimelineEvent == [kind : Told, source : Nat, at : Nat]

LEMMA KindRanks ==
    /\ KindRank("review") = 1 /\ KindRank("review_update") = 2 /\ KindRank("rebuttal") = 3
    /\ KindRank("comment") = 4 /\ KindRank("author_revision") = 5
    /\ KindRank("meta_review") = 6 /\ KindRank("decision") = 7
<1> DEFINE Nth(kind) == CHOOSE i \in 1 .. 7 : KIND_ORDER[i] = kind
<1>1. \A kind : KindRank(kind) = Nth(kind)
    BY DEF KindRank, KIND_ORDER
<1>2. /\ KIND_ORDER[1] = "review" /\ KIND_ORDER[2] = "review_update" /\ KIND_ORDER[3] = "rebuttal"
      /\ KIND_ORDER[4] = "comment" /\ KIND_ORDER[5] = "author_revision"
      /\ KIND_ORDER[6] = "meta_review" /\ KIND_ORDER[7] = "decision"
    BY DEF KIND_ORDER
<1>3. \A k \in 1 .. 7 : k = 1 \/ k = 2 \/ k = 3 \/ k = 4 \/ k = 5 \/ k = 6 \/ k = 7
    OBVIOUS
<1>4. \A i, j \in 1 .. 7 : KIND_ORDER[i] = KIND_ORDER[j] => i = j
    BY <1>2, <1>3
<1>5. \A i \in 1 .. 7 : Nth(KIND_ORDER[i]) = i
    BY <1>4
<1> HIDE DEF Nth
<1> QED
    BY <1>1, <1>2, <1>5

(* What a note contributes: events of its own, no two of one kind, and an   *)
(* update later than the review it updates.                                 *)
LEMMA EventsOfNote ==
    ASSUME NEW note, note.posted \in Nat, note.modified \in Nat, NEW n \in Nat
    PROVE  LET es == EventsOf(note, n)
           IN /\ es \in Seq(TimelineEvent)
              /\ \A j \in DOMAIN es :
                   /\ es[j].source = n /\ es[j].kind # "author_revision"
                   /\ es[j].kind = "review" => es[j].at = note.posted
                   /\ es[j].kind = "review_update" => es[j].at > note.posted
              /\ \A i, j \in DOMAIN es : es[i].kind = es[j].kind => i = j
<1> DEFINE es == EventsOf(note, n)
           Sound(s) ==
              /\ s \in Seq(TimelineEvent)
              /\ \A j \in DOMAIN s :
                   /\ s[j].source = n /\ s[j].kind # "author_revision"
                   /\ s[j].kind = "review" => s[j].at = note.posted
                   /\ s[j].kind = "review_update" => s[j].at > note.posted
              /\ \A i, j \in DOMAIN s : s[i].kind = s[j].kind => i = j
<1>1. \A kind \in Told \ {"author_revision", "review_update"} : Sound(<<Event(kind, n, note.posted)>>)
    <2> TAKE kind \in Told \ {"author_revision", "review_update"}
    <2> DEFINE e == Event(kind, n, note.posted)
    <2>1. /\ e \in TimelineEvent /\ e.kind = kind /\ e.source = n /\ e.at = note.posted
        BY DEF Event, TimelineEvent, Told
    <2> HIDE DEF e
    <2> DEFINE s == <<e>>
    <2>2. s \in Seq(TimelineEvent) /\ DOMAIN s = {1} /\ s[1] = e
        BY <2>1
    <2>3. Sound(s)
        <3> HIDE DEF s
        <3> QED
            BY <2>1, <2>2
    <2> QED
        BY <2>3 DEF e
<1>2. note.modified > note.posted =>
        Sound(<<Event("review", n, note.posted), Event("review_update", n, note.modified)>>)
    <2> SUFFICES ASSUME note.modified > note.posted
                 PROVE  Sound(<<Event("review", n, note.posted), Event("review_update", n, note.modified)>>)
        OBVIOUS
    <2> DEFINE e == Event("review", n, note.posted)
               f == Event("review_update", n, note.modified)
    <2>1. /\ e \in TimelineEvent /\ e.kind = "review" /\ e.source = n /\ e.at = note.posted
          /\ f \in TimelineEvent /\ f.kind = "review_update" /\ f.source = n /\ f.at = note.modified
        BY DEF Event, TimelineEvent, Told
    <2> HIDE DEF e, f
    <2> DEFINE s == <<e, f>>
    <2>2. s \in Seq(TimelineEvent) /\ DOMAIN s = {1, 2} /\ s[1] = e /\ s[2] = f
        BY <2>1
    <2>3. Sound(s)
        <3> HIDE DEF s
        <3> QED
            BY <2>1, <2>2
    <2> QED
        BY <2>3 DEF e, f
<1>3. Sound(<<>>)
    OBVIOUS
<1>4. \/ es = <<>>
      \/ note.modified > note.posted
         /\ es = <<Event("review", n, note.posted), Event("review_update", n, note.modified)>>
      \/ \E kind \in Told \ {"author_revision", "review_update"} : es = <<Event(kind, n, note.posted)>>
    BY DEF EventsOf, CommentEvent, Told
<1> HIDE DEF es, Sound
<1>5. Sound(es)
    BY <1>1, <1>2, <1>3, <1>4
<1> QED
    BY <1>5 DEF es, Sound

(* Sorting loses no event and tells none twice; of two events the one that  *)
(* is told first sorts first.                                               *)
LEMMA OrderedProperties ==
    ASSUME NEW events \in Seq(TimelineEvent)
    PROVE  LET told == Ordered(events)
           IN /\ told \in Seq(TimelineEvent) /\ Len(told) = Len(events)
              /\ \E p \in [DOMAIN told -> DOMAIN events] :
                   /\ \A i \in DOMAIN told : told[i] = events[p[i]]
                   /\ \A i, j \in DOMAIN told : i < j => SortsFirst(events, p[i], p[j])
                   /\ \A i, j \in DOMAIN told : p[i] = p[j] => i = j
<1> DEFINE D == DOMAIN events
           R == SortOrder(events)
           place == Enumerate(D, R)
           told == [k \in D |-> events[place[k]]]
<1>9. Ordered(events) = told
    BY DEF Ordered
<1>1. D = 1 .. Len(events) /\ Len(events) \in Nat
    OBVIOUS
<1>2. IsFiniteSet(D) /\ Cardinality(D) = Len(events)
    BY <1>1, FS_Interval
<1>3. \A i \in D : i \in Nat /\ events[i] \in TimelineEvent
    BY <1>1
<1>4. \A i \in D : events[i].at \in Nat /\ KindRank(events[i].kind) \in Nat
    <2> TAKE i \in D
    <2>1. events[i].at \in Nat /\ events[i].kind \in Told
        BY <1>3 DEF TimelineEvent
    <2>2. \A kind \in Told : KindRank(kind) \in Nat
        BY KindRanks DEF Told
    <2> QED
        BY <2>1, <2>2
<1>5. \A i, j \in D : <<i, j>> \in R <=> SortsFirst(events, i, j)
    BY DEF SortOrder
<1> HIDE DEF D, R
<1>6. StrictOrder(D, R)
    <2> DEFINE a == [i \in D |-> events[i].at]
               b == [i \in D |-> KindRank(events[i].kind)]
    <2>1. \A i \in D : a[i] \in Nat /\ b[i] \in Nat /\ i \in Nat
        BY <1>3, <1>4
    <2>2. \A i, j \in D : <<i, j>> \in R <=>
            (a[i] < a[j] \/ (a[i] = a[j] /\ (b[i] < b[j] \/ (b[i] = b[j] /\ i < j))))
        BY <1>5 DEF SortsFirst
    <2> HIDE DEF a, b
    <2>3. \A i \in D : <<i, i>> \notin R
        BY <2>1, <2>2
    <2>4. \A i, j \in D : i = j \/ <<i, j>> \in R \/ <<j, i>> \in R
        <3> TAKE i, j \in D
        <3>1. (a[i] < a[j] \/ a[j] < a[i] \/ a[i] = a[j]) /\ (b[i] < b[j] \/ b[j] < b[i] \/ b[i] = b[j])
              /\ (i < j \/ j < i \/ i = j)
            BY <2>1
        <3> QED
            BY <2>2, <3>1
    <2>5. \A i, j, k \in D : <<i, j>> \in R /\ <<j, k>> \in R => <<i, k>> \in R
        <3> TAKE i, j, k \in D
        <3> HAVE <<i, j>> \in R /\ <<j, k>> \in R
        <3>1. /\ a[i] \in Nat /\ b[i] \in Nat /\ i \in Nat /\ a[j] \in Nat /\ b[j] \in Nat /\ j \in Nat
              /\ a[k] \in Nat /\ b[k] \in Nat /\ k \in Nat
            BY <2>1
        <3>2. a[i] < a[j] \/ (a[i] = a[j] /\ (b[i] < b[j] \/ (b[i] = b[j] /\ i < j)))
            BY <2>2
        <3>3. a[j] < a[k] \/ (a[j] = a[k] /\ (b[j] < b[k] \/ (b[j] = b[k] /\ j < k)))
            BY <2>2
        <3>4. a[i] < a[k] \/ (a[i] = a[k] /\ (b[i] < b[k] \/ (b[i] = b[k] /\ i < k)))
            BY <3>1, <3>2, <3>3
        <3> QED
            BY <2>2, <3>4
    <2> QED
        BY <2>3, <2>4, <2>5 DEF StrictOrder
<1>7. /\ DOMAIN place = 1 .. Cardinality(D) /\ place \in Seq(D)
      /\ \A i, j \in DOMAIN place : i < j => <<place[i], place[j]>> \in R
      /\ \A i, j \in DOMAIN place : place[i] = place[j] => i = j
    BY <1>2, <1>6, EnumerateProperties
<1> HIDE DEF place
<1>8. \A k \in DOMAIN place : place[k] \in D
    <2> TAKE k \in DOMAIN place
    <2>1. place \in Seq(D)
        BY <1>7
    <2> HIDE DEF told
    <2> QED
        BY <2>1
<1>10. told \in Seq(TimelineEvent) /\ Len(told) = Len(events) /\ DOMAIN told = DOMAIN place
    BY <1>1, <1>2, <1>3, <1>7, <1>8
<1>11. place \in [DOMAIN told -> D]
    <2>1. place \in Seq(D) /\ DOMAIN place = DOMAIN told
        BY <1>7, <1>10
    <2> HIDE DEF told
    <2>2. place = [k \in DOMAIN place |-> place[k]]
        BY <2>1
    <2> QED
        BY <1>8, <2>1, <2>2
<1>12. /\ \A i \in DOMAIN told : told[i] = events[place[i]]
       /\ \A i, j \in DOMAIN told : i < j => SortsFirst(events, place[i], place[j])
       /\ \A i, j \in DOMAIN told : place[i] = place[j] => i = j
    BY <1>5, <1>7, <1>8, <1>10
<1> HIDE DEF told
<1> QED
    BY <1>9, <1>10, <1>11, <1>12 DEF D

(* What TimelineTellsInOrder asks of a list of events. *)
TellsInOrder(told) ==
    \A i, j \in DOMAIN told : i < j =>
        LET e == told[i]
            f == told[j]
        IN /\ e # f
           /\ e.at <= f.at
           /\ f.kind = "review" => e.at < f.at \/ e.kind = "review"
           /\ e.kind \in {"decision", "meta_review"} => e.at < f.at \/ f.kind \in {"decision", "meta_review"}
           /\ f.kind = "review" => ~(e.kind = "review_update" /\ e.source = f.source)
           /\ e.kind = "author_revision" /\ f.kind = "author_revision" => e.source < f.source

(* The events before they are sorted: no two of one kind from one source,   *)
(* an update after its review, the edits of the authors in their order.     *)
Tellable(events) ==
    /\ events \in Seq(TimelineEvent)
    /\ \A k, l \in DOMAIN events :
         /\ events[k].source = events[l].source /\ events[k].kind = events[l].kind => k = l
         /\ events[k].source = events[l].source /\ events[k].kind = "review" /\ events[l].kind = "review_update"
              => events[k].at < events[l].at
         /\ events[k].kind = "author_revision" /\ events[l].kind = "author_revision" /\ k < l
              => events[k].at <= events[l].at /\ events[k].source < events[l].source

LEMMA OrderedTells ==
    ASSUME NEW events, Tellable(events)
    PROVE  Ordered(events) \in Seq(TimelineEvent) /\ TellsInOrder(Ordered(events))
<1> DEFINE told == Ordered(events)
<1>1. events \in Seq(TimelineEvent)
    BY DEF Tellable
<1>2. told \in Seq(TimelineEvent)
    BY <1>1, OrderedProperties
<1>3. PICK p \in [DOMAIN told -> DOMAIN events] :
        /\ \A i \in DOMAIN told : told[i] = events[p[i]]
        /\ \A i, j \in DOMAIN told : i < j => SortsFirst(events, p[i], p[j])
        /\ \A i, j \in DOMAIN told : p[i] = p[j] => i = j
    BY <1>1, OrderedProperties
<1> HIDE DEF told
<1>4. TellsInOrder(told)
    <2> SUFFICES ASSUME NEW i \in DOMAIN told, NEW j \in DOMAIN told, i < j
                 PROVE  LET e == told[i]
                            f == told[j]
                        IN /\ e # f
                           /\ e.at <= f.at
                           /\ f.kind = "review" => e.at < f.at \/ e.kind = "review"
                           /\ e.kind \in {"decision", "meta_review"} =>
                                e.at < f.at \/ f.kind \in {"decision", "meta_review"}
                           /\ f.kind = "review" => ~(e.kind = "review_update" /\ e.source = f.source)
                           /\ e.kind = "author_revision" /\ f.kind = "author_revision" => e.source < f.source
        BY DEF TellsInOrder
    <2> DEFINE k == p[i]
               l == p[j]
               e == events[k]
               f == events[l]
    <2>1. /\ k \in DOMAIN events /\ l \in DOMAIN events /\ told[i] = e /\ told[j] = f
          /\ SortsFirst(events, k, l) /\ k \in Nat /\ l \in Nat
        BY <1>1, <1>3
    <2>2. k # l
        BY <1>2, <1>3
    <2>3. /\ e.at \in Nat /\ f.at \in Nat /\ e.kind \in Told /\ f.kind \in Told
          /\ e.source \in Nat /\ f.source \in Nat
        <3>1. e \in TimelineEvent /\ f \in TimelineEvent
            BY <1>1, <2>1
        <3> QED
            BY <3>1 DEF TimelineEvent
    <2>4. /\ e.source = f.source /\ e.kind = f.kind => k = l
          /\ e.source = f.source /\ f.kind = "review" /\ e.kind = "review_update" => f.at < e.at
          /\ e.kind = "author_revision" /\ f.kind = "author_revision" /\ k < l
               => e.at <= f.at /\ e.source < f.source
          /\ e.kind = "author_revision" /\ f.kind = "author_revision" /\ l < k
               => f.at <= e.at /\ f.source < e.source
        BY <2>1 DEF Tellable
    <2>5. \/ e.at < f.at
          \/ /\ e.at = f.at
             /\ KindRank(e.kind) < KindRank(f.kind) \/ (KindRank(e.kind) = KindRank(f.kind) /\ k < l)
        BY <2>1 DEF SortsFirst
    <2> HIDE DEF e, f, k, l
    <2>6. e # f /\ e.at <= f.at
        BY <2>2, <2>3, <2>4, <2>5
    <2>7. f.kind = "review" => e.at < f.at \/ e.kind = "review"
        BY <2>3, <2>5, KindRanks DEF Told
    <2>8. e.kind \in {"decision", "meta_review"} => e.at < f.at \/ f.kind \in {"decision", "meta_review"}
        BY <2>3, <2>5, KindRanks DEF Told
    <2>9. f.kind = "review" => ~(e.kind = "review_update" /\ e.source = f.source)
        BY <2>3, <2>4, <2>6
    <2>10. e.kind = "author_revision" /\ f.kind = "author_revision" => e.source < f.source
        <3> SUFFICES ASSUME e.kind = "author_revision", f.kind = "author_revision", ~(k < l)
                     PROVE  FALSE
            BY <2>4
        <3>1. l < k
            BY <2>1, <2>2
        <3>2. f.at <= e.at /\ e.at = f.at
            BY <2>3, <2>4, <2>6, <3>1
        <3>3. KindRank(e.kind) = KindRank(f.kind) /\ KindRank(e.kind) = 5
            BY KindRanks
        <3> QED
            BY <2>3, <2>5, <3>2, <3>3
    <2> QED
        BY <2>1, <2>6, <2>7, <2>8, <2>9, <2>10
<1> QED
    BY <1>2, <1>4 DEF told

Note == [kinds : {p.kinds : p \in Posting} \cup {{"Submission"}},
         role : {p.role : p \in Posting} \cup {"author"}, posted : Nat, modified : Nat]
Got == [note : Note, n : Nat]

(* What a call has got: every note once; the edits in the order of time.    *)
Replies(replies) ==
    /\ replies \in Seq(Got)
    /\ \A i, j \in DOMAIN replies : replies[i].n = replies[j].n => i = j
InTime(times) ==
    /\ times \in Seq(Nat)
    /\ \A i, j \in DOMAIN times : i < j => times[i] <= times[j]

LEMMA MergeTellable ==
    ASSUME NEW replies, Replies(replies), NEW revisions, InTime(revisions)
    PROVE  Tellable(Flat([i \in DOMAIN replies |-> EventsOf(replies[i].note, replies[i].n)])
                    \o [e \in DOMAIN revisions |-> Event("author_revision", e, revisions[e])])
<1> DEFINE ess == [i \in DOMAIN replies |-> EventsOf(replies[i].note, replies[i].n)]
           notes == Flat(ess)
           updates == [e \in DOMAIN revisions |-> Event("author_revision", e, revisions[e])]
           events == notes \o updates
           m == Len(notes)
<1>1. /\ replies \in Seq(Got) /\ DOMAIN replies = 1 .. Len(replies) /\ Len(replies) \in Nat
      /\ \A i \in DOMAIN replies : replies[i] \in Got
      /\ \A i, j \in DOMAIN replies : replies[i].n = replies[j].n => i = j
    <2>1. replies \in Seq(Got)
        BY DEF Replies
    <2> QED
        BY <2>1 DEF Replies
<1>2. \A i \in DOMAIN replies :
        LET note == replies[i].note
            es == EventsOf(note, replies[i].n)
        IN /\ es \in Seq(TimelineEvent)
           /\ \A j \in DOMAIN es :
                /\ es[j].source = replies[i].n /\ es[j].kind # "author_revision"
                /\ es[j].kind = "review" => es[j].at = note.posted
                /\ es[j].kind = "review_update" => es[j].at > note.posted
           /\ \A k, j \in DOMAIN es : es[k].kind = es[j].kind => k = j
    <2> TAKE i \in DOMAIN replies
    <2>1. replies[i].n \in Nat /\ replies[i].note.posted \in Nat /\ replies[i].note.modified \in Nat
        BY <1>1 DEF Got, Note
    <2> QED
        BY <2>1, EventsOfNote
<1>3. ess \in Seq(Seq(TimelineEvent)) /\ DOMAIN ess = DOMAIN replies
    <2>1. \A i \in 1 .. Len(replies) : ess[i] \in Seq(TimelineEvent)
        BY <1>1, <1>2
    <2>2. ess = [i \in 1 .. Len(replies) |-> ess[i]]
        BY <1>1
    <2> HIDE DEF ess
    <2> QED
        BY <1>1, <2>1, <2>2, ListOf
<1>4. \A i \in DOMAIN ess : \A j \in DOMAIN ess[i] :
        /\ ess[i][j].source = replies[i].n /\ ess[i][j].kind # "author_revision"
        /\ ess[i][j].kind = "review" => ess[i][j].at = replies[i].note.posted
        /\ ess[i][j].kind = "review_update" => ess[i][j].at > replies[i].note.posted
        /\ ess[i][j].at \in Nat
    <2> TAKE i \in DOMAIN ess
    <2> TAKE j \in DOMAIN ess[i]
    <2>1. ess[i] = EventsOf(replies[i].note, replies[i].n) /\ i \in DOMAIN replies
        BY <1>3
    <2>2. ess[i] \in Seq(TimelineEvent)
        BY <1>2, <2>1
    <2>3. ess[i][j] \in TimelineEvent
        BY <2>2
    <2> QED
        BY <1>2, <2>1, <2>3 DEF TimelineEvent
<1>5. \A i \in DOMAIN ess : \A j, k \in DOMAIN ess[i] : ess[i][j].kind = ess[i][k].kind => j = k
    BY <1>2, <1>3
<1> HIDE DEF ess
<1>6. notes \in Seq(TimelineEvent)
    BY <1>3, FlatProperties
<1>7. PICK p \in [DOMAIN notes -> PlacesIn(ess)] :
        /\ \A i \in DOMAIN notes : notes[i] = ess[p[i][1]][p[i][2]]
        /\ \A i, j \in DOMAIN notes : i < j => <<p[i], p[j]>> \in Lexical
    BY <1>3, FlatProperties
<1>8. PlacesIn(ess) \in SUBSET Place
    BY <1>3, PlacesInFinite
<1>9. \A k \in DOMAIN notes : /\ p[k] \in Place /\ p[k] = <<p[k][1], p[k][2]>>
                               /\ p[k][1] \in DOMAIN ess /\ p[k][2] \in DOMAIN ess[p[k][1]]
    <2> TAKE k \in DOMAIN notes
    <2>1. p[k] \in PlacesIn(ess)
        OBVIOUS
    <2>2. PICK i \in DOMAIN ess : \E j \in DOMAIN ess[i] : p[k] = <<i, j>>
        BY <2>1, Zenon DEF PlacesIn
    <2> QED
        BY <1>8, <2>1, <2>2
<1> HIDE DEF notes
<1>10. \A k \in DOMAIN notes :
        /\ notes[k].source = replies[p[k][1]].n /\ notes[k].kind # "author_revision"
        /\ notes[k].kind = "review" => notes[k].at = replies[p[k][1]].note.posted
        /\ notes[k].kind = "review_update" => notes[k].at > replies[p[k][1]].note.posted
    BY <1>4, <1>7, <1>9
<1>11. \A k, l \in DOMAIN notes : notes[k].source = notes[l].source => p[k][1] = p[l][1]
    <2> TAKE k, l \in DOMAIN notes
    <2> DEFINE i == p[k][1]
               j == p[l][1]
    <2>1. i \in DOMAIN replies /\ j \in DOMAIN replies
        BY <1>3, <1>9
    <2>2. notes[k].source = replies[i].n /\ notes[l].source = replies[j].n
        BY <1>10
    <2> HIDE DEF i, j
    <2>3. notes[k].source = notes[l].source => i = j
        BY <1>1, <2>1, <2>2
    <2> QED
        BY <2>3 DEF i, j
<1>12. \A k, l \in DOMAIN notes :
         notes[k].source = notes[l].source /\ notes[k].kind = notes[l].kind => k = l
    <2> TAKE k, l \in DOMAIN notes
    <2> HAVE notes[k].source = notes[l].source /\ notes[k].kind = notes[l].kind
    <2>1. p[k][1] = p[l][1]
        BY <1>11
    <2>2. p[k][2] = p[l][2]
        BY <1>5, <1>7, <1>9, <2>1
    <2>3. p[k] = p[l]
        BY <1>9, <2>1, <2>2
    <2>4. <<p[k], p[l]>> \notin Lexical /\ <<p[l], p[k]>> \notin Lexical
        BY <1>9, <2>3 DEF Lexical, Place
    <2>5. k \in Nat /\ l \in Nat
        BY <1>6
    <2>6. ~(k < l) /\ ~(l < k)
        BY <1>7, <2>4, Zenon
    <2> QED
        BY <2>5, <2>6
<1>13. updates \in Seq(TimelineEvent) /\ DOMAIN updates = DOMAIN revisions
       /\ \A e \in DOMAIN revisions : /\ updates[e].kind = "author_revision" /\ updates[e].source = e
                                       /\ updates[e].at = revisions[e] /\ e \in Nat /\ revisions[e] \in Nat
    <2>1. revisions \in Seq(Nat) /\ Len(revisions) \in Nat
        BY DEF InTime
    <2>2. \A e \in DOMAIN revisions : e \in Nat /\ revisions[e] \in Nat
        BY <2>1
    <2>3. \A e \in DOMAIN revisions : Event("author_revision", e, revisions[e]) \in TimelineEvent
        BY <2>2 DEF Event, TimelineEvent, Told
    <2>4. updates \in Seq(TimelineEvent)
        BY <2>1, <2>3
    <2> QED
        BY <2>2, <2>4 DEF Event
<1> HIDE DEF updates
<1>14. /\ events \in Seq(TimelineEvent) /\ m \in Nat
       /\ \A k \in DOMAIN events : k <= m => k \in DOMAIN notes /\ events[k] = notes[k]
       /\ \A k \in DOMAIN events : ~(k <= m) => k - m \in DOMAIN updates /\ events[k] = updates[k - m]
       /\ \A k \in DOMAIN events : k \in Nat
    <2> HIDE DEF events
    <2>1. /\ notes \o updates \in Seq(TimelineEvent) /\ m \in Nat /\ Len(updates) \in Nat
          /\ DOMAIN (notes \o updates) = 1 .. m + Len(updates)
          /\ \A k \in DOMAIN notes : (notes \o updates)[k] = notes[k]
          /\ \A k \in DOMAIN (notes \o updates) : ~(k <= m) =>
                k - m \in DOMAIN updates /\ (notes \o updates)[k] = updates[k - m]
        BY <1>6, <1>13, ConcatParts
    <2>2. DOMAIN notes = 1 .. m
        BY <1>6
    <2>3. \A k \in DOMAIN events : k \in Nat /\ (k <= m => k \in DOMAIN notes)
        BY <2>1, <2>2 DEF events
    <2> QED
        BY <2>1, <2>3 DEF events
<1> HIDE DEF events, m
<1>15. ASSUME NEW k \in DOMAIN events, NEW l \in DOMAIN events
       PROVE  /\ events[k].source = events[l].source /\ events[k].kind = events[l].kind => k = l
              /\ events[k].source = events[l].source /\ events[k].kind = "review" /\ events[l].kind = "review_update"
                   => events[k].at < events[l].at
              /\ events[k].kind = "author_revision" /\ events[l].kind = "author_revision" /\ k < l
                   => events[k].at <= events[l].at /\ events[k].source < events[l].source
    <2>1. CASE k <= m /\ l <= m
        <3>1. /\ k \in DOMAIN notes /\ l \in DOMAIN notes /\ events[k] = notes[k] /\ events[l] = notes[l]
            BY <1>14, <2>1
        <3>2. notes[k].source = notes[l].source /\ notes[k].kind = "review" /\ notes[l].kind = "review_update"
                => notes[k].at < notes[l].at
            BY <1>10, <1>11, <3>1
        <3> QED
            BY <1>10, <1>12, <3>1, <3>2
    <2>2. CASE k <= m /\ ~(l <= m)
        BY <1>10, <1>13, <1>14, <2>2
    <2>3. CASE ~(k <= m) /\ l <= m
        BY <1>10, <1>13, <1>14, <2>3
    <2>4. CASE ~(k <= m) /\ ~(l <= m)
        <3>1. /\ k - m \in DOMAIN revisions /\ l - m \in DOMAIN revisions
              /\ events[k] = updates[k - m] /\ events[l] = updates[l - m] /\ k \in Nat /\ l \in Nat
            BY <1>13, <1>14, <2>4
        <3> DEFINE a == k - m
                   b == l - m
        <3>2. (a = b => k = l) /\ (k < l => a < b)
            BY <1>14, <3>1
        <3> HIDE DEF a, b
        <3>3. /\ a \in DOMAIN revisions /\ b \in DOMAIN revisions /\ events[k] = updates[a] /\ events[l] = updates[b]
            BY <3>1 DEF a, b
        <3>4. a < b => revisions[a] <= revisions[b]
            BY <3>3 DEF InTime
        <3> QED
            BY <1>13, <3>2, <3>3, <3>4
    <2> QED
        BY <2>1, <2>2, <2>3, <2>4
<1>16. Tellable(events)
    BY <1>14, <1>15 DEF Tellable
<1> QED
    BY <1>16 DEF events, notes, ess, updates

(* The forum and what is known of it, for any of its histories.             *)
TimelineInv ==
    /\ clock \in Nat
    /\ forum \in Seq(Note)
    /\ InTime(authorEdits) /\ \A e \in DOMAIN authorEdits : authorEdits[e] <= clock
    /\ Replies(fetched)
    /\ TimelineTellsInOrder

LEMMA TimelineInitInv == TimelineInit => TimelineInv
<1> SUFFICES ASSUME TimelineInit PROVE TimelineInv
    OBVIOUS
<1> USE DEF TimelineInit
<1> DEFINE submission == [kinds |-> {"Submission"}, role |-> "author", posted |-> 1, modified |-> 1]
<1>1. submission \in Note
    BY DEF Note
<1> HIDE DEF submission
<1>2. <<submission>> \in Seq(Note)
    BY <1>1
<1>3. forum \in Seq(Note)
    BY <1>2 DEF submission
<1>4. InTime(<<>>) /\ Replies(<<>>) /\ DOMAIN <<>> = {}
    BY DEF InTime, Replies
<1>5. TimelineTellsInOrder
    BY DEF TimelineTellsInOrder
<1> QED
    BY <1>3, <1>4, <1>5 DEF TimelineInv

LEMMA TimelineNextInv == TimelineInv /\ [TimelineNext]_timelineVars => TimelineInv'
<1> SUFFICES ASSUME TimelineInv, [TimelineNext]_timelineVars PROVE TimelineInv'
    OBVIOUS
<1>1. /\ clock \in Nat /\ forum \in Seq(Note) /\ InTime(authorEdits) /\ Replies(fetched)
      /\ \A e \in DOMAIN authorEdits : authorEdits[e] <= clock
      /\ authorEdits \in Seq(Nat)
    BY DEF TimelineInv, InTime
<1>2. ASSUME UNCHANGED timeline, clock' \in Nat, forum' \in Seq(Note), InTime(authorEdits'),
             \A e \in DOMAIN authorEdits' : authorEdits'[e] <= clock', Replies(fetched')
      PROVE  TimelineInv'
    BY <1>2 DEF TimelineInv, TimelineTellsInOrder, InTime, Replies
<1>3. CASE UNCHANGED timelineVars
    BY <1>1, <1>2, <1>3 DEF timelineVars
<1>4. CASE Tick
    <2>1. clock' = clock + 1 /\ UNCHANGED <<forum, authorEdits, fetched, timeline>>
        BY <1>4 DEF Tick
    <2>2. \A e \in DOMAIN authorEdits : authorEdits[e] \in Nat /\ authorEdits[e] <= clock + 1
        BY <1>1
    <2> QED
        BY <1>1, <1>2, <2>1, <2>2
<1>5. CASE Post
    <2>1. PICK p \in Posting : forum' = Append(forum, [kinds |-> p.kinds, role |-> p.role,
                                                      posted |-> clock, modified |-> clock])
        BY <1>5 DEF Post
    <2> DEFINE note == [kinds |-> p.kinds, role |-> p.role, posted |-> clock, modified |-> clock]
    <2>2. note \in Note
        BY <1>1 DEF Note
    <2>3. UNCHANGED <<clock, authorEdits, fetched, timeline>>
        BY <1>5 DEF Post
    <2> HIDE DEF note
    <2>4. forum' \in Seq(Note)
        <3>1. Append(forum, note) \in Seq(Note)
            BY <1>1, <2>2
        <3> QED
            BY <2>1, <3>1 DEF note
    <2> QED
        BY <1>1, <1>2, <2>3, <2>4
<1>6. CASE \E n \in DOMAIN forum : EditNote(n)
    <2>1. PICK n \in DOMAIN forum : forum' = [forum EXCEPT ![n].modified = clock]
        BY <1>6 DEF EditNote
    <2>2. UNCHANGED <<clock, authorEdits, fetched, timeline>>
        BY <1>6 DEF EditNote
    <2>3. forum' \in Seq(Note)
        <3> DEFINE note == [forum[n] EXCEPT !.modified = clock]
        <3>1. forum[n] \in Note
            BY <1>1
        <3>2. note \in Note
            BY <1>1, <3>1 DEF Note
        <3> HIDE DEF note
        <3>3. [forum EXCEPT ![n] = note] \in Seq(Note)
            BY <1>1, <3>2
        <3> QED
            BY <2>1, <3>3 DEF note
    <2> QED
        BY <1>1, <1>2, <2>2, <2>3
<1>7. CASE AuthorEdits
    <2>1. authorEdits' = Append(authorEdits, clock) /\ UNCHANGED <<clock, forum, fetched, timeline>>
        BY <1>7 DEF AuthorEdits
    <2> DEFINE updates == Append(authorEdits, clock)
    <2>2. /\ updates \in Seq(Nat) /\ Len(updates) = Len(authorEdits) + 1 /\ updates[Len(updates)] = clock
          /\ Len(authorEdits) \in Nat /\ DOMAIN updates = 1 .. Len(updates)
          /\ \A e \in DOMAIN updates : e # Len(updates) => e \in DOMAIN authorEdits /\ updates[e] = authorEdits[e]
        BY <1>1
    <2> HIDE DEF updates
    <2>3. \A e \in DOMAIN updates : updates[e] <= clock
        <3>1. clock \in Nat /\ \A e \in DOMAIN authorEdits : authorEdits[e] <= clock
            BY <1>1
        <3>2. clock <= clock
            BY <3>1
        <3> TAKE e \in DOMAIN updates
        <3>3. CASE e = Len(updates)
            BY ONLY <2>2, <3>2, <3>3
        <3>4. CASE e # Len(updates)
            BY ONLY <2>2, <3>1, <3>4
        <3> QED
            BY <3>3, <3>4
    <2>4. \A i, j \in DOMAIN updates : i < j => updates[i] <= updates[j]
        <3> TAKE i, j \in DOMAIN updates
        <3> HAVE i < j
        <3>1. i # Len(updates) /\ i \in DOMAIN authorEdits /\ updates[i] = authorEdits[i]
            BY <2>2
        <3>2. CASE j = Len(updates)
            BY <2>2, <2>3, <3>2
        <3>3. CASE j # Len(updates)
            BY <1>1, <2>2, <3>1, <3>3 DEF InTime
        <3> QED
            BY <3>2, <3>3
    <2> QED
        BY <1>1, <1>2, <2>1, <2>2, <2>3, <2>4 DEF InTime, updates
<1>8. CASE GetForumReplies
    <2>1. PICK order \in SetToSeqs(DOMAIN forum) :
            fetched' = [i \in DOMAIN order |-> [note |-> forum[order[i]], n |-> order[i]]]
        BY <1>8 DEF GetForumReplies
    <2>2. UNCHANGED <<clock, forum, authorEdits, timeline>>
        BY <1>8 DEF GetForumReplies
    <2> DEFINE c == Cardinality(DOMAIN forum)
    <2>3. DOMAIN forum = 1 .. Len(forum) /\ Len(forum) \in Nat /\ c = Len(forum)
        <3>1. DOMAIN forum = 1 .. Len(forum) /\ Len(forum) \in Nat
            BY <1>1
        <3> DEFINE k == Len(forum)
        <3> HIDE DEF k
        <3>2. k \in Nat
            BY <3>1 DEF k
        <3>3. Cardinality(1 .. k) = k
            BY <3>2, FS_Interval
        <3> QED
            BY <3>1, <3>3 DEF k
    <2> HIDE DEF c
    <2>4. order \in [1 .. c -> DOMAIN forum] /\ \A i, j \in 1 .. c : i # j => order[i] # order[j]
        BY DEF SetToSeqs, c
    <2>5. \A i \in 1 .. c : [note |-> forum[order[i]], n |-> order[i]] \in Got
        <3> TAKE i \in 1 .. c
        <3>1. order[i] \in DOMAIN forum
            BY <2>4
        <3>2. order[i] \in Nat /\ forum[order[i]] \in Note
            BY <1>1, <3>1
        <3> QED
            BY <3>2 DEF Got
    <2>6. /\ fetched' \in Seq(Got) /\ DOMAIN fetched' = 1 .. c
          /\ \A i \in 1 .. c : fetched'[i].n = order[i]
        BY <2>1, <2>3, <2>4, <2>5
    <2>7. Replies(fetched')
        BY <2>4, <2>6 DEF Replies
    <2> QED
        BY <1>1, <1>2, <2>2, <2>7
<1>9. CASE GetNoteEdits
    <2>1. /\ timeline' = BuildTimeline(fetched, authorEdits) /\ fetched' = <<>>
          /\ UNCHANGED <<clock, forum, authorEdits>>
        BY <1>9 DEF GetNoteEdits
    <2>2. TellsInOrder(BuildTimeline(fetched, authorEdits))
        BY <1>1, MergeTellable, OrderedTells DEF BuildTimeline
    <2>3. TimelineTellsInOrder'
        BY <2>1, <2>2 DEF TellsInOrder, TimelineTellsInOrder
    <2>4. Replies(<<>>)
        BY DEF Replies
    <2>5. Replies(fetched')
        BY <2>1, <2>4
    <2>6. Replies(fetched)'
        BY <2>5 DEF Replies
    <2>7. InTime(authorEdits)' /\ \A e \in DOMAIN authorEdits' : authorEdits'[e] <= clock'
        BY <1>1, <2>1 DEF InTime
    <2> QED
        BY <1>1, <2>1, <2>3, <2>6, <2>7 DEF TimelineInv
<1> QED
    BY <1>3, <1>4, <1>5, <1>6, <1>7, <1>8, <1>9 DEF TimelineNext

(* However the API lists the notes and whatever happens between the two     *)
(* reads, the timeline never tells an effect before its cause, with any     *)
(* number of notes and edits in any number of milliseconds.                 *)
THEOREM TimelineInOrder == TimelineSpec => []TimelineTellsInOrder
<1>1. TimelineInv => TimelineTellsInOrder
    BY DEF TimelineInv
<1> QED
    BY <1>1, TimelineInitInv, TimelineNextInv, PTL DEF TimelineSpec

-----------------------------------------------------------------------------
(* Retrieval: the requirement of the ranking is arithmetic over what the    *)
(* two searches may return.                                                 *)

LEMMA DivBounds ==
    ASSUME NEW x \in Int, NEW n \in Int, n > 0
    PROVE  x \div n \in Int /\ n * (x \div n) <= x /\ x < n * (x \div n) + n
OBVIOUS

LEMMA DivMonotone ==
    ASSUME NEW x \in Int, NEW y \in Int, x <= y, NEW n \in Int, n > 0
    PROVE  x \div n <= y \div n
<1> DEFINE a == x \div n
           b == y \div n
<1>1. a \in Int /\ b \in Int /\ n * a < n * b + n
    BY DivBounds
<1> HIDE DEF a, b
<1> SUFFICES ASSUME b < a
             PROVE  FALSE
    BY <1>1 DEF a, b
<1>2. n * (b + 1) <= n * a
    BY <1>1
<1> QED
    BY <1>1, <1>2

(* The greater the rank, the smaller the share.                             *)
LEMMA DivAntitone ==
    ASSUME NEW x \in Nat, NEW m \in Int, NEW n \in Int, m > 0, m <= n
    PROVE  x \div n <= x \div m /\ x \div n \in Nat
<1> DEFINE a == x \div n
           b == x \div m
<1>1. a \in Int /\ b \in Int /\ n * a <= x /\ x < n * a + n /\ x < m * b + m
    BY DivBounds
<1> HIDE DEF a, b
<1>2. a >= 0
  <2> SUFFICES ASSUME a + 1 <= 0
               PROVE  FALSE
      BY <1>1
  <2>1. n * (a + 1) <= 0
      BY <1>1
  <2> QED
      BY <1>1, <2>1
<1>3. a <= b
  <2> SUFFICES ASSUME b + 1 <= a
               PROVE  FALSE
      BY <1>1
  <2>1. m * (b + 1) <= m * a
      BY <1>1
  <2>2. m * a <= n * a
      BY <1>1, <1>2
  <2> QED
      BY <1>1, <2>1, <2>2
<1> QED
    BY <1>1, <1>2, <1>3 DEF a, b

(* Two lists of papers of a corpus, each no longer than the pool.           *)
SearchInv ==
    /\ gone \in SUBSET Doc /\ corpus \in Corpus
    /\ vectors \in Seq(Doc) /\ Len(vectors) <= CANDIDATE_POOL
    /\ texts \in Seq(Doc) /\ Len(texts) <= CANDIDATE_POOL

(* The last place of one search is worth a seventh of the first in both.    *)
LEMMA LastPlace ==
    /\ Inverse1000(CANDIDATE_POOL) \in Nat /\ MaxRrf \in Nat /\ MaxRrf > 0
    /\ 140 * MaxRrf <= 1000 * Inverse1000(CANDIDATE_POOL)
    /\ \A r \in 1 .. CANDIDATE_POOL :
         Inverse1000(r) \in Nat /\ Inverse1000(CANDIDATE_POOL) <= Inverse1000(r)
<1> USE RetrievalConstants DEF RetrievalConstants
<1> DEFINE first == RRF_K + 1
           last == RRF_K + CANDIDATE_POOL
           q == 1000000 \div last
           m == 1000000 \div first
<1>1. /\ first \in Int /\ last \in Int /\ 0 < first /\ first <= last /\ last <= 3 * first
      /\ last <= 1000
    OBVIOUS
<1> HIDE DEF first, last
<1>2. /\ q \in Int /\ last * q <= 1000000 /\ 1000000 < last * q + last
      /\ m \in Int /\ first * m <= 1000000 /\ 1000000 < first * m + first
    BY <1>1, DivBounds
<1>3. Inverse1000(CANDIDATE_POOL) = q /\ MaxRrf = 2 * m
    BY DEF Inverse1000, MaxRrf, first, last
<1>4. q \in Nat
    BY <1>1, DivAntitone
<1> HIDE DEF q, m
<1>5. m > 0
  <2> SUFFICES ASSUME m <= 0
               PROVE  FALSE
      BY <1>2
  <2>1. first * m <= 0
      BY <1>1, <1>2
  <2> QED
      BY <1>1, <1>2, <2>1
<1>6. 280 * m <= 1000 * q
  <2>1. last * q <= 3 * first * q
      BY <1>1, <1>4
  <2>2. 333000 <= first * q
      BY <1>1, <1>2, <1>4, <2>1
  <2> SUFFICES ASSUME 1000 * q + 1 <= 280 * m
               PROVE  FALSE
      BY <1>2, <1>4
  <2>3. first * (1000 * q + 1) <= first * (280 * m)
      BY <1>1, <1>2, <1>4
  <2>4. first * (280 * m) = 280 * (first * m) /\ first * (1000 * q + 1) = 1000 * (first * q) + first
      BY <1>1, <1>2, <1>4
  <2> QED
      BY <1>1, <1>2, <1>4, <2>2, <2>3, <2>4
<1>7. ASSUME NEW r \in 1 .. CANDIDATE_POOL
      PROVE  Inverse1000(r) \in Nat /\ Inverse1000(CANDIDATE_POOL) <= Inverse1000(r)
  <2>1. RRF_K + r \in Int /\ 0 < RRF_K + r /\ RRF_K + r <= last /\ RRF_K + r <= RRF_K + r
      BY DEF last
  <2> QED
      BY <2>1, <1>1, DivAntitone DEF Inverse1000, last
<1> QED
    BY <1>3, <1>4, <1>5, <1>6, <1>7, <1>2

(* Every candidate is a paper, and in a place of one of the searches.       *)
LEMMA CandidatesAreHits ==
    ASSUME SearchInv, NEW d \in Range(Candidates)
    PROVE  d \in Doc /\ (Contains(vectors, d) \/ Contains(texts, d))
<1> DEFINE K == {i \in DOMAIN texts : ~Contains(vectors, texts[i])}
           more == Kept(texts, K)
<1>0. K \in SUBSET DOMAIN texts /\ texts \in Seq(Doc)
    BY DEF SearchInv
<1>2. Candidates = vectors \o more
    BY DEF Candidates
<1> HIDE DEF K
<1>1. more \in Seq(Doc) /\ \A i \in DOMAIN more : \E k \in K : more[i] = texts[k]
    BY ONLY <1>0, KeptElements
<1> HIDE DEF more
<1>3. PICK i \in DOMAIN (vectors \o more) : d = (vectors \o more)[i]
    BY <1>2 DEF Range
<1>4. CASE i <= Len(vectors)
  <2>1. i \in DOMAIN vectors /\ i \in 1 .. Len(vectors) /\ d = vectors[i]
      BY <1>1, <1>3, <1>4, ConcatParts DEF SearchInv
  <2> QED
      BY <2>1 DEF Contains, SearchInv
<1>5. CASE ~(i <= Len(vectors))
  <2>1. i - Len(vectors) \in DOMAIN more /\ d = more[i - Len(vectors)]
      BY <1>1, <1>3, <1>5, ConcatParts DEF SearchInv
  <2>2. PICK k \in K : d = texts[k]
      BY <1>1, <2>1
  <2>3. k \in 1 .. Len(texts)
      BY DEF K, SearchInv
  <2> QED
      BY <2>2, <2>3 DEF Contains, SearchInv
<1> QED
    BY <1>4, <1>5

LEMMA RankOfHit ==
    ASSUME NEW hits \in Seq(Doc), Len(hits) <= CANDIDATE_POOL, NEW d, Contains(hits, d)
    PROVE  RankIn(hits, d) \in 1 .. CANDIDATE_POOL
<1>1. RankIn(hits, d) \in DOMAIN hits
    BY DEF RankIn, Contains
<1> QED
    BY <1>1, RetrievalConstants DEF RetrievalConstants

(* In thousandths, before the weights. *)
Similarity(d) == SmallerOf((RrfFuse(d) * 1000) \div MaxRrf, 1000)

LEMMA SimilarityRange ==
    ASSUME SearchInv, NEW d \in Range(Candidates)
    PROVE  /\ RrfFuse(d) \in Nat
           /\ Similarity(d) \in 140 .. 1000
<1>1. Contains(vectors, d) \/ Contains(texts, d)
    BY CandidatesAreHits
<1>2. /\ Contains(vectors, d) => RankIn(vectors, d) \in 1 .. CANDIDATE_POOL
      /\ Contains(texts, d) => RankIn(texts, d) \in 1 .. CANDIDATE_POOL
    BY RankOfHit DEF SearchInv
<1>3. RrfFuse(d) \in Nat /\ Inverse1000(CANDIDATE_POOL) <= RrfFuse(d)
    BY <1>1, <1>2, LastPlace DEF RrfFuse
<1> DEFINE s == (RrfFuse(d) * 1000) \div MaxRrf
<1>4. s \in Int /\ RrfFuse(d) * 1000 < MaxRrf * s + MaxRrf
    BY <1>3, LastPlace, DivBounds
<1> HIDE DEF s
<1>5. 140 <= s
  <2> SUFFICES ASSUME s + 1 <= 140
               PROVE  FALSE
      BY <1>4
  <2>1. MaxRrf * (s + 1) <= MaxRrf * 140
      BY <1>4, LastPlace
  <2> QED
      BY <1>3, <1>4, <2>1, LastPlace
<1> QED
    BY <1>3, <1>4, <1>5 DEF Similarity, SmallerOf, s

(* What is fused higher is at least as similar.                             *)
LEMMA SimilarityGrows ==
    ASSUME SearchInv, NEW c \in Range(Candidates), NEW d \in Range(Candidates), RrfFuse(d) <= RrfFuse(c)
    PROVE  Similarity(d) <= Similarity(c)
<1>1. RrfFuse(c) \in Nat /\ RrfFuse(d) \in Nat
    BY SimilarityRange
<1>2. RrfFuse(c) * 1000 \in Int /\ RrfFuse(d) * 1000 \in Int /\ RrfFuse(d) * 1000 <= RrfFuse(c) * 1000
    BY <1>1
<1> DEFINE x == (RrfFuse(d) * 1000) \div MaxRrf
           y == (RrfFuse(c) * 1000) \div MaxRrf
<1>3. x \in Int /\ y \in Int /\ x <= y
    BY <1>2, LastPlace, DivMonotone, DivBounds
<1> HIDE DEF x, y
<1> QED
    BY <1>3 DEF Similarity, SmallerOf, x, y

LEMMA GreatestYear ==
    ASSUME SearchInv, NEW d \in Doc \ gone
    PROVE  /\ \E e \in Doc \ gone : MaxYear = corpus[e].year
           /\ MaxYear \in Int /\ corpus[d].year <= MaxYear
<1> DEFINE years == {corpus[e].year : e \in Doc \ gone}
           From(y) == {z \in years : z >= y}
<1>1. years \in SUBSET Int /\ corpus[d].year \in years
    BY RetrievalConstants DEF SearchInv, RetrievalConstants
<1>2. IsFiniteSet(years)
  <2> DEFINE f == [e \in Doc \ gone |-> corpus[e].year]
  <2>1. IsFiniteSet(Doc \ gone)
      BY FS_Difference, RetrievalConstants DEF RetrievalConstants
  <2>2. f \in Surjection(Doc \ gone, years)
      BY DEF Surjection
  <2> QED
      BY <2>1, <2>2, FS_Surjection
<1>3. MaxYear = CHOOSE y \in years : \A z \in years : z <= y
    BY <1>1 DEF MaxYear
<1> HIDE DEF years
<1>4. \E y \in years : \A z \in years : z <= y
  <2> DEFINE T == {From(y) : y \in years}
  <2>1. T \in SUBSET SUBSET years /\ T # {}
      BY <1>1
  <2>2. \A t \in T : \E y \in years : t = From(y)
      OBVIOUS
  <2>4. \A y \in years : From(y) \in T
      OBVIOUS
  <2> HIDE DEF T
  <2>5. PICK m \in T : \A t \in T : t \subseteq m => t = m
      BY ONLY <2>1, <1>2, SmallestSet
  <2>6. PICK y \in years : m = From(y)
      BY <2>2, <2>5
  <2>3. ASSUME NEW z \in years, ~(z <= y)
        PROVE  FALSE
    <3>4. z \in Int /\ y \in Int /\ y < z /\ \A x \in years : x \in Int
        BY <2>3, <1>1
    <3>5. ASSUME NEW x \in From(z)
          PROVE  x \in From(y)
      <4>1. x \in years /\ x >= z /\ x \in Int
          BY <3>4, <3>5
      <4> QED
          BY <4>1, <3>4
    <3>1. From(z) \subseteq From(y)
        BY <3>5
    <3>2. From(z) = From(y)
        BY <3>1, <2>4, <2>5, <2>6
    <3>3. y \in From(y) /\ y \notin From(z)
        BY <3>4
    <3> QED
        BY <3>2, <3>3
  <2> QED
      BY <2>3
<1>5. MaxYear \in years /\ \A z \in years : z <= MaxYear
    BY <1>3, <1>4
<1> QED
    BY <1>1, <1>5 DEF years

LEMMA RecencyRange ==
    ASSUME SearchInv, gone = {}, NEW d \in Doc, NEW h \in 2 .. 4
    PROVE  LET r == RecencyScore(YearOf(d), MaxYear, h)
           IN /\ r \in 0 .. 1000
              /\ corpus[d].year = MaxYear => r = 1000
              /\ corpus[d].year <= MaxYear - 5 => r <= 421 /\ (h = 3 => r <= 315)
<1>0. Halves(h)
    BY RetrievalConstants DEF RetrievalConstants
<1>1. PICK e \in Doc : MaxYear = corpus[e].year
    BY GreatestYear
<1>2. corpus[d].year \in Int /\ MaxYear \in Int /\ corpus[d].year <= MaxYear
    BY GreatestYear, RetrievalConstants DEF SearchInv, RetrievalConstants
<1>3. YearOf(d) = corpus[d].year
    BY DEF YearOf, There
<1> DEFINE a == MaxYear - corpus[d].year
<1>4. LargerOf(a, 0) = a /\ a \in Nat
    BY <1>2 DEF LargerOf
<1>5. corpus[e].year - corpus[d].year \in DOMAIN Decay[h]
    BY <1>0, <1>1, <1>2 DEF SearchInv, Halves
<1>6. RecencyScore(YearOf(d), MaxYear, h) = Decay[h][a] /\ a \in DOMAIN Decay[h]
    BY <1>1, <1>3, <1>4, <1>5 DEF RecencyScore
<1>8. a = MaxYear - corpus[d].year
    OBVIOUS
<1> HIDE DEF a
<1>7. /\ Decay[h][a] \in 0 .. 1000 /\ (a = 0 => Decay[h][a] = 1000)
      /\ a >= 5 => Decay[h][a] <= 421 /\ (h = 3 => Decay[h][a] <= 315)
    BY <1>0, <1>6 DEF Halves
<1> DEFINE s == Decay[h][a]
<1>9. s = RecencyScore(YearOf(d), MaxYear, h)
    BY <1>6
<1>10. /\ s \in 0 .. 1000 /\ (a = 0 => s = 1000)
       /\ a >= 5 => s <= 421 /\ (h = 3 => s <= 315)
    BY <1>7
<1> HIDE DEF s
<1> QED
    BY <1>2, <1>8, <1>9, <1>10

(* Whichever the preset: five years weigh more than all the similarity      *)
(* there may be between two candidates, by a hundredth of a point at least. *)
LEMMA NewestRanked ==
    ASSUME SearchInv, gone = {}
    PROVE  /\ \A c \in Range(Candidates) : Final(c) \in Int
           /\ NewestBeatsNearest
<1>0. \A d \in Range(Candidates) : d \in Doc /\ CitationOf(d) \in 0 .. 100
  <2> TAKE d \in Range(Candidates)
  <2>1. d \in Doc
      BY CandidatesAreHits
  <2>2. corpus[d].percentile \in -1 .. 100
      BY <2>1, RetrievalConstants DEF SearchInv, RetrievalConstants
  <2> QED
      BY <2>1, <2>2 DEF CitationOf, There, NoPercentile, NEUTRAL_CITATION_PERCENTILE
<1> DEFINE w == RankingWeights(bias)
           Recency(d) == RecencyScore(YearOf(d), MaxYear, w.halfLife)
           sum(d) == w.similarity * Similarity(d) + w.recency * Recency(d) + w.citation * 10 * CitationOf(d)
<1>1. /\ w.halfLife \in 2 .. 4 /\ w.similarity \in Nat /\ w.recency \in Nat /\ w.citation \in Nat
      /\ \/ w.similarity = 30 /\ w.recency = 50
         \/ w.similarity = 30 /\ w.recency = 45
         \/ w.similarity = 35 /\ w.recency = 45 /\ w.halfLife = 3
  <2>1. CASE bias = "recent"
      BY <2>1 DEF RankingWeights, Weights, BalancedWeights
  <2>2. CASE bias = "cited"
      BY <2>2 DEF RankingWeights, Weights, BalancedWeights
  <2>3. CASE bias \notin {"recent", "cited"}
      BY <2>3 DEF RankingWeights, Weights, BalancedWeights
  <2> QED
      BY <2>1, <2>2, <2>3
<1>2. \A d : Final(d) = sum(d) \div 100
    BY DEF Final, WeightedScore, Similarity
<1>3. \A d \in Range(Candidates) : Similarity(d) \in 140 .. 1000
    BY SimilarityRange
<1>4. \A d \in Range(Candidates) :
        /\ Recency(d) \in 0 .. 1000
        /\ corpus[d].year = MaxYear => Recency(d) = 1000
        /\ corpus[d].year <= MaxYear - 5 => Recency(d) <= 421 /\ (w.halfLife = 3 => Recency(d) <= 315)
    BY <1>0, <1>1, RecencyRange
<1> HIDE DEF w, Recency
<1>5. \A d \in Range(Candidates) : sum(d) \in Int
  <2> TAKE d \in Range(Candidates)
  <2>1. Similarity(d) \in Int /\ Recency(d) \in Int /\ CitationOf(d) \in Int
      BY <1>0, <1>3, <1>4
  <2> QED
      BY <1>1, <2>1
<1>6. ASSUME NEW c \in Range(Candidates), NEW d \in Range(Candidates), CitationOf(c) = CitationOf(d),
             corpus[c].year = MaxYear, corpus[d].year <= MaxYear - 5
      PROVE  Before(c, d)
  <2>1. /\ Similarity(c) \in 140 .. 1000 /\ Similarity(d) \in 140 .. 1000
        /\ CitationOf(c) \in 0 .. 100 /\ Recency(c) = 1000
        /\ Recency(d) \in 0 .. 421 /\ (w.halfLife = 3 => Recency(d) <= 315)
    <3>1. Similarity(c) \in 140 .. 1000 /\ Similarity(d) \in 140 .. 1000
        BY <1>3
    <3>2. CitationOf(c) \in 0 .. 100
        BY <1>0
    <3>3. Recency(c) = 1000
        BY <1>4, <1>6
    <3>4. Recency(d) \in 0 .. 1000 /\ Recency(d) <= 421 /\ (w.halfLife = 3 => Recency(d) <= 315)
        BY <1>4, <1>6
    <3> QED
        BY <3>1, <3>2, <3>3, <3>4
  <2>2. w.citation * 10 * CitationOf(c) \in Int
      BY <1>0, <1>1
  <2>3. sum(d) + 100 <= sum(c)
    <3> DEFINE near == Similarity(d)
               far == Similarity(c)
               old == Recency(d)
               cited == w.citation * 10 * CitationOf(c)
               s == w.similarity
               r == w.recency
    <3>1. /\ near \in 140 .. 1000 /\ far \in 140 .. 1000 /\ old \in 0 .. 421 /\ cited \in Int
          /\ s \in Int /\ r \in Int
          /\ \/ s = 30 /\ r = 50
             \/ s = 30 /\ r = 45
             \/ s = 35 /\ r = 45 /\ old <= 315
        BY <1>1, <2>1, <2>2
    <3>2. sum(d) = s * near + r * old + cited /\ sum(c) = s * far + r * 1000 + cited
        BY <2>1, <1>6
    <3> HIDE DEF near, far, old, cited, s, r, sum
    <3>3. s * near + r * old + cited + 100 <= s * far + r * 1000 + cited
      <4>1. CASE s = 30 /\ r = 50
          BY ONLY <3>1, <4>1
      <4>2. CASE s = 30 /\ r = 45
          BY ONLY <3>1, <4>2
      <4>3. CASE s = 35 /\ r = 45 /\ old <= 315
          BY ONLY <3>1, <4>3
      <4> QED
          BY <3>1, <4>1, <4>2, <4>3
    <3> QED
        BY <3>2, <3>3
  <2>4. sum(c) \in Int /\ sum(d) \in Int
      BY <1>5
  <2> HIDE DEF sum
  <2>5. sum(d) \div 100 < sum(c) \div 100
      BY <2>3, <2>4
  <2> QED
      BY <1>2, <2>5 DEF Before
<1>7. ASSUME NEW c \in Range(Candidates), NEW d \in Range(Candidates), CitationOf(c) = CitationOf(d),
             corpus[c].year = corpus[d].year, RrfFuse(c) > RrfFuse(d)
      PROVE  Final(c) >= Final(d)
  <2>1. Similarity(d) <= Similarity(c) /\ Similarity(c) \in Int /\ Similarity(d) \in Int
      BY <1>3, <1>7, SimilarityGrows, SimilarityRange
  <2>2. Recency(c) = Recency(d)
      BY <1>0, <1>7 DEF YearOf, There, Recency
  <2>3. /\ w.citation * 10 * CitationOf(c) \in Int /\ w.recency * Recency(c) \in Int
        /\ w.similarity \in Nat
    <3>1. CitationOf(c) \in Int /\ Recency(c) \in Int
        BY <1>0, <1>4
    <3> QED
        BY <1>1, <3>1
  <2> DEFINE x == Similarity(d)
             y == Similarity(c)
             n == w.similarity
  <2>4. n * x <= n * y
    <3>1. x \in Int /\ y \in Int /\ x <= y /\ n \in Nat
        BY <2>1, <2>3
    <3> HIDE DEF x, y, n
    <3> QED
        BY <3>1
  <2>5. sum(d) <= sum(c) /\ sum(c) \in Int /\ sum(d) \in Int
    <3>1. w.similarity * Similarity(d) \in Int /\ w.similarity * Similarity(c) \in Int
        BY <2>1, <2>3
    <3> QED
        BY <2>2, <2>3, <2>4, <1>5, <1>7, <3>1
  <2> HIDE DEF sum
  <2> QED
      BY <1>2, <2>5, DivMonotone, DivBounds
<1>8. \A c \in Range(Candidates) : Final(c) \in Int
    BY <1>2, <1>5
<1> QED
    BY <1>6, <1>7, <1>8 DEF NewestBeatsNearest

LEMMA AnswerProperties ==
    ASSUME NEW hits \in Seq(Doc), NEW limit \in Nat
    PROVE  Answer(hits, limit) \in Seq(Doc) /\ Len(Answer(hits, limit)) <= limit
<1> DEFINE K == {i \in DOMAIN hits : There(hits[i]) /\ HasReviews(hits[i])}
           shown == Kept(hits, K)
           n == SmallerOf(limit, Len(shown))
<1>1. K \in SUBSET DOMAIN hits
    OBVIOUS
<1>2. Answer(hits, limit) = SubSeq(shown, 1, n)
    BY DEF Answer
<1> HIDE DEF K
<1>3. shown \in Seq(Doc)
    BY ONLY <1>1, KeptElements, hits \in Seq(Doc)
<1> HIDE DEF shown
<1>4. n \in Nat /\ n <= limit /\ n <= Len(shown)
    BY <1>3 DEF SmallerOf
<1> QED
    BY <1>2, <1>3, <1>4

LEMMA SearchInvariance == SearchInv /\ [RetrievalNext]_retrievalVars => SearchInv'
<1> SUFFICES ASSUME SearchInv, [RetrievalNext]_retrievalVars
             PROVE  SearchInv'
    OBVIOUS
<1> USE DEF SearchInv
<1>1. CASE SearchVectors
  <2>1. PICK hits \in VectorHits : vectors' = VectorSearch(hits, CANDIDATE_POOL)
      BY <1>1 DEF SearchVectors
  <2> DEFINE limit == SmallerOf(CANDIDATE_POOL, EfSearchFor(CANDIDATE_POOL))
  <2>2. hits \in Seq(Doc) /\ limit \in Nat /\ limit <= CANDIDATE_POOL
      BY RetrievalConstants DEF RetrievalConstants, SmallerOf, EfSearchFor, LargerOf
  <2>3. vectors' = Answer(hits, limit)
      BY <2>1 DEF VectorSearch
  <2> HIDE DEF limit
  <2>4. vectors' \in Seq(Doc) /\ Len(vectors') <= limit
      BY <2>2, <2>3, AnswerProperties
  <2>5. Len(vectors') <= CANDIDATE_POOL
      BY <2>2, <2>4, RetrievalConstants DEF RetrievalConstants
  <2> QED
      BY <1>1, <2>4, <2>5 DEF SearchVectors
<1>2. CASE SearchText
  <2>1. PICK hits \in TextHits : texts' = Answer(hits, CANDIDATE_POOL)
      BY <1>2 DEF SearchText
  <2>2. hits \in Seq(Doc) /\ CANDIDATE_POOL \in Nat
      BY RetrievalConstants DEF RetrievalConstants
  <2>3. texts' \in Seq(Doc) /\ Len(texts') <= CANDIDATE_POOL
      BY <2>1, <2>2, AnswerProperties
  <2> QED
      BY <1>2, <2>3 DEF SearchText
<1>3. CASE Rank
    BY <1>3 DEF Rank
<1>4. CASE FetchMetadata
    BY <1>4 DEF FetchMetadata
<1>5. CASE Vanish
    BY <1>5 DEF Vanish
<1>6. CASE UNCHANGED retrievalVars
    BY <1>6 DEF retrievalVars
<1> QED
    BY <1>1, <1>2, <1>3, <1>4, <1>5, <1>6 DEF RetrievalNext

(* In every search, whatever the two rankings, the preference and the       *)
(* corpus, and with a pool as large as the code's: the newest of two papers *)
(* equally cited comes before one five years older, and the nearer of two   *)
(* of a year is never scored below the other (hybrid_search.py, rerank).    *)
THEOREM NewestBeforeNearest == RetrievalSpec => []NewestBeatsNearest
<1>1. RetrievalInit => SearchInv
    BY RetrievalConstants DEF RetrievalInit, SearchInv, RetrievalConstants
<1>2. SearchInv => NewestBeatsNearest
    BY NewestRanked DEF NewestBeatsNearest
<1> QED
    BY <1>1, <1>2, SearchInvariance, PTL DEF RetrievalSpec

-----------------------------------------------------------------------------
(* Revisions: what a file's links say of the edits.                         *)

Value == {None, Unknown, Deleted} \cup UNION {{p[f] : f \in DOMAIN p} : p \in Patch}
Link == Nat
Edit == [patch : Patch, suffix : Suffix]
Change ==
    [field : {"pdf"}, before : Value, after : Value, beforeUrl : Link, afterUrl : Link]
        \cup [field : {"title", "body"}, before : Value, after : Value]
Kind == {Classify(s) : s \in Suffix}
Revision == [kind : Kind, baseline : BOOLEAN, changes : Seq(Change)]
Stage == {"new", "edits", "pdfs", "store", "done", "failed"}
Payload == [supported : BOOLEAN, revisions : Seq(Revision)]
Call == [at : Stage, answer : Payload, count : Int]

(* The edit u is the one that brought the file. *)
Carries(es, u, version) ==
    u \in DOMAIN es /\ u # None /\ "pdf" \in DOMAIN es[u].patch /\ es[u].patch["pdf"] = version

FilesIn(revisions, r) == {i \in DOMAIN revisions[r].changes : revisions[r].changes[i].field = "pdf"}

ServedBy(es, c) ==
    /\ IF c.before = None THEN c.beforeUrl = None ELSE Carries(es, c.beforeUrl, c.before)
    /\ IF c.after = None THEN c.afterUrl = None ELSE Carries(es, c.afterUrl, c.after)

(* A revision replaces the file once at most; its links serve; it finds the *)
(* file that the last replacement before it left; and body diffs are of the *)
(* files they stand next to.                                                *)
Linked(revisions, es) ==
    /\ \A r \in DOMAIN revisions : \A i, j \in FilesIn(revisions, r) : i = j
    /\ \A r \in DOMAIN revisions : \A i \in FilesIn(revisions, r) : ServedBy(es, revisions[r].changes[i])
    /\ \A q, r \in DOMAIN revisions : \A i \in FilesIn(revisions, q), j \in FilesIn(revisions, r) :
         q < r /\ (\A m \in DOMAIN revisions : q < m /\ m < r => FilesIn(revisions, m) = {})
           => revisions[r].changes[j].before = revisions[q].changes[i].after
    /\ BodiesOfFiles(revisions)

(* The state of the loop after some edits: the file at hand, the edit that  *)
(* carried it, and the replacements told.                                   *)
Folding(es, st) ==
    /\ st \in [val : [{"title", "pdf"} -> Value], src : Link, out : Seq(Revision)]
    /\ NullAs(st.val["pdf"]) # None => Carries(es, st.src, st.val["pdf"])
    /\ Linked(st.out, es)
    /\ \A r \in DOMAIN st.out : \A i \in FilesIn(st.out, r) :
         (\A m \in DOMAIN st.out : r < m => FilesIn(st.out, m) = {})
           => st.out[r].changes[i].after = NullAs(st.val["pdf"]) /\ st.val["pdf"] # Unknown

RevisionsInv ==
    /\ edits \in Seq(Edit)
    /\ reading \in [Reader -> Call]
    /\ bodyCache \in SUBSET [payload : Payload, fresh : BOOLEAN]
    /\ \A a \in Answers : Linked(a.revisions, edits)

LEMMA HistoryUnfold ==
    ASSUME NEW es \in Seq(Edit)
    PROVE  /\ History(es)[0] = NothingYet
           /\ \A n \in 1 .. Len(es) : History(es)[n] = Apply(History(es)[n - 1], es[n])
<1> DEFINE Solves(h, n) == h = [k \in 0 .. n |-> IF k = 0 THEN NothingYet ELSE Apply(h[k - 1], es[k])]
           bad == {n \in Nat : \A h : ~Solves(h, n)}
<1>1. bad = {}
  <2> SUFFICES ASSUME bad # {}
               PROVE  FALSE
      OBVIOUS
  <2>1. PICK m \in bad : \A n \in bad : m <= n
    <3>1. bad \in SUBSET Nat
        OBVIOUS
    <3> HIDE DEF bad
    <3> QED
        BY <3>1, LeastNatural
  <2>2. CASE m = 0
    <3> DEFINE h == [k \in 0 .. 0 |-> NothingYet]
    <3>1. Solves(h, 0)
        OBVIOUS
    <3> HIDE DEF h
    <3>2. 0 \notin bad
        BY <3>1
    <3> HIDE DEF bad
    <3> QED
        BY <2>1, <2>2, <3>2
  <2>3. CASE m > 0
    <3>1. m \in Nat /\ m - 1 \in Nat /\ m - 1 \notin bad
      <4>1. m \in Nat /\ m - 1 \in Nat /\ ~(m <= m - 1)
          BY <2>3
      <4> HIDE DEF bad
      <4> QED
          BY <2>1, <4>1
    <3>2. PICK g : Solves(g, m - 1)
        BY <3>1
    <3> DEFINE h == [k \in 0 .. m |-> IF k < m THEN g[k] ELSE Apply(g[m - 1], es[m])]
    <3>3. \A k \in 0 .. m - 1 : g[k] = IF k = 0 THEN NothingYet ELSE Apply(g[k - 1], es[k])
        BY <3>2
    <3>4. ASSUME NEW k \in 0 .. m
          PROVE  h[k] = IF k = 0 THEN NothingYet ELSE Apply(h[k - 1], es[k])
      <4>1. CASE k < m
        <5>1. k \in 0 .. m - 1 /\ h[k] = g[k] /\ (k # 0 => k - 1 \in 0 .. m /\ h[k - 1] = g[k - 1])
            BY <3>1, <4>1
        <5> QED
            BY <5>1, <3>3
      <4>2. CASE ~(k < m)
        <5>1. k = m /\ k # 0 /\ m - 1 \in 0 .. m /\ m - 1 < m
            BY <3>1, <2>3, <4>2
        <5>2. h[k] = Apply(g[m - 1], es[m]) /\ h[m - 1] = g[m - 1]
            BY <5>1
        <5> QED
            BY <5>1, <5>2
      <4> QED
          BY <4>1, <4>2
    <3>5. Solves(h, m)
        BY <3>4
    <3> QED
        BY <2>1, <3>5
  <2> QED
      BY <2>1, <2>2, <2>3
<1>2. Len(es) \in Nat
    OBVIOUS
<1>3. \E h : Solves(h, Len(es))
    BY <1>1, <1>2
<1>4. History(es) = CHOOSE h : Solves(h, Len(es))
    BY DEF History
<1>5. Solves(History(es), Len(es))
    BY <1>3, <1>4
<1> QED
    BY <1>2, <1>5

DiffFits(d, was, is, prevSrc, curSrc) ==
    LET pdfs == {i \in DOMAIN d : d[i].field = "pdf"}
    IN /\ d \in Seq(Change)
       /\ \A i, j \in pdfs : i = j
       /\ \A i \in pdfs : /\ d[i] = FileChange(NullAs(was), NullAs(is), prevSrc, curSrc)
                            /\ was # Unknown
       /\ pdfs = {} => NullAs(was) = NullAs(is) \/ was = Unknown
       /\ \A i \in DOMAIN d : d[i].field # "body"

(* Of two versions of the fields there is one change of the file at most.   *)
LEMMA DiffProperties ==
    ASSUME NEW prev \in [{"title", "pdf"} -> Value], NEW cur \in [{"title", "pdf"} -> Value],
           NEW prevSrc \in Link, NEW curSrc \in Link
    PROVE  DiffFits(DiffFields(prev, cur, prevSrc, curSrc), prev["pdf"], cur["pdf"], prevSrc, curSrc)
<1> DEFINE Changed(f) == NullAs(prev[f]) # NullAs(cur[f]) /\ prev[f] # Unknown
           Made(f) == IF f = "pdf" THEN FileChange(NullAs(prev[f]), NullAs(cur[f]), prevSrc, curSrc)
                      ELSE [field |-> f, before |-> prev[f], after |-> cur[f]]
           K == {i \in DOMAIN TRACKED : Changed(TRACKED[i])}
           changed == Kept(TRACKED, K)
           d == DiffFields(prev, cur, prevSrc, curSrc)
<1>1. d = [i \in DOMAIN changed |-> Made(changed[i])]
    BY DEF DiffFields
<1>2. TRACKED \in Seq({"title", "pdf"}) /\ K \in SUBSET DOMAIN TRACKED /\ DOMAIN TRACKED = {1, 2}
      /\ TRACKED[1] = "title" /\ TRACKED[2] = "pdf"
    BY DEF TRACKED
<1>3. \A f \in {"title", "pdf"} : Made(f) \in Change /\ Made(f).field = f
  <2>1. \A v \in Value : NullAs(v) \in Value
      BY DEF NullAs, Value
  <2>2. None \in Link
      BY DEF None, Link
  <2> QED
      BY <2>1, <2>2 DEF FileChange, Change
<1>4. 2 \in K <=> Changed("pdf")
    BY <1>2
<1> HIDE DEF K, Made, Changed
<1>5. changed \in Seq({"title", "pdf"})
    BY ONLY <1>2, KeptProperties
<1>6. PICK p \in [DOMAIN changed -> K] :
          /\ \A i \in DOMAIN changed : changed[i] = TRACKED[p[i]]
          /\ \A i, j \in DOMAIN changed : i < j => p[i] < p[j]
          /\ \A k \in K : \E i \in DOMAIN changed : p[i] = k
    BY ONLY <1>2, KeptProperties
<1> HIDE DEF changed, d
<1>7. DOMAIN d = 1 .. Len(changed) /\ DOMAIN changed = 1 .. Len(changed) /\ Len(changed) \in Nat
      /\ \A i \in DOMAIN d : changed[i] \in {"title", "pdf"} /\ d[i] = Made(changed[i])
    BY <1>1, <1>5
<1>8. d \in Seq(Change)
  <2>1. \A i \in 1 .. Len(changed) : d[i] \in Change
      BY <1>3, <1>7
  <2>2. d = [i \in 1 .. Len(changed) |-> d[i]]
      BY <1>1, <1>7
  <2> QED
      BY <1>7, <2>1, <2>2, ListOf
<1> DEFINE pdfs == {i \in DOMAIN d : d[i].field = "pdf"}
<1>9. \A i \in pdfs : changed[i] = "pdf" /\ p[i] = 2 /\ i \in DOMAIN changed /\ i \in Nat
  <2> TAKE i \in pdfs
  <2>1. i \in DOMAIN changed /\ changed[i] = "pdf" /\ i \in Nat
      BY <1>3, <1>7
  <2>2. p[i] \in {1, 2} /\ changed[i] = TRACKED[p[i]]
      BY <2>1, <1>6, <1>2
  <2> QED
      BY <2>1, <2>2, <1>2
<1>10. \A i, j \in pdfs : i = j
    BY <1>6, <1>9
<1>11. \A i \in pdfs : d[i] = Made("pdf") /\ Changed("pdf")
    BY <1>4, <1>6, <1>7, <1>9
<1>12. pdfs = {} => ~Changed("pdf")
  <2> SUFFICES ASSUME Changed("pdf")
               PROVE  pdfs # {}
      OBVIOUS
  <2>1. PICK i \in DOMAIN changed : p[i] = 2
      BY <1>4, <1>6
  <2>2. changed[i] = "pdf"
      BY <1>6, <2>1, <1>2
  <2>3. i \in DOMAIN d /\ d[i].field = "pdf"
      BY <1>3, <1>7, <2>2
  <2> QED
      BY <2>3
<1>13. \A i \in DOMAIN d : d[i].field # "body"
    BY <1>3, <1>7
<1> QED
    BY <1>8, <1>10, <1>11, <1>12, <1>13 DEF Made, Changed, d, DiffFits

(* An edit applied leaves the links as they should be.                      *)
LEMMA ApplyFolds ==
    ASSUME NEW es \in Seq(Edit), NEW st, Folding(es, st), NEW n \in 1 .. Len(es), Len(st.out) = n - 1
    PROVE  LET new == Apply(st, es[n]) IN Folding(es, new) /\ Len(new.out) = n
<1> DEFINE e == es[n]
           val == [f \in {"title", "pdf"} |-> IF f \in DOMAIN e.patch THEN Unwrap(e.patch[f]) ELSE st.val[f]]
           src == IF "pdf" \in DOMAIN e.patch /\ val["pdf"] # None THEN n ELSE st.src
           diff == IF n = 1 THEN <<>> ELSE DiffFields(st.val, val, st.src, src)
           revision == [kind |-> Classify(e.suffix), baseline |-> n = 1, changes |-> diff]
           out == Append(st.out, revision)
           new == Apply(st, e)
           old == st.out
<1>1. /\ st \in [val : [{"title", "pdf"} -> Value], src : Link, out : Seq(Revision)]
      /\ st.val \in [{"title", "pdf"} -> Value] /\ st.src \in Link /\ old \in Seq(Revision)
    BY DEF Folding
<1>2. e \in Edit /\ e.patch \in Patch /\ e.suffix \in Suffix /\ Len(es) \in Nat
  <2>1. e \in Edit /\ Len(es) \in Nat
      OBVIOUS
  <2> HIDE DEF e
  <2> QED
      BY <2>1 DEF Edit
<1>3. new = [val |-> val, src |-> src, out |-> out]
  <2>1. DOMAIN st.val = {"title", "pdf"} /\ Len(st.out) + 1 = n
      BY <1>1
  <2> QED
      BY <2>1 DEF Apply
<1>4. /\ val \in [{"title", "pdf"} -> Value]
      /\ val["pdf"] = IF "pdf" \in DOMAIN e.patch THEN Unwrap(e.patch["pdf"]) ELSE st.val["pdf"]
      /\ "pdf" \in DOMAIN e.patch => e.patch["pdf"] \notin {None, Unknown}
  <2>1. \A f \in DOMAIN e.patch : Unwrap(e.patch[f]) \in Value
      BY <1>2 DEF Unwrap, Value
  <2>2. "pdf" \in DOMAIN e.patch => e.patch["pdf"] \notin {None, Unknown}
      BY <1>2, RevisionsConstants DEF RevisionsConstants
  <2> QED
      BY <1>1, <2>1, <2>2
<1>5. src \in Link
    BY <1>1 DEF Link
<1> HIDE DEF e, new
<1> DEFINE was == st.val["pdf"]
           is == val["pdf"]
<1>6. /\ "pdf" \in DOMAIN e.patch => is # Unknown /\ (is # None => is = e.patch["pdf"])
      /\ "pdf" \notin DOMAIN e.patch => is = was /\ src = st.src
      /\ "pdf" \in DOMAIN e.patch /\ is # None => src = n
    BY <1>4 DEF Unwrap, None, Unknown
<1>7. NullAs(is) # None => Carries(es, src, is)
  <2>1. CASE "pdf" \in DOMAIN e.patch /\ NullAs(is) # None
    <3>1. is # None /\ is = es[n].patch["pdf"] /\ src = n /\ "pdf" \in DOMAIN es[n].patch
        BY <1>6, <2>1 DEF NullAs, e
    <3> QED
        BY <3>1 DEF Carries, None
  <2>2. CASE "pdf" \notin DOMAIN e.patch /\ NullAs(is) # None
      BY <1>6, <2>2 DEF Folding
  <2> QED
      BY <2>1, <2>2
<1> HIDE DEF val, src
<1> DEFINE pdfs == {i \in DOMAIN diff : diff[i].field = "pdf"}
<1>8. /\ diff \in Seq(Change)
      /\ \A i, j \in pdfs : i = j
      /\ \A i \in pdfs : diff[i] = FileChange(NullAs(was), NullAs(is), st.src, src) /\ was # Unknown /\ n # 1
      /\ pdfs = {} /\ n # 1 => NullAs(was) = NullAs(is) \/ was = Unknown
      /\ \A i \in DOMAIN diff : diff[i].field # "body"
  <2>1. CASE n = 1
      BY <2>1
  <2>2. CASE n # 1
    <3> DEFINE d == DiffFields(st.val, val, st.src, src)
    <3>1. /\ st.val \in [{"title", "pdf"} -> Value] /\ val \in [{"title", "pdf"} -> Value]
          /\ st.src \in Link /\ src \in Link
        BY <1>1, <1>4, <1>5
    <3>4. DiffFits(d, was, is, st.src, src)
        BY ONLY <3>1, DiffProperties
    <3>2. /\ d \in Seq(Change)
          /\ \A i, j \in {i \in DOMAIN d : d[i].field = "pdf"} : i = j
          /\ \A i \in {i \in DOMAIN d : d[i].field = "pdf"} :
               d[i] = FileChange(NullAs(was), NullAs(is), st.src, src) /\ was # Unknown
          /\ {i \in DOMAIN d : d[i].field = "pdf"} = {} => NullAs(was) = NullAs(is) \/ was = Unknown
          /\ \A i \in DOMAIN d : d[i].field # "body"
        BY <3>4 DEF DiffFits
    <3>3. diff = d
        BY <2>2
    <3> HIDE DEF d, diff, was, is
    <3> QED
        BY <2>2, <3>2, <3>3
  <2> QED
      BY <2>1, <2>2
<1>9. revision \in Revision
    BY <1>2, <1>8 DEF Revision, Kind
<1> HIDE DEF diff
<1>10. /\ out \in Seq(Revision) /\ DOMAIN out = 1 .. n /\ Len(out) = n /\ DOMAIN old = 1 .. n - 1
       /\ \A r \in 1 .. n - 1 : out[r] = old[r]
       /\ out[n] = revision
    BY <1>1, <1>9
<1> HIDE DEF out, old
<1>11. /\ \A r \in 1 .. n - 1 : FilesIn(out, r) = FilesIn(old, r)
       /\ FilesIn(out, n) = pdfs /\ out[n].changes = diff
    BY <1>10 DEF FilesIn
<1> HIDE DEF revision, pdfs
<1>12. \A i \in pdfs : /\ diff[i].before = NullAs(was) /\ diff[i].after = NullAs(is)
                        /\ ServedBy(es, diff[i])
  <2> TAKE i \in pdfs
  <2>1. /\ diff[i].before = NullAs(was) /\ diff[i].after = NullAs(is)
        /\ diff[i].beforeUrl = IF NullAs(was) # None THEN st.src ELSE None
        /\ diff[i].afterUrl = IF NullAs(is) # None THEN src ELSE None
      BY <1>8 DEF FileChange
  <2>2. NullAs(was) # None => Carries(es, st.src, NullAs(was))
      BY DEF Folding, NullAs
  <2>3. NullAs(is) # None => Carries(es, src, NullAs(is))
      BY <1>7 DEF NullAs
  <2> QED
      BY <2>1, <2>2, <2>3 DEF ServedBy
<1>13. \A r \in 1 .. n - 1 : \A i \in FilesIn(old, r) :
          (\A m \in 1 .. n - 1 : r < m => FilesIn(old, m) = {})
            => old[r].changes[i].after = NullAs(was) /\ was # Unknown
    BY <1>10 DEF Folding, old
<1>14. Linked(out, es)
  <2>1. /\ \A r \in 1 .. n - 1 : \A i, j \in FilesIn(old, r) : i = j
        /\ \A r \in 1 .. n - 1 : \A i \in FilesIn(old, r) : ServedBy(es, old[r].changes[i])
        /\ \A q, r \in 1 .. n - 1 : \A i \in FilesIn(old, q), j \in FilesIn(old, r) :
             q < r /\ (\A m \in 1 .. n - 1 : q < m /\ m < r => FilesIn(old, m) = {})
               => old[r].changes[j].before = old[q].changes[i].after
        /\ BodiesOfFiles(old)
    <3>1. Linked(old, es)
        BY DEF Folding, old
    <3> QED
        BY <1>10, <3>1 DEF Linked
  <2>2. ASSUME NEW r \in DOMAIN out
        PROVE  /\ \A i, j \in FilesIn(out, r) : i = j
               /\ \A i \in FilesIn(out, r) : ServedBy(es, out[r].changes[i])
    <3>1. CASE r = n
        BY <1>8, <1>11, <1>12, <3>1
    <3>2. CASE r # n
      <4>1. r \in 1 .. n - 1
          BY <1>10, <2>2, <3>2
      <4> QED
          BY <1>10, <1>11, <2>1, <4>1
    <3> QED
        BY <3>1, <3>2
  <2>3. ASSUME NEW q \in DOMAIN out, NEW r \in DOMAIN out,
               NEW i \in FilesIn(out, q), NEW j \in FilesIn(out, r), q < r,
               \A m \in DOMAIN out : q < m /\ m < r => FilesIn(out, m) = {}
        PROVE  out[r].changes[j].before = out[q].changes[i].after
    <3>1. q \in 1 .. n - 1 /\ out[q] = old[q] /\ i \in FilesIn(old, q)
        BY <1>10, <1>11, <2>3
    <3>2. CASE r = n
      <4>1. \A m \in 1 .. n - 1 : q < m => FilesIn(old, m) = {}
          BY <1>10, <1>11, <2>3, <3>2
      <4>2. old[q].changes[i].after = NullAs(was)
          BY <1>13, <3>1, <4>1
      <4>3. j \in pdfs /\ out[r].changes[j].before = NullAs(was)
          BY <1>11, <1>12, <3>2
      <4> QED
          BY <3>1, <4>2, <4>3
    <3>3. CASE r # n
      <4>1. r \in 1 .. n - 1 /\ out[r] = old[r] /\ j \in FilesIn(old, r)
          BY <1>10, <1>11, <3>3
      <4>2. \A m \in 1 .. n - 1 : q < m /\ m < r => FilesIn(old, m) = {}
          BY <1>10, <1>11, <2>3
      <4> QED
          BY <2>1, <2>3, <3>1, <4>1, <4>2
    <3> QED
        BY <3>2, <3>3
  <2>4. BodiesOfFiles(out)
    <3> SUFFICES ASSUME NEW r \in DOMAIN out, NEW i \in DOMAIN out[r].changes, out[r].changes[i].field = "body"
                 PROVE  \/ \E j \in DOMAIN out[r].changes : Between(out[r].changes[i], out[r].changes[j])
                        \/ r = 1 /\ \E q \in DOMAIN out : \E j \in DOMAIN out[q].changes :
                              FirstText(out[r].changes[i], out[q].changes[j])
        BY DEF BodiesOfFiles
    <3>1. r # n
        BY <1>8, <1>11
    <3>2. r \in 1 .. n - 1 /\ out[r] = old[r]
        BY <1>10, <3>1
    <3>3. \A q \in DOMAIN old : q \in DOMAIN out /\ out[q] = old[q]
        BY <1>10
    <3> QED
        BY <1>10, <2>1, <3>2, <3>3 DEF BodiesOfFiles
  <2> QED
      BY <2>2, <2>3, <2>4 DEF Linked
<1>15. ASSUME NEW r \in DOMAIN out, NEW i \in FilesIn(out, r),
              \A m \in DOMAIN out : r < m => FilesIn(out, m) = {}
       PROVE  out[r].changes[i].after = NullAs(is) /\ is # Unknown
  <2>1. was # Unknown => is # Unknown
      BY <1>6
  <2>2. CASE r = n
      BY <1>8, <1>11, <1>12, <2>1, <2>2
  <2>3. CASE r # n
    <3>1. r \in 1 .. n - 1 /\ out[r] = old[r] /\ i \in FilesIn(old, r)
        BY <1>10, <1>11, <2>3
    <3>2. \A m \in 1 .. n - 1 : r < m => FilesIn(old, m) = {}
        BY <1>10, <1>11, <1>15
    <3>3. old[r].changes[i].after = NullAs(was) /\ was # Unknown
        BY <1>13, <3>1, <3>2
    <3>4. pdfs = {} /\ n # 1
        BY <1>10, <1>11, <1>15, <3>1
    <3> QED
        BY <1>8, <2>1, <3>1, <3>3, <3>4
  <2> QED
      BY <2>2, <2>3
<1>16. new \in [val : [{"title", "pdf"} -> Value], src : Link, out : Seq(Revision)]
       /\ new.val["pdf"] = is /\ new.src = src /\ new.out = out
    BY <1>3, <1>4, <1>5, <1>10
<1>17. Folding(es, new)
    BY <1>7, <1>14, <1>15, <1>16 DEF Folding
<1> QED
    BY <1>10, <1>16, <1>17 DEF new, e

LEMMA HistoryFolds ==
    ASSUME NEW es \in Seq(Edit), NEW n \in 0 .. Len(es)
    PROVE  Folding(es, History(es)[n]) /\ Len(History(es)[n].out) = n
<1> DEFINE Holds(k) == Folding(es, History(es)[k]) /\ Len(History(es)[k].out) = k
           bad == {k \in 0 .. Len(es) : ~Holds(k)}
<1> SUFFICES ASSUME bad # {}
             PROVE  FALSE
    OBVIOUS
<1>1. bad \in SUBSET Nat
    OBVIOUS
<1>2. PICK m \in bad : \A k \in bad : m <= k
  <2> HIDE DEF bad
  <2> QED
      BY <1>1, LeastNatural
<1>3. CASE m = 0
  <2>1. /\ NothingYet \in [val : [{"title", "pdf"} -> Value], src : Link, out : Seq(Revision)]
        /\ NothingYet.val["pdf"] = Unknown /\ NothingYet.out = <<>>
      BY DEF NothingYet, Value, Link, None
  <2>2. Folding(es, NothingYet)
    <3>1. NullAs(Unknown) = None
        BY DEF NullAs
    <3>2. Linked(<<>>, es)
        BY DEF Linked, BodiesOfFiles
    <3> QED
        BY <2>1, <3>1, <3>2 DEF Folding
  <2> QED
      BY <1>2, <1>3, <2>1, <2>2, HistoryUnfold
<1>4. CASE m # 0
  <2>1. m \in 1 .. Len(es) /\ m - 1 \in 0 .. Len(es) /\ m - 1 \notin bad
      BY <1>2, <1>4
  <2>2. Holds(m - 1)
      BY <2>1
  <2>3. History(es)[m] = Apply(History(es)[m - 1], es[m])
      BY <2>1, HistoryUnfold
  <2>4. Holds(m)
      BY <2>1, <2>2, <2>3, ApplyFolds
  <2> QED
      BY <1>2, <2>4
<1> QED
    BY <1>3, <1>4

ChangesOf(revisions) == [r \in DOMAIN revisions |-> revisions[r].changes]

LEMMA ChangesTyped ==
    ASSUME NEW revisions \in Seq(Revision)
    PROVE  /\ ChangesOf(revisions) \in Seq(Seq(Change))
           /\ \A r \in DOMAIN revisions :
                revisions[r].changes \in Seq(Change) /\ ChangesOf(revisions)[r] = revisions[r].changes
<1>1. /\ Len(revisions) \in Nat /\ DOMAIN revisions = 1 .. Len(revisions)
      /\ \A r \in DOMAIN revisions : revisions[r] \in Revision
    OBVIOUS
<1>2. \A r \in DOMAIN revisions : revisions[r].changes \in Seq(Change)
    BY <1>1 DEF Revision
<1>3. /\ ChangesOf(revisions) = [r \in 1 .. Len(revisions) |-> ChangesOf(revisions)[r]]
      /\ \A r \in 1 .. Len(revisions) : ChangesOf(revisions)[r] \in Seq(Change)
    BY <1>1, <1>2 DEF ChangesOf
<1> QED
    BY ONLY <1>1, <1>2, <1>3, ListOf DEF ChangesOf

(* A list of changes with some of them made of others, the files the same.  *)
SameFiles(new, old) ==
    LET was == {i \in DOMAIN old : old[i].field = "pdf"}
        is == {i \in DOMAIN new : new[i].field = "pdf"}
    IN /\ new \in Seq(Change)
       /\ \A k \in is : \E i \in was : new[k] = old[i]
       /\ (\A i, j \in was : i = j) => (\A k, l \in is : k = l)
       /\ \A i \in was : \E k \in is : new[k] = old[i]
       /\ \A k \in DOMAIN new : new[k].field = "body" =>
             \/ \E i \in DOMAIN old : new[k] = old[i]
             \/ \E i \in was : Between(new[k], old[i])

LEMMA WithBodyKeepsFiles ==
    ASSUME NEW changes \in Seq(Change), NEW read, None \notin read
    PROVE  SameFiles(WithBody(changes, read), changes)
<1> DEFINE Pair(i) == changes[i].field = "pdf" /\ {changes[i].beforeUrl, changes[i].afterUrl} \subseteq read
           ss == [i \in DOMAIN changes |-> IF Pair(i) THEN <<changes[i], Body(changes[i])>> ELSE <<changes[i]>>]
           flat == Flat(ss)
           was == {i \in DOMAIN changes : changes[i].field = "pdf"}
           is == {k \in DOMAIN flat : flat[k].field = "pdf"}
<1>1. WithBody(changes, read) = flat
    BY DEF WithBody
<1>2. \A i \in DOMAIN changes : changes[i] \in Change /\ Body(changes[i]) \in Change /\ Body(changes[i]).field = "body"
    BY DEF Change, Body
<1>11. \A i \in DOMAIN changes : Pair(i) => i \in was /\ Between(Body(changes[i]), changes[i])
    BY DEF Between, Body
<1> HIDE DEF Pair
<1>3. \A i \in DOMAIN changes :
        /\ ss[i] \in Seq(Change) /\ 1 \in DOMAIN ss[i] /\ ss[i][1] = changes[i]
        /\ \A j \in DOMAIN ss[i] : j # 1 => /\ ss[i][j].field = "body"
                                           /\ i \in was /\ Between(ss[i][j], changes[i])
  <2> TAKE i \in DOMAIN changes
  <2>1. CASE Pair(i)
    <3>1. ss[i] = <<changes[i], Body(changes[i])>>
        BY <2>1
    <3>2. /\ ss[i] \in Seq(Change) /\ DOMAIN ss[i] = {1, 2}
          /\ ss[i][1] = changes[i] /\ ss[i][2] = Body(changes[i])
        BY <1>2, <3>1
    <3> QED
        BY <1>2, <1>11, <2>1, <3>2
  <2>2. CASE ~Pair(i)
    <3>1. ss[i] = <<changes[i]>>
        BY <2>2
    <3> QED
        BY <1>2, <3>1
  <2> QED
      BY <2>1, <2>2
<1>4. ss \in Seq(Seq(Change)) /\ DOMAIN ss = DOMAIN changes
  <2>1. /\ Len(changes) \in Nat /\ DOMAIN changes = 1 .. Len(changes)
        /\ ss = [i \in 1 .. Len(changes) |-> ss[i]]
      OBVIOUS
  <2>2. \A i \in 1 .. Len(changes) : ss[i] \in Seq(Change)
      BY <1>3, <2>1
  <2> HIDE DEF ss
  <2> QED
      BY <2>1, <2>2, ListOf
<1> HIDE DEF ss
<1>5. flat \in Seq(Change)
    BY ONLY <1>4, FlatProperties
<1>6. PICK p \in [DOMAIN flat -> PlacesIn(ss)] :
          /\ \A k \in DOMAIN flat : flat[k] = ss[p[k][1]][p[k][2]]
          /\ \A k, l \in DOMAIN flat : k < l => <<p[k], p[l]>> \in Lexical
          /\ \A x \in PlacesIn(ss) : \E k \in DOMAIN flat : p[k] = x
    BY ONLY <1>4, FlatProperties
<1> HIDE DEF flat
<1>7. \A x \in PlacesIn(ss) : \E i \in DOMAIN changes : \E j \in DOMAIN ss[i] : x = <<i, j>>
    BY <1>4 DEF PlacesIn
<1>8. \A k \in is : \E i \in was : p[k] = <<i, 1>> /\ flat[k] = changes[i]
  <2> TAKE k \in is
  <2>1. PICK i \in DOMAIN changes : \E j \in DOMAIN ss[i] : p[k] = <<i, j>>
      BY <1>6, <1>7
  <2>2. PICK j \in DOMAIN ss[i] : p[k] = <<i, j>>
      BY <2>1
  <2>3. flat[k] = ss[i][j]
      BY <1>6, <2>2
  <2>4. j = 1
      BY <1>3, <2>3
  <2> QED
      BY <1>3, <2>2, <2>3, <2>4
<1>9. ASSUME \A i, j \in was : i = j
      PROVE  \A k, l \in is : k = l
  <2> SUFFICES ASSUME NEW k \in is, NEW l \in is, k < l
               PROVE  FALSE
    <3>1. \A k \in is : k \in Nat
        BY <1>5
    <3> QED
        BY <3>1
  <2>1. p[k] = p[l]
      BY <1>8, <1>9
  <2>2. <<p[k], p[l]>> \in Lexical
      BY <1>6
  <2>3. p[k] \in Place
      BY <1>4, <1>6, PlacesInFinite
  <2> QED
      BY <2>1, <2>2, <2>3, PlacesInOrder DEF StrictOrder
<1>10. ASSUME NEW i \in was
       PROVE  \E k \in is : flat[k] = changes[i]
  <2>1. <<i, 1>> \in PlacesIn(ss)
      BY <1>3, <1>4 DEF PlacesIn
  <2>2. PICK k \in DOMAIN flat : p[k] = <<i, 1>>
      BY <1>6, <2>1
  <2>3. flat[k] = changes[i]
      BY <1>3, <1>6, <2>2
  <2> QED
      BY <2>3
<1>12. ASSUME NEW k \in DOMAIN flat
       PROVE  \/ \E i \in DOMAIN changes : flat[k] = changes[i]
              \/ \E i \in was : Between(flat[k], changes[i])
  <2>1. PICK i \in DOMAIN changes : \E j \in DOMAIN ss[i] : p[k] = <<i, j>>
      BY <1>6, <1>7
  <2>2. PICK j \in DOMAIN ss[i] : p[k] = <<i, j>>
      BY <2>1
  <2>3. flat[k] = ss[i][j]
      BY <1>6, <2>2
  <2> QED
      BY <1>3, <2>3
<1> QED
    BY <1>1, <1>5, <1>8, <1>9, <1>10, <1>12 DEF SameFiles

LEMMA BaselineTyped ==
    ASSUME NEW revisions \in Seq(Revision), NEW read, None \notin read
    PROVE  LET b == BaselineBody(revisions, read)
           IN b \in Seq(Change) /\ \A i \in DOMAIN b :
                /\ b[i].field = "body"
                /\ \E q \in DOMAIN revisions : \E j \in FilesIn(revisions, q) :
                      FirstText(b[i], revisions[q].changes[j])
<1> DEFINE changes == Flat(ChangesOf(revisions))
           K == {k \in DOMAIN changes : changes[k].field = "pdf" /\ changes[k].beforeUrl \in read}
           shown == Kept(changes, K)
           b == BaselineBody(revisions, read)
<1>1. b = IF shown = <<>> THEN <<>> ELSE <<[field |-> "body", before |-> None, after |-> shown[1].before]>>
    BY DEF BaselineBody, ChangesOf
<1> DEFINE ss == ChangesOf(revisions)
<1>7. /\ ss \in Seq(Seq(Change)) /\ DOMAIN ss = DOMAIN revisions
      /\ \A r \in DOMAIN revisions : ss[r] = revisions[r].changes
    BY ChangesTyped DEF ChangesOf
<1>8. ss \in Seq(Seq(Change))
    BY <1>7
<1> HIDE DEF ss
<1>2. changes \in Seq(Change)
    BY ONLY <1>8, FlatProperties DEF ss
<1>9. \A k \in DOMAIN changes : \E q \in DOMAIN revisions : \E j \in DOMAIN revisions[q].changes :
          changes[k] = revisions[q].changes[j]
  <2>1. PICK p \in [DOMAIN Flat(ss) -> PlacesIn(ss)] :
            \A k \in DOMAIN Flat(ss) : Flat(ss)[k] = ss[p[k][1]][p[k][2]]
      BY ONLY <1>8, FlatProperties
  <2>2. changes = Flat(ss)
      BY DEF ss
  <2> HIDE DEF changes
  <2> TAKE k \in DOMAIN changes
  <2>3. p[k] \in PlacesIn(ss) /\ changes[k] = ss[p[k][1]][p[k][2]]
      BY <2>1, <2>2
  <2>4. PICK q \in DOMAIN ss : \E j \in DOMAIN ss[q] : p[k] = <<q, j>>
      BY <2>3 DEF PlacesIn
  <2>5. PICK j \in DOMAIN ss[q] : p[k] = <<q, j>>
      BY <2>4
  <2>6. changes[k] = ss[q][j]
      BY <2>3, <2>5
  <2> QED
      BY <1>7, <2>4, <2>5, <2>6
<1> HIDE DEF changes
<1>3. K \in SUBSET DOMAIN changes
    OBVIOUS
<1>10. \A k \in K : changes[k].field = "pdf" /\ changes[k].beforeUrl \in read
    OBVIOUS
<1> HIDE DEF K
<1>4. shown \in Seq(Change) /\ \A i \in DOMAIN shown : \E k \in K : shown[i] = changes[k]
    BY ONLY <1>2, <1>3, KeptElements
<1> HIDE DEF shown, b
<1>5. CASE shown = <<>>
    BY <1>1, <1>5 DEF b
<1>6. CASE shown # <<>>
  <2>1. shown[1] \in Change
      BY <1>4, <1>6
  <2>2. shown[1].before \in Value /\ None \in Value
      BY <2>1 DEF Change, Value
  <2> DEFINE only == [field |-> "body", before |-> None, after |-> shown[1].before]
  <2>3. only \in Change /\ only.field = "body"
      BY <2>2 DEF Change
  <2>4. b = <<only>>
      BY <1>1, <1>6
  <2>5. 1 \in DOMAIN shown
      BY <1>4, <1>6
  <2>6. PICK k \in K : shown[1] = changes[k]
      BY <1>4, <2>5
  <2>7. PICK q \in DOMAIN revisions : \E j \in DOMAIN revisions[q].changes :
            changes[k] = revisions[q].changes[j]
      BY <1>3, <1>9, <2>6
  <2>8. PICK j \in DOMAIN revisions[q].changes : changes[k] = revisions[q].changes[j]
      BY <2>7
  <2>9. shown[1].field = "pdf" /\ shown[1].beforeUrl # None
      BY <1>10, <2>6
  <2>10. j \in FilesIn(revisions, q) /\ FirstText(only, revisions[q].changes[j])
      BY <2>6, <2>8, <2>9 DEF FilesIn, FirstText
  <2> HIDE DEF only
  <2>11. b \in Seq(Change) /\ \A i \in DOMAIN b : b[i] = only
      BY <2>3, <2>4
  <2> QED
      BY <2>3, <2>10, <2>11 DEF b
<1> QED
    BY <1>5, <1>6 DEF b

LEMMA AttachLinked ==
    ASSUME NEW es, NEW revisions \in Seq(Revision), Linked(revisions, es), NEW read, None \notin read
    PROVE  LET new == AttachBodyDiffs(revisions, read)
           IN new \in Seq(Revision) /\ Linked(new, es)
<1> DEFINE new == AttachBodyDiffs(revisions, read)
           body(r) == WithBody(revisions[r].changes, read)
           more(r) == IF r = 1 THEN BaselineBody(revisions, read) ELSE <<>>
<1>1. /\ Len(revisions) \in Nat /\ DOMAIN revisions = 1 .. Len(revisions)
      /\ \A r \in DOMAIN revisions : revisions[r] \in Revision /\ revisions[r].changes \in Seq(Change)
  <2>1. /\ Len(revisions) \in Nat /\ DOMAIN revisions = 1 .. Len(revisions)
        /\ \A r \in DOMAIN revisions : revisions[r] \in Revision
      OBVIOUS
  <2> QED
      BY <2>1 DEF Revision
<1>2. \A r \in DOMAIN revisions : more(r) \in Seq(Change) /\ \A i \in DOMAIN more(r) :
          /\ more(r)[i].field = "body" /\ r = 1
          /\ \E q \in DOMAIN revisions : \E j \in FilesIn(revisions, q) :
                FirstText(more(r)[i], revisions[q].changes[j])
  <2> TAKE r \in DOMAIN revisions
  <2>1. CASE r = 1
      BY <2>1, BaselineTyped
  <2>2. CASE r # 1
      BY <2>2
  <2> QED
      BY <2>1, <2>2
<1>3. \A r \in DOMAIN revisions : SameFiles(body(r), revisions[r].changes)
    BY <1>1, WithBodyKeepsFiles
<1>4. /\ new = [r \in DOMAIN revisions |-> [revisions[r] EXCEPT !.changes = body(r) \o more(r)]]
    BY DEF AttachBodyDiffs
<1> HIDE DEF body, more
<1>5. \A r \in DOMAIN revisions :
        /\ new[r] \in Revision
        /\ FilesIn(new, r) = {k \in DOMAIN body(r) : body(r)[k].field = "pdf"}
        /\ \A i \in FilesIn(new, r) : new[r].changes[i] = body(r)[i]
        /\ \A i \in DOMAIN new[r].changes :
             \/ i \in DOMAIN body(r) /\ new[r].changes[i] = body(r)[i]
             \/ \E k \in DOMAIN more(r) : new[r].changes[i] = more(r)[k]
  <2> TAKE r \in DOMAIN revisions
  <2> DEFINE b == body(r)
             m == more(r)
             c == b \o m
  <2>1. b \in Seq(Change) /\ m \in Seq(Change)
      BY <1>2, <1>3 DEF SameFiles
  <2>2. \A i \in DOMAIN m : m[i].field = "body"
      BY <1>2
  <2>3. new[r] = [revisions[r] EXCEPT !.changes = c] /\ body(r) = b
      BY <1>4
  <2> HIDE DEF b, m
  <2>4. /\ c \in Seq(Change) /\ DOMAIN b \subseteq DOMAIN c
        /\ \A i \in DOMAIN b : c[i] = b[i]
        /\ \A i \in DOMAIN c : i \notin DOMAIN b =>
             c[i].field = "body" /\ \E k \in DOMAIN m : c[i] = m[k]
    <3>1. /\ c \in Seq(Change) /\ Len(b) \in Nat /\ Len(m) \in Nat /\ DOMAIN c = 1 .. Len(b) + Len(m)
          /\ \A i \in DOMAIN b : c[i] = b[i]
          /\ \A i \in DOMAIN c : ~(i <= Len(b)) => i - Len(b) \in DOMAIN m /\ c[i] = m[i - Len(b)]
        BY ONLY <2>1, ConcatParts
    <3>2. DOMAIN b = 1 .. Len(b)
        BY <2>1
    <3> QED
        BY <2>2, <3>1, <3>2
  <2> HIDE DEF c, new
  <2>5. new[r] \in Revision /\ new[r].changes = c
      BY <1>1, <2>3, <2>4 DEF Revision
  <2>6. FilesIn(new, r) = {k \in DOMAIN c : c[k].field = "pdf"}
      BY <2>5 DEF FilesIn
  <2>7. FilesIn(new, r) = {k \in DOMAIN b : b[k].field = "pdf"}
    <3>1. ASSUME NEW k \in DOMAIN c, c[k].field = "pdf"
          PROVE  k \in DOMAIN b /\ b[k].field = "pdf"
      <4>1. "pdf" # "body"
          OBVIOUS
      <4>2. k \in DOMAIN b
          BY <2>4, <3>1, <4>1
      <4> QED
          BY <2>4, <3>1, <4>2
    <3>2. ASSUME NEW k \in DOMAIN b, b[k].field = "pdf"
          PROVE  k \in DOMAIN c /\ c[k].field = "pdf"
        BY <2>4, <3>2
    <3> QED
        BY <2>6, <3>1, <3>2
  <2>8. \A i \in DOMAIN new[r].changes :
           \/ i \in DOMAIN b /\ new[r].changes[i] = b[i]
           \/ \E k \in DOMAIN m : new[r].changes[i] = m[k]
      BY <2>4, <2>5
  <2>9. body(r) = b /\ more(r) = m
      BY DEF b, m
  <2> QED
      BY <2>4, <2>5, <2>7, <2>8, <2>9
<1>6. DOMAIN new = DOMAIN revisions /\ new \in Seq(Revision)
  <2>1. new = [r \in 1 .. Len(revisions) |-> new[r]]
      BY <1>1, <1>4
  <2>2. \A r \in 1 .. Len(revisions) : new[r] \in Revision
      BY <1>1, <1>5
  <2> HIDE DEF new
  <2> QED
      BY <1>1, <2>1, <2>2, ListOf
<1> HIDE DEF new
<1>7. \A r \in DOMAIN revisions :
        /\ \A k \in FilesIn(new, r) : \E i \in FilesIn(revisions, r) :
             new[r].changes[k] = revisions[r].changes[i]
        /\ \A i \in FilesIn(revisions, r) : \E k \in FilesIn(new, r) :
             new[r].changes[k] = revisions[r].changes[i]
        /\ \A k, l \in FilesIn(new, r) : k = l
  <2> TAKE r \in DOMAIN revisions
  <2>1. \A i, j \in FilesIn(revisions, r) : i = j
      BY DEF Linked
  <2> QED
      BY <1>3, <1>5, <2>1 DEF SameFiles, FilesIn
<1>8. \A r \in DOMAIN new : \A k \in FilesIn(new, r) : ServedBy(es, new[r].changes[k])
    BY <1>6, <1>7 DEF Linked
<1>9. ASSUME NEW q \in DOMAIN new, NEW r \in DOMAIN new, NEW k \in FilesIn(new, q), NEW l \in FilesIn(new, r),
             q < r, \A m \in DOMAIN new : q < m /\ m < r => FilesIn(new, m) = {}
      PROVE  new[r].changes[l].before = new[q].changes[k].after
  <2>1. PICK i \in FilesIn(revisions, q) : new[q].changes[k] = revisions[q].changes[i]
      BY <1>6, <1>7
  <2>2. PICK j \in FilesIn(revisions, r) : new[r].changes[l] = revisions[r].changes[j]
      BY <1>6, <1>7
  <2>3. \A m \in DOMAIN revisions : q < m /\ m < r => FilesIn(revisions, m) = {}
    <3>1. \A m \in DOMAIN revisions : FilesIn(new, m) = {} => FilesIn(revisions, m) = {}
        BY <1>7
    <3> QED
        BY <1>6, <1>9, <3>1
  <2>4. revisions[r].changes[j].before = revisions[q].changes[i].after
      BY <1>6, <1>9, <2>3 DEF Linked
  <2> QED
      BY <2>1, <2>2, <2>4
<1>10. ASSUME NEW r \in DOMAIN new, NEW i \in DOMAIN new[r].changes, new[r].changes[i].field = "body"
       PROVE  \/ \E k \in DOMAIN new[r].changes : Between(new[r].changes[i], new[r].changes[k])
              \/ r = 1 /\ \E q \in DOMAIN new : \E k \in DOMAIN new[q].changes :
                    FirstText(new[r].changes[i], new[q].changes[k])
  <2> DEFINE b == new[r].changes[i]
  <2>1. \A q \in DOMAIN revisions : \A j \in FilesIn(revisions, q) :
          \E k \in DOMAIN new[q].changes : new[q].changes[k] = revisions[q].changes[j]
      BY <1>7 DEF FilesIn
  <2>2. CASE \E k \in DOMAIN more(r) : b = more(r)[k]
    <3>1. r = 1 /\ \E q \in DOMAIN revisions : \E j \in FilesIn(revisions, q) :
              FirstText(b, revisions[q].changes[j])
        BY <1>2, <1>6, <2>2
    <3> HIDE DEF b
    <3>2. PICK q \in DOMAIN revisions : \E j \in FilesIn(revisions, q) : FirstText(b, revisions[q].changes[j])
        BY <3>1
    <3>3. PICK k \in DOMAIN new[q].changes : FirstText(b, new[q].changes[k])
        BY <2>1, <3>2
    <3> QED
        BY <1>6, <3>1, <3>2, <3>3 DEF b
  <2>3. CASE i \in DOMAIN body(r) /\ b = body(r)[i]
    <3> DEFINE old == revisions[r].changes
    <3>1. \/ \E h \in DOMAIN old : b = old[h]
          \/ \E h \in FilesIn(revisions, r) : Between(b, old[h])
        BY <1>3, <1>6, <1>10, <2>3 DEF SameFiles, FilesIn
    <3>2. CASE \E h \in FilesIn(revisions, r) : Between(b, old[h])
        BY <1>6, <2>1, <3>2
    <3>3. CASE \E h \in DOMAIN old : b = old[h]
      <4>1. PICK h \in DOMAIN old : b = old[h]
          BY <3>3
      <4>2. \/ \E j \in DOMAIN old : Between(b, old[j])
            \/ r = 1 /\ \E q \in DOMAIN revisions : \E j \in DOMAIN revisions[q].changes :
                  FirstText(b, revisions[q].changes[j])
        <5>1. old[h].field = "body"
            BY <1>10, <4>1
        <5> QED
            BY <1>6, <4>1, <5>1 DEF Linked, BodiesOfFiles
      <4> HIDE DEF b
      <4>3. \A q \in DOMAIN revisions : \A j \in DOMAIN revisions[q].changes :
              Between(b, revisions[q].changes[j]) \/ FirstText(b, revisions[q].changes[j])
                => j \in FilesIn(revisions, q)
          BY DEF Between, FirstText, FilesIn
      <4>4. CASE \E j \in DOMAIN old : Between(b, old[j])
        <5>1. \E k \in DOMAIN new[r].changes : Between(b, new[r].changes[k])
            BY <1>6, <2>1, <4>3, <4>4
        <5> QED
            BY <5>1 DEF b
      <4>5. CASE r = 1 /\ \E q \in DOMAIN revisions : \E j \in DOMAIN revisions[q].changes :
                  FirstText(b, revisions[q].changes[j])
        <5>1. \E q \in DOMAIN new : \E k \in DOMAIN new[q].changes : FirstText(b, new[q].changes[k])
            BY <1>6, <2>1, <4>3, <4>5
        <5> QED
            BY <4>5, <5>1 DEF b
      <4> QED
          BY <4>2, <4>4, <4>5
    <3> QED
        BY <3>1, <3>2, <3>3
  <2> QED
      BY <1>5, <1>6, <2>2, <2>3
<1>11. BodiesOfFiles(new)
    BY <1>10 DEF BodiesOfFiles
<1> QED
    BY <1>6, <1>7, <1>8, <1>9, <1>11 DEF Linked, new

(* The replacements of a history, one after the other.                      *)
LEMMA LinkedTells ==
    ASSUME NEW es, NEW revisions \in Seq(Revision), Linked(revisions, es)
    PROVE  LET cs == PdfChanges(revisions)
           IN \A i \in DOMAIN cs : /\ ServedBy(es, cs[i])
                                   /\ i > 1 => cs[i].before = cs[i - 1].after
<1> DEFINE ss == ChangesOf(revisions)
           flat == Flat(ss)
           K == {k \in DOMAIN flat : flat[k].field = "pdf"}
           cs == Kept(flat, K)
<1>1. PdfChanges(revisions) = cs
    BY DEF PdfChanges, ChangesOf
<1>2. /\ ss \in Seq(Seq(Change)) /\ DOMAIN ss = DOMAIN revisions
      /\ \A r \in DOMAIN revisions : ss[r] = revisions[r].changes
      /\ \A r \in DOMAIN revisions : r \in Nat
    BY ChangesTyped DEF ChangesOf
<1>14. ss \in Seq(Seq(Change))
    BY <1>2
<1> HIDE DEF ss
<1>3. flat \in Seq(Change)
    BY ONLY <1>14, FlatProperties
<1>18. PICK p : FlatBy(ss, p)
    BY ONLY <1>14, FlatHasPlaces
<1>4. /\ p \in [DOMAIN flat -> PlacesIn(ss)]
      /\ \A k \in DOMAIN flat : flat[k] = ss[p[k][1]][p[k][2]]
      /\ \A k, l \in DOMAIN flat : k < l => <<p[k], p[l]>> \in Lexical
      /\ \A x \in PlacesIn(ss) : \E k \in DOMAIN flat : p[k] = x
    BY <1>18 DEF FlatBy
<1> HIDE DEF flat
<1>15. K \in SUBSET DOMAIN flat /\ \A k \in K : flat[k].field = "pdf"
    OBVIOUS
<1>5. K \in SUBSET DOMAIN flat /\ \A k \in K : k \in Nat
    BY <1>3
<1>16. \A k \in DOMAIN flat : flat[k].field = "pdf" => k \in K
    OBVIOUS
<1> HIDE DEF K
<1>17. K \in SUBSET DOMAIN flat
    BY <1>5
<1>6. cs \in Seq(Change)
    BY ONLY <1>3, <1>17, KeptProperties
<1>19. PICK c : KeptBy(flat, K, c)
    BY ONLY <1>3, <1>17, KeptHasPlaces
<1>7. /\ c \in [DOMAIN cs -> K]
      /\ \A i \in DOMAIN cs : cs[i] = flat[c[i]]
      /\ \A i, j \in DOMAIN cs : i < j => c[i] < c[j]
      /\ \A k \in K : \E i \in DOMAIN cs : c[i] = k
    BY <1>19 DEF KeptBy
<1> HIDE DEF cs
<1>8. \A k \in K : \E r \in DOMAIN revisions : \E j \in FilesIn(revisions, r) :
         p[k] = <<r, j>> /\ flat[k] = revisions[r].changes[j]
  <2> TAKE k \in K
  <2>4. p[k] \in PlacesIn(ss)
      BY <1>4, <1>17
  <2>1. PICK r \in DOMAIN revisions : \E j \in DOMAIN ss[r] : p[k] = <<r, j>>
      BY <1>2, <2>4 DEF PlacesIn
  <2>2. PICK j \in DOMAIN ss[r] : p[k] = <<r, j>>
      BY <2>1
  <2>3. flat[k] = revisions[r].changes[j] /\ j \in DOMAIN revisions[r].changes
      BY <1>2, <1>4, <1>17, <2>2
  <2> QED
      BY <1>15, <2>2, <2>3 DEF FilesIn
<1>9. \A r \in DOMAIN revisions : \A j \in FilesIn(revisions, r) : \E k \in K : p[k] = <<r, j>>
  <2> TAKE r \in DOMAIN revisions
  <2> TAKE j \in FilesIn(revisions, r)
  <2>1. <<r, j>> \in PlacesIn(ss)
      BY <1>2 DEF PlacesIn, FilesIn
  <2>2. PICK k \in DOMAIN flat : p[k] = <<r, j>>
      BY <1>4, <2>1
  <2>3. flat[k] = revisions[r].changes[j]
      BY <1>2, <1>4, <2>2
  <2> QED
      BY <1>16, <2>2, <2>3 DEF FilesIn
<1>10. ASSUME NEW i \in DOMAIN cs
       PROVE  ServedBy(es, cs[i])
  <2>1. PICK r \in DOMAIN revisions : \E j \in FilesIn(revisions, r) : flat[c[i]] = revisions[r].changes[j]
      BY <1>7, <1>8
  <2> QED
      BY <1>7, <2>1 DEF Linked
<1>12. \A k \in K : p[k] \in Place /\ p[k][1] \in Nat /\ p[k][2] \in Nat
  <2>1. \A k \in K : p[k] \in Place
      BY <1>14, <1>4, <1>5, PlacesInFinite
  <2> QED
      BY <2>1 DEF Place
<1>11. ASSUME NEW k \in K, NEW l \in K, k < l
       PROVE  (p[k][1] < p[l][1]) \/ (p[k][1] = p[l][1] /\ p[k][2] < p[l][2])
  <2>1. <<p[k], p[l]>> \in Lexical
      BY <1>4, <1>11, <1>17
  <2> DEFINE x == p[k]
             y == p[l]
  <2>2. <<x, y>> \in Lexical
      BY <2>1
  <2> HIDE DEF x, y
  <2>3. (x[1] < y[1]) \/ (x[1] = y[1] /\ x[2] < y[2])
      BY <2>2 DEF Lexical
  <2> QED
      BY <2>3 DEF x, y
<1>13. ASSUME NEW i \in DOMAIN cs, i > 1
       PROVE  cs[i].before = cs[i - 1].after
  <2>1. i \in Nat /\ i - 1 \in DOMAIN cs /\ i - 1 < i /\ \A h \in DOMAIN cs : h \in Nat
      BY <1>6, <1>13
  <2>2. c[i - 1] \in K /\ c[i] \in K /\ c[i - 1] < c[i] /\ cs[i - 1] = flat[c[i - 1]] /\ cs[i] = flat[c[i]]
      BY <1>7, <2>1
  <2>3. PICK q \in DOMAIN revisions : \E a \in FilesIn(revisions, q) :
            p[c[i - 1]] = <<q, a>> /\ flat[c[i - 1]] = revisions[q].changes[a]
      BY <1>8, <2>2
  <2>4. PICK a \in FilesIn(revisions, q) : p[c[i - 1]] = <<q, a>> /\ flat[c[i - 1]] = revisions[q].changes[a]
      BY <2>3
  <2>5. PICK r \in DOMAIN revisions : \E b \in FilesIn(revisions, r) :
            p[c[i]] = <<r, b>> /\ flat[c[i]] = revisions[r].changes[b]
      BY <1>8, <2>2
  <2>6. PICK b \in FilesIn(revisions, r) : p[c[i]] = <<r, b>> /\ flat[c[i]] = revisions[r].changes[b]
      BY <2>5
  <2>7. /\ p[c[i - 1]][1] = q /\ p[c[i - 1]][2] = a /\ p[c[i]][1] = r /\ p[c[i]][2] = b
        /\ q \in Nat /\ r \in Nat /\ a \in Nat /\ b \in Nat
    <3>1. p[c[i - 1]][1] = q /\ p[c[i - 1]][2] = a /\ p[c[i]][1] = r /\ p[c[i]][2] = b
        BY <2>4, <2>6
    <3> QED
        BY <1>12, <2>2, <3>1
  <2>8. q < r
    <3>1. (q < r) \/ (q = r /\ a < b)
        BY <1>11, <2>2, <2>7
    <3>2. q = r => a = b
        BY DEF Linked
    <3> QED
        BY <2>7, <3>1, <3>2
  <2>9. ASSUME NEW m \in DOMAIN revisions, q < m, m < r, NEW j \in FilesIn(revisions, m)
        PROVE  FALSE
    <3>1. PICK k \in K : p[k] = <<m, j>>
        BY <1>9
    <3>2. PICK h \in DOMAIN cs : c[h] = k
        BY <1>7
    <3>3. c[i - 1] < k /\ k < c[i]
      <4>1. /\ k \in Nat /\ c[i] \in Nat /\ c[i - 1] \in Nat /\ m \in Nat /\ q \in Nat /\ r \in Nat
            /\ k \in DOMAIN flat /\ c[i] \in DOMAIN flat /\ c[i - 1] \in DOMAIN flat
          BY <1>2, <1>5, <2>2
      <4>2. k # c[i] /\ k # c[i - 1]
          BY <2>4, <2>6, <2>9, <3>1, <4>1
      <4>3. ~(k < c[i - 1])
        <5>1. k < c[i - 1] => m < q \/ m = q
            BY <1>11, <2>2, <2>7, <3>1
        <5> QED
            BY <2>9, <4>1, <5>1
      <4>4. ~(c[i] < k)
        <5>1. c[i] < k => r < m \/ r = m
            BY <1>11, <2>2, <2>7, <3>1
        <5> QED
            BY <2>9, <4>1, <5>1
      <4> QED
          BY <4>1, <4>2, <4>3, <4>4
    <3>4. h \in Nat /\ (h < i - 1 \/ h = i - 1 \/ h = i \/ i < h)
        BY <2>1
    <3>5. \A u, v \in DOMAIN cs : u < v => c[u] < c[v]
        BY <1>7
    <3>6. c[h] = k /\ c[h] \in Nat /\ c[i] \in Nat /\ c[i - 1] \in Nat
        BY <1>5, <2>2, <3>2
    <3> QED
        BY <2>1, <3>3, <3>4, <3>5, <3>6
  <2>10. revisions[r].changes[b].before = revisions[q].changes[a].after
      BY <2>8, <2>9 DEF Linked
  <2> QED
      BY <2>2, <2>4, <2>6, <2>10
<1> QED
    BY <1>1, <1>10, <1>13

(* What links serve, they serve after one more edit.                        *)
LEMMA LinkedGrows ==
    ASSUME NEW es \in Seq(Edit), NEW e \in Edit, NEW revisions, Linked(revisions, es)
    PROVE  Linked(revisions, Append(es, e))
<1> DEFINE more == Append(es, e)
<1>1. \A u \in DOMAIN es : u \in DOMAIN more /\ more[u] = es[u]
    OBVIOUS
<1> HIDE DEF more
<1>2. \A u, f : Carries(es, u, f) => Carries(more, u, f)
    BY <1>1 DEF Carries
<1>3. \A c : ServedBy(es, c) => ServedBy(more, c)
    BY <1>2 DEF ServedBy
<1>4. Linked(revisions, more)
    BY <1>3 DEF Linked
<1> QED
    BY <1>4 DEF more

LEMMA BuiltLinked ==
    ASSUME NEW es \in Seq(Edit)
    PROVE  /\ BuildRevisions(es) \in Seq(Revision) /\ Linked(BuildRevisions(es), es)
           /\ CountBodyRevisions(BuildRevisions(es)) \in Nat
<1> DEFINE st == History(es)[Len(es)]
           revisions == BuildRevisions(es)
<1>1. Len(es) \in 0 .. Len(es)
    OBVIOUS
<1>2. Folding(es, st)
    BY <1>1, HistoryFolds
<1>3. revisions = st.out
    BY DEF BuildRevisions
<1> HIDE DEF st, revisions
<1>4. revisions \in Seq(Revision) /\ Linked(revisions, es)
    BY <1>2, <1>3 DEF Folding
<1>5. Replaced(revisions) \in SUBSET (1 .. Len(revisions)) /\ Len(revisions) \in Nat
    BY <1>4 DEF Replaced
<1>6. IsFiniteSet(1 .. Len(revisions))
    BY <1>5, FS_Interval
<1>7. IsFiniteSet(Replaced(revisions))
    BY <1>5, <1>6, FS_Subset
<1>8. CountBodyRevisions(revisions) \in Nat
    BY <1>7, FS_CardinalityType DEF CountBodyRevisions
<1> QED
    BY <1>4, <1>8 DEF revisions

LEMMA NothingLinked ==
    ASSUME NEW es
    PROVE  NoAnswer \in Payload /\ Linked(NoAnswer.revisions, es)
<1>1. NoAnswer.revisions = <<>> /\ <<>> \in Seq(Revision) /\ DOMAIN <<>> = {}
    BY DEF NoAnswer
<1>2. NoAnswer \in Payload
    BY <1>1 DEF NoAnswer, Payload
<1>3. Linked(NoAnswer.revisions, es)
    BY <1>1 DEF Linked, BodiesOfFiles
<1> QED
    BY <1>2, <1>3

(* One call steps, the cache keeps its row or takes the call's answer.      *)
LEMMA CallSteps ==
    ASSUME RevisionsInv, NEW c \in Reader, NEW from,
           NEW to \in Stage,
           NEW answer \in Payload, Linked(answer.revisions, edits), Advance(c, from, to, answer),
           UNCHANGED edits,
           \/ UNCHANGED bodyCache
           \/ \E fresh \in BOOLEAN : bodyCache' = {[payload |-> answer, fresh |-> fresh]}
    PROVE  RevisionsInv'
<1> DEFINE call == [at |-> to, answer |-> answer, count |-> reading[c].count]
<1>1. /\ reading \in [Reader -> Call] /\ reading[c] \in Call
      /\ reading' = [reading EXCEPT ![c].at = to, ![c].answer = answer]
    BY DEF RevisionsInv, Advance
<1>2. /\ reading[c] = [at |-> reading[c].at, answer |-> reading[c].answer, count |-> reading[c].count]
      /\ reading[c].count \in Int
    BY <1>1 DEF Call
<1>3. call \in Call /\ call.answer = answer
    BY <1>2 DEF Call
<1>4. reading'[c] = call
    BY <1>1, <1>2
<1> HIDE DEF call
<1>5. reading' = [d \in Reader |-> IF d = c THEN call ELSE reading[d]]
    BY <1>1, <1>4
<1>6. reading' \in [Reader -> Call]
    BY <1>1, <1>3, <1>5
<1>7. \A d \in Reader : reading'[d].answer = answer \/ reading'[d].answer = reading[d].answer
    BY <1>3, <1>5
<1>8. /\ bodyCache' \in SUBSET [payload : Payload, fresh : BOOLEAN]
      /\ \A row \in bodyCache' : row \in bodyCache \/ row.payload = answer
    BY DEF RevisionsInv
<1>9. \A a \in Answers' : Linked(a.revisions, edits)
    BY <1>7, <1>8 DEF RevisionsInv, Answers
<1> QED
    BY <1>6, <1>8, <1>9 DEF RevisionsInv

LEMMA CountSteps ==
    ASSUME RevisionsInv, NEW c \in Reader, NEW count \in Int, Counted(c, count), UNCHANGED <<edits, bodyCache>>
    PROVE  RevisionsInv'
<1> DEFINE call == [at |-> "done", answer |-> reading[c].answer, count |-> count]
<1>1. /\ reading \in [Reader -> Call] /\ reading[c] \in Call
      /\ reading' = [reading EXCEPT ![c].at = "done", ![c].count = count]
    BY DEF RevisionsInv, Counted
<1>2. /\ reading[c] = [at |-> reading[c].at, answer |-> reading[c].answer, count |-> reading[c].count]
      /\ reading[c].answer \in Payload
    BY <1>1 DEF Call
<1>3. call \in Call /\ call.answer = reading[c].answer
    BY <1>2 DEF Call, Stage
<1>4. reading'[c] = call
    BY <1>1, <1>2
<1> HIDE DEF call
<1>5. reading' = [d \in Reader |-> IF d = c THEN call ELSE reading[d]]
    BY <1>1, <1>4
<1>6. reading' \in [Reader -> Call]
    BY <1>1, <1>3, <1>5
<1>7. \A d \in Reader : reading'[d].answer = reading[d].answer
    BY <1>3, <1>5
<1>8. \A a \in Answers' : Linked(a.revisions, edits)
    BY <1>7 DEF RevisionsInv, Answers
<1> QED
    BY <1>6, <1>8 DEF RevisionsInv

LEMMA RevisionsInvariance == RevisionsSpec => []RevisionsInv
<1>1. RevisionsInit => RevisionsInv
  <2> SUFFICES ASSUME RevisionsInit
               PROVE  RevisionsInv
      OBVIOUS
  <2>1. NoAnswer \in Payload /\ \A es : Linked(NoAnswer.revisions, es)
      BY NothingLinked
  <2>2. reading = [c \in Reader |-> [at |-> "new", answer |-> NoAnswer, count |-> -1]]
      BY DEF RevisionsInit, Waiting, Unknown
  <2>3. reading \in [Reader -> Call]
      BY <2>1, <2>2 DEF Call, Stage
  <2>4. \A a \in Answers : Linked(a.revisions, edits)
      BY <2>1, <2>2 DEF Answers, RevisionsInit
  <2> QED
      BY <2>3, <2>4 DEF RevisionsInit, RevisionsInv
<1>2. RevisionsInv /\ [RevisionsNext]_revisionVars => RevisionsInv'
  <2> SUFFICES ASSUME RevisionsInv, [RevisionsNext]_revisionVars
               PROVE  RevisionsInv'
      OBVIOUS
  <2> USE DEF Fails, Stage
  <2>1. CASE BodyCacheAges
    <3>1. PICK row \in bodyCache : bodyCache' = {[row EXCEPT !.fresh = FALSE]}
        BY <2>1 DEF BodyCacheAges
    <3>2. row \in [payload : Payload, fresh : BOOLEAN]
        BY DEF RevisionsInv
    <3>3. bodyCache' \in SUBSET [payload : Payload, fresh : BOOLEAN]
          /\ \A new \in bodyCache' : new.payload = row.payload
        BY <3>1, <3>2
    <3>4. \A a \in Answers' : a \in Answers
        BY <2>1, <3>3 DEF BodyCacheAges, Answers
    <3> QED
        BY <2>1, <3>3, <3>4 DEF BodyCacheAges, RevisionsInv
  <2>2. CASE Publish
    <3>1. PICK patch \in Patch, suffix \in Suffix :
              edits' = Append(edits, [patch |-> patch, suffix |-> suffix])
        BY <2>2 DEF Publish
    <3> DEFINE e == [patch |-> patch, suffix |-> suffix]
    <3>2. e \in Edit /\ edits \in Seq(Edit)
        BY DEF Edit, RevisionsInv
    <3>3. edits' = Append(edits, e)
        BY <3>1
    <3> HIDE DEF e
    <3>4. edits' \in Seq(Edit)
        BY <3>2, <3>3
    <3>5. \A a \in Answers : Linked(a.revisions, edits')
        BY <3>2, <3>3, LinkedGrows DEF RevisionsInv
    <3>6. Answers' = Answers
        BY <2>2 DEF Publish, Answers
    <3> QED
        BY <2>2, <3>4, <3>5, <3>6 DEF Publish, RevisionsInv
  <2>3. ASSUME NEW c \in Reader,
               \/ LoadBodyCache(c) \/ GetPaperRevisions(c) \/ GetBodyRevisionCount(c)
               \/ FetchVersions(c) \/ ExtractRaises(c) \/ StoreBodyCache(c)
        PROVE  RevisionsInv'
    <3>1. /\ NoAnswer \in Payload /\ Linked(NoAnswer.revisions, edits)
          /\ reading[c].answer \in Payload /\ Linked(reading[c].answer.revisions, edits)
          /\ edits \in Seq(Edit)
        BY NothingLinked DEF RevisionsInv, Answers, Call
    <3>2. CASE LoadBodyCache(c)
      <4>1. UNCHANGED <<edits, bodyCache>>
          BY <3>2 DEF LoadBodyCache
      <4>2. CASE Advance(c, "new", "edits", NoAnswer)
          BY <3>1, <4>1, <4>2, CallSteps
      <4>3. CASE \E row \in bodyCache : Advance(c, "new", "done", row.payload)
        <5>1. PICK row \in bodyCache : Advance(c, "new", "done", row.payload)
            BY <4>3
        <5>2. row.payload \in Payload /\ Linked(row.payload.revisions, edits)
            BY DEF RevisionsInv, Answers
        <5> QED
            BY <4>1, <5>1, <5>2, CallSteps
      <4> QED
          BY <3>2, <4>2, <4>3 DEF LoadBodyCache
    <3>3. CASE GetPaperRevisions(c)
      <4> DEFINE seen == [supported |-> TRUE, revisions |-> BuildRevisions(edits)]
      <4>1. seen \in Payload /\ Linked(seen.revisions, edits)
          BY <3>1, BuiltLinked DEF Payload
      <4>2. UNCHANGED <<edits, bodyCache>>
          BY <3>3 DEF GetPaperRevisions
      <4>3. \/ \E to \in {"store", "pdfs"} : Advance(c, "edits", to, seen)
            \/ Advance(c, "edits", "store", NoAnswer)
          BY <3>3 DEF GetPaperRevisions
      <4> HIDE DEF seen
      <4> QED
          BY <3>1, <4>1, <4>2, <4>3, CallSteps
    <3>4. CASE GetBodyRevisionCount(c)
      <4>1. CountBodyRevisions(BuildRevisions(edits)) \in Int /\ Unknown \in Int
          BY <3>1, BuiltLinked DEF Unknown
      <4>2. /\ UNCHANGED <<edits, bodyCache>>
            /\ Counted(c, CountBodyRevisions(BuildRevisions(edits))) \/ Counted(c, Unknown)
          BY <3>4 DEF GetBodyRevisionCount
      <4> QED
          BY <4>1, <4>2, CountSteps
    <3>5. CASE FetchVersions(c)
      <4>1. PICK read : /\ None \notin read
                        /\ Advance(c, "pdfs", "store",
                             [reading[c].answer EXCEPT !.revisions = AttachBodyDiffs(@, read)])
        <5>1. None \notin PdfUrls(reading[c].answer.revisions)
            BY DEF PdfUrls
        <5> QED
            BY <3>5, <5>1 DEF FetchVersions
      <4>2. UNCHANGED <<edits, bodyCache>>
          BY <3>5 DEF FetchVersions
      <4> DEFINE old == reading[c].answer
                 new == AttachBodyDiffs(old.revisions, read)
                 answer == [old EXCEPT !.revisions = new]
      <4>3. old.revisions \in Seq(Revision) /\ old.supported \in BOOLEAN /\ old \in Payload
          BY <3>1 DEF Payload
      <4>4. new \in Seq(Revision) /\ Linked(new, edits)
          BY <3>1, <4>1, <4>3, AttachLinked
      <4>5. Advance(c, "pdfs", "store", answer)
          BY <4>1
      <4> HIDE DEF old, new
      <4>6. answer \in Payload /\ answer.revisions = new
          BY <4>3, <4>4 DEF Payload
      <4> HIDE DEF answer
      <4> QED
          BY <4>2, <4>4, <4>5, <4>6, CallSteps
    <3>6. CASE ExtractRaises(c)
        BY <3>1, <3>6, CallSteps DEF ExtractRaises
    <3>7. CASE StoreBodyCache(c)
      <4>1. UNCHANGED edits /\ Advance(c, "store", "done", reading[c].answer)
          BY <3>7 DEF StoreBodyCache
      <4>2. \/ UNCHANGED bodyCache
            \/ \E fresh \in BOOLEAN : bodyCache' = {[payload |-> reading[c].answer, fresh |-> fresh]}
          BY <3>7 DEF StoreBodyCache
      <4> QED
          BY <3>1, <4>1, <4>2, CallSteps
    <3> QED
        BY <2>3, <3>2, <3>3, <3>4, <3>5, <3>6, <3>7
  <2>4. CASE UNCHANGED revisionVars
      BY <2>4 DEF RevisionsInv, Answers, revisionVars
  <2> QED
      BY <2>1, <2>2, <2>3, <2>4 DEF RevisionsNext
<1> QED
    BY <1>1, <1>2, PTL DEF RevisionsSpec

(* However often the file was replaced, taken away and put back, between    *)
(* patches of the title, under any readers, failures and cached answers:    *)
(* every link of every answer and of the cached row is that of the edit     *)
(* which carried the file, the replacements form a chain, and a body diff   *)
(* is between the two files of a replacement next to it, both with links.   *)
THEOREM FileLinksAreRight == RevisionsSpec => []FileLinksMatch
<1>1. ASSUME RevisionsInv, NEW a \in Answers, NEW i \in DOMAIN PdfChanges(a.revisions)
      PROVE  LET cs == PdfChanges(a.revisions)
             IN /\ Opens(cs[i].beforeUrl, cs[i].before)
                /\ Opens(cs[i].afterUrl, cs[i].after)
                /\ i > 1 => cs[i].before = cs[i - 1].after
  <2>1. a.revisions \in Seq(Revision) /\ Linked(a.revisions, edits)
      BY <1>1 DEF RevisionsInv, Answers, Payload, Call
  <2> DEFINE cs == PdfChanges(a.revisions)
  <2>2. ServedBy(edits, cs[i]) /\ (i > 1 => cs[i].before = cs[i - 1].after)
      BY <2>1, LinkedTells
  <2> HIDE DEF cs
  <2>3. /\ Opens(cs[i].beforeUrl, cs[i].before)
        /\ Opens(cs[i].afterUrl, cs[i].after)
      BY <2>2 DEF ServedBy, Carries, Opens, FileOf
  <2> QED
      BY <2>2, <2>3 DEF cs
<1>3. RevisionsInv => \A a \in Answers : BodiesOfFiles(a.revisions)
    BY DEF RevisionsInv, Linked
<1>2. RevisionsInv => FileLinksMatch
    BY <1>1, <1>3 DEF FileLinksMatch
<1> QED
    BY <1>2, RevisionsInvariance, PTL

-----------------------------------------------------------------------------
(* The order of the candidates, with a paper gone or not.                   *)

LEMMA FinalTyped ==
    ASSUME SearchInv, NEW d \in Range(Candidates)
    PROVE  d \in Doc /\ Final(d) \in Int
<1> DEFINE w == RankingWeights(bias)
           recency == RecencyScore(YearOf(d), MaxYear, w.halfLife)
<1>1. w.halfLife \in 2 .. 4 /\ w.similarity \in Nat /\ w.recency \in Nat /\ w.citation \in Nat
  <2>1. CASE bias = "recent"
      BY <2>1 DEF RankingWeights, Weights, BalancedWeights
  <2>2. CASE bias = "cited"
      BY <2>2 DEF RankingWeights, Weights, BalancedWeights
  <2>3. CASE bias \notin {"recent", "cited"}
      BY <2>3 DEF RankingWeights, Weights, BalancedWeights
  <2> QED
      BY <2>1, <2>2, <2>3
<1>2. d \in Doc /\ Similarity(d) \in Int
    BY CandidatesAreHits, SimilarityRange
<1>3. corpus[d].percentile \in -1 .. 100
    BY <1>2, RetrievalConstants DEF SearchInv, RetrievalConstants
<1>4. CitationOf(d) \in Int
    BY <1>3 DEF CitationOf, NEUTRAL_CITATION_PERCENTILE
<1>5. Halves(w.halfLife)
    BY <1>1, RetrievalConstants DEF RetrievalConstants
<1>6. LargerOf(MaxYear - YearOf(d), 0) \in DOMAIN Decay[w.halfLife]
  <2>1. CASE d \in gone
    <3>1. YearOf(d) = MaxYear /\ corpus[d].year \in Int
        BY <2>1, <1>2, RetrievalConstants DEF YearOf, There, SearchInv, RetrievalConstants
    <3>2. MaxYear \in Int
      <4>1. CASE Doc \subseteq gone
          BY <4>1 DEF MaxYear
      <4>2. CASE ~(Doc \subseteq gone)
          BY <4>2, GreatestYear
      <4> QED
          BY <4>1, <4>2
    <3>3. LargerOf(MaxYear - YearOf(d), 0) = 0 /\ corpus[d].year - corpus[d].year = 0
        BY <3>1, <3>2 DEF LargerOf
    <3> QED
        BY <1>2, <1>5, <3>1, <3>3 DEF Halves, SearchInv
  <2>2. CASE d \notin gone
    <3>1. PICK e \in Doc \ gone : MaxYear = corpus[e].year
        BY <1>2, <2>2, GreatestYear
    <3>2. MaxYear \in Int /\ corpus[d].year <= MaxYear
        BY <1>2, <2>2, GreatestYear
    <3>3. YearOf(d) = corpus[d].year /\ corpus[d].year \in Int
        BY <1>2, <2>2, RetrievalConstants DEF YearOf, There, SearchInv, RetrievalConstants
    <3>4. LargerOf(MaxYear - YearOf(d), 0) = corpus[e].year - corpus[d].year
        BY <3>1, <3>2, <3>3 DEF LargerOf
    <3> QED
        BY <1>2, <1>5, <3>1, <3>2, <3>4 DEF Halves, SearchInv
  <2> QED
      BY <2>1, <2>2
<1>7. recency \in Int
  <2> DEFINE h == w.halfLife
             a == LargerOf(MaxYear - YearOf(d), 0)
  <2>1. recency = Decay[h][a] /\ a \in DOMAIN Decay[h] /\ Halves(h)
      BY <1>5, <1>6 DEF RecencyScore
  <2> HIDE DEF h, a
  <2>2. Decay[h][a] \in 0 .. 1000
      BY <2>1 DEF Halves
  <2> QED
      BY <2>1, <2>2
<1>8. Final(d) = (w.similarity * Similarity(d) + w.recency * recency + w.citation * 10 * CitationOf(d)) \div 100
    BY DEF Final, WeightedScore, Similarity
<1> HIDE DEF w, recency
<1>9. /\ w.similarity * Similarity(d) \in Int /\ w.recency * recency \in Int
      /\ w.citation * 10 * CitationOf(d) \in Int
    BY <1>1, <1>2, <1>4, <1>7
<1>10. Final(d) \in Int
    BY <1>8, <1>9
<1> QED
    BY <1>2, <1>10

CandidateOrder == {p \in Doc \X Doc : Before(p[1], p[2])}

LEMMA RerankedProperties ==
    ASSUME SearchInv
    PROVE  /\ Reranked \in Seq(Doc) /\ Len(Reranked) \in Nat /\ DOMAIN Reranked = 1 .. Len(Reranked)
           /\ \A i \in DOMAIN Reranked : Reranked[i] \in Range(Candidates)
           /\ \A i, j \in DOMAIN Reranked : Reranked[i] = Reranked[j] => i = j
           /\ \A d \in Range(Candidates) : \E i \in DOMAIN Reranked : Reranked[i] = d
<1> DEFINE S == Range(Candidates)
<1>1. S \in SUBSET Doc /\ \A d \in S : Final(d) \in Int
    BY FinalTyped
<1>2. \A d \in S : RankIn(Candidates, d) \in DOMAIN Candidates /\ Candidates[RankIn(Candidates, d)] = d
    BY DEF RankIn, Range
<1>3. \A i \in DOMAIN Candidates : i \in Int
  <2> DEFINE K == {i \in DOMAIN texts : ~Contains(vectors, texts[i])}
  <2>1. K \in SUBSET DOMAIN texts /\ texts \in Seq(Doc) /\ vectors \in Seq(Doc)
      BY DEF SearchInv
  <2>2. Candidates = vectors \o Kept(texts, K)
      BY DEF Candidates
  <2> HIDE DEF K
  <2>3. Kept(texts, K) \in Seq(Doc)
      BY ONLY <2>1, KeptElements
  <2>4. DOMAIN Candidates = 1 .. Len(vectors) + Len(Kept(texts, K))
      BY <2>1, <2>2, <2>3, ConcatParts
  <2> QED
      BY <2>4
<1>4. \A c, d \in S : c # d => RankIn(Candidates, c) # RankIn(Candidates, d)
    BY <1>2
<1>5. \A c \in S : RankIn(Candidates, c) \in Int
    BY <1>2, <1>3
<1>6. \A c, d \in S : <<c, d>> \in CandidateOrder <=> Before(c, d)
    BY <1>1 DEF CandidateOrder
<1> HIDE DEF S
<1>7. \A c \in S : ~Before(c, c)
    BY <1>1, <1>5 DEF Before
<1>8. \A c, d \in S : c = d \/ Before(c, d) \/ Before(d, c)
    BY <1>1, <1>4, <1>5 DEF Before
<1>9. \A c, d, e \in S : Before(c, d) /\ Before(d, e) => Before(c, e)
    BY <1>1, <1>5 DEF Before
<1>10. StrictOrder(S, CandidateOrder)
    BY <1>6, <1>7, <1>8, <1>9 DEF StrictOrder
<1>11. IsFiniteSet(S)
    BY <1>1, FS_Subset, RetrievalConstants DEF RetrievalConstants
<1>12. Reranked = Enumerate(S, CandidateOrder)
    BY DEF Reranked, CandidateOrder, S
<1> DEFINE e == Enumerate(S, CandidateOrder)
<1>13. /\ Cardinality(S) \in Nat /\ DOMAIN e = 1 .. Cardinality(S)
       /\ e \in Seq(S) /\ Len(e) = Cardinality(S)
       /\ \A i, j \in DOMAIN e : e[i] = e[j] => i = j
       /\ \A x \in S : \E k \in DOMAIN e : e[k] = x
    BY ONLY <1>10, <1>11, EnumerateProperties
<1> HIDE DEF e
<1>14. e \in Seq(Doc) /\ \A i \in DOMAIN e : e[i] \in S
    BY <1>1, <1>13
<1> QED
    BY <1>12, <1>13, <1>14 DEF e, S

-----------------------------------------------------------------------------
(* The loop of PickWithoutDuplicates.                                       *)

LEMMA PickedUnfold ==
    ASSUME NEW docs \in Seq(Doc), NEW limit
    PROVE  /\ Picked(docs, limit)[0] = <<>>
           /\ \A n \in 1 .. Len(docs) :
                Picked(docs, limit)[n] = Placed(Picked(docs, limit)[n - 1], docs[n], limit)
<1> DEFINE Solves(h, n) ==
               h = [k \in 0 .. n |-> IF k = 0 THEN <<>> ELSE Placed(h[k - 1], docs[k], limit)]
           bad == {n \in Nat : \A h : ~Solves(h, n)}
<1>1. bad = {}
  <2> SUFFICES ASSUME bad # {}
               PROVE  FALSE
      OBVIOUS
  <2>1. PICK m \in bad : \A n \in bad : m <= n
    <3>1. bad \in SUBSET Nat
        OBVIOUS
    <3> HIDE DEF bad
    <3> QED
        BY <3>1, LeastNatural
  <2>2. CASE m = 0
    <3> DEFINE h == [k \in 0 .. 0 |-> <<>>]
    <3>1. Solves(h, 0)
        OBVIOUS
    <3> HIDE DEF h
    <3>2. 0 \notin bad
        BY <3>1
    <3> HIDE DEF bad
    <3> QED
        BY <2>1, <2>2, <3>2
  <2>3. CASE m > 0
    <3>1. m \in Nat /\ m - 1 \in Nat /\ m - 1 \notin bad
      <4>1. m \in Nat /\ m - 1 \in Nat /\ ~(m <= m - 1)
          BY <2>3
      <4> HIDE DEF bad
      <4> QED
          BY <2>1, <4>1
    <3>2. PICK g : Solves(g, m - 1)
        BY <3>1
    <3> DEFINE h == [k \in 0 .. m |-> IF k < m THEN g[k] ELSE Placed(g[m - 1], docs[m], limit)]
    <3>3. \A k \in 0 .. m - 1 : g[k] = IF k = 0 THEN <<>> ELSE Placed(g[k - 1], docs[k], limit)
        BY <3>2
    <3>4. ASSUME NEW k \in 0 .. m
          PROVE  h[k] = IF k = 0 THEN <<>> ELSE Placed(h[k - 1], docs[k], limit)
      <4>1. CASE k < m
        <5>1. k \in 0 .. m - 1 /\ h[k] = g[k] /\ (k # 0 => k - 1 \in 0 .. m /\ h[k - 1] = g[k - 1])
            BY <3>1, <4>1
        <5> QED
            BY <5>1, <3>3
      <4>2. CASE ~(k < m)
        <5>1. k = m /\ k # 0 /\ m - 1 \in 0 .. m /\ m - 1 < m
            BY <3>1, <2>3, <4>2
        <5>2. h[k] = Placed(g[m - 1], docs[m], limit) /\ h[m - 1] = g[m - 1]
            BY <5>1
        <5> QED
            BY <5>1, <5>2
      <4> QED
          BY <4>1, <4>2
    <3>5. Solves(h, m)
        BY <3>4
    <3> QED
        BY <2>1, <3>5
  <2> QED
      BY <2>1, <2>2, <2>3
<1>2. Len(docs) \in Nat
    OBVIOUS
<1>3. \E h : Solves(h, Len(docs))
    BY <1>1, <1>2
<1>4. Picked(docs, limit) = CHOOSE h : Solves(h, Len(docs))
    BY DEF Picked
<1>5. Solves(Picked(docs, limit), Len(docs))
    BY <1>3, <1>4
<1> QED
    BY <1>2, <1>5
(* The first n papers each have a twin among the best, with no fewer        *)
(* reviews.                                                                 *)
Represents(best, docs, n) == \A i \in 1 .. n : \E j \in DOMAIN best :
    KeyOf(best[j]) = KeyOf(docs[i]) /\ ReviewsOf(best[j]) >= ReviewsOf(docs[i])
KeysOf(docs, n) == {KeyOf(docs[i]) : i \in 1 .. n}
KeysDiffer(best) == \A i, j \in DOMAIN best : KeyOf(best[i]) = KeyOf(best[j]) => i = j

(* After n papers the best are of different keys, and stand for the first   *)
(* papers up to the one that filled the last place.                         *)
PickSound(docs, limit, n, best) ==
    /\ best \in Seq(Doc) /\ Len(best) <= limit
    /\ \A j \in DOMAIN best : \E i \in 1 .. n : best[j] = docs[i]
    /\ KeysDiffer(best)
    /\ \E m \in 0 .. n : /\ Represents(best, docs, m)
                         /\ IsFiniteSet(KeysOf(docs, m)) /\ Cardinality(KeysOf(docs, m)) = Len(best)
                         /\ Len(best) < limit => m = n

LEMMA ReviewsTyped ==
    ASSUME SearchInv, NEW d \in Doc
    PROVE  ReviewsOf(d) \in Nat
BY RetrievalConstants DEF SearchInv, RetrievalConstants, ReviewsOf

(* One more paper. *)
LEMMA PlacedSound ==
    ASSUME SearchInv, NEW docs \in Seq(Doc), NEW limit \in Nat, NEW n \in 1 .. Len(docs),
           NEW best, PickSound(docs, limit, n - 1, best)
    PROVE  PickSound(docs, limit, n, Placed(best, docs[n], limit))
<1> DEFINE d == docs[n]
           new == Placed(best, d, limit)
<1>1. /\ n \in Nat /\ n - 1 \in Nat /\ d \in Doc /\ \A i \in 1 .. n : docs[i] \in Doc
      /\ 1 .. n = (1 .. n - 1) \cup {n}
    OBVIOUS
<1>2. /\ best \in Seq(Doc) /\ Len(best) <= limit /\ Len(best) \in Nat /\ DOMAIN best = 1 .. Len(best)
      /\ \A j \in DOMAIN best : best[j] \in Doc
      /\ \A j \in DOMAIN best : \E i \in 1 .. n - 1 : best[j] = docs[i]
      /\ KeysDiffer(best)
    BY DEF PickSound
<1>3. PICK m \in 0 .. n - 1 : /\ Represents(best, docs, m)
                              /\ IsFiniteSet(KeysOf(docs, m)) /\ Cardinality(KeysOf(docs, m)) = Len(best)
                              /\ Len(best) < limit => m = n - 1
    BY DEF PickSound
<1>7. Len(best) # limit => m = n - 1
  <2>1. Len(best) \in Nat /\ Len(best) <= limit
      BY <1>2
  <2>2. Len(best) < limit => m = n - 1
      BY <1>3
  <2> QED
      BY <2>1, <2>2
<1>4. CASE Len(best) = limit
  <2>1. new = best /\ m \in 0 .. n
      BY <1>1, <1>3, <1>4 DEF Placed
  <2> HIDE DEF new
  <2> QED
      BY <1>1, <1>2, <1>3, <1>4, <2>1 DEF PickSound, new
<1>5. CASE Len(best) # limit /\ \A i \in DOMAIN best : KeyOf(best[i]) # KeyOf(d)
  <2>1. new = Append(best, d)
      BY <1>5 DEF Placed
  <2>2. m = n - 1
      BY <1>5, <1>7
  <2> HIDE DEF new, d
  <2>3. /\ new \in Seq(Doc) /\ Len(new) = Len(best) + 1 /\ Len(new) <= limit
        /\ DOMAIN new = DOMAIN best \cup {Len(new)} /\ Len(new) \notin DOMAIN best
        /\ new[Len(new)] = d /\ \A i \in DOMAIN best : new[i] = best[i]
    <3>1. d \in Doc /\ best \in Seq(Doc) /\ Len(best) \in Nat /\ DOMAIN best = 1 .. Len(best)
          /\ Len(best) <= limit /\ Len(best) # limit
        BY <1>1, <1>2, <1>5
    <3>2. /\ new \in Seq(Doc) /\ Len(new) = Len(best) + 1 /\ DOMAIN new = 1 .. Len(best) + 1
          /\ new[Len(best) + 1] = d /\ \A i \in 1 .. Len(best) : new[i] = best[i]
      <4>1. d \in Doc /\ best \in Seq(Doc)
          BY <3>1
      <4>2. Append(best, d) \in Seq(Doc) /\ Len(Append(best, d)) = Len(best) + 1
          BY ONLY <4>1
      <4>3. \A i \in 1 .. Len(best) + 1 : Append(best, d)[i] = IF i <= Len(best) THEN best[i] ELSE d
          BY ONLY <4>1
      <4> DEFINE k == Len(best)
      <4>4. /\ k \in Nat /\ new \in Seq(Doc) /\ Len(new) = k + 1
            /\ \A i \in 1 .. k + 1 : new[i] = IF i <= k THEN best[i] ELSE d
          BY <2>1, <3>1, <4>2, <4>3
      <4>8. k = Len(best)
          OBVIOUS
      <4> HIDE DEF k, new
      <4>5. DOMAIN new = 1 .. k + 1
          BY ONLY <4>4
      <4>6. k + 1 \in 1 .. k + 1 /\ ~(k + 1 <= k) /\ \A i \in 1 .. k : i \in 1 .. k + 1 /\ i <= k
          BY ONLY <4>4
      <4>7. new[k + 1] = d /\ \A i \in 1 .. k : new[i] = best[i]
          BY ONLY <4>4, <4>6
      <4> QED
          BY ONLY <4>4, <4>5, <4>7, <4>8
    <3>3. \A k \in Nat : /\ k <= limit /\ k # limit => k + 1 <= limit
                         /\ 1 .. k + 1 = 1 .. k \cup {k + 1} /\ k + 1 \notin 1 .. k
        OBVIOUS
    <3> DEFINE k == Len(best)
    <3>4. /\ k \in Nat /\ k <= limit /\ k # limit /\ DOMAIN best = 1 .. k
          /\ Len(new) = k + 1 /\ DOMAIN new = 1 .. k + 1 /\ new[k + 1] = d
          /\ \A i \in 1 .. k : new[i] = best[i]
        BY ONLY <3>1, <3>2
    <3>5. k = Len(best) /\ new \in Seq(Doc)
        BY <3>2
    <3> HIDE DEF k
    <3>6. k + 1 <= limit /\ 1 .. k + 1 = 1 .. k \cup {k + 1} /\ k + 1 \notin 1 .. k
        BY ONLY <3>3, <3>4
    <3> QED
        BY ONLY <3>4, <3>5, <3>6
  <2>4. \A j \in DOMAIN new : \E i \in 1 .. n : new[j] = docs[i]
      BY <1>1, <1>2, <2>3 DEF d
  <2>5. KeysDiffer(new)
      BY <1>2, <1>5, <2>3 DEF KeysDiffer
  <2>6. Represents(new, docs, n)
    <3>1. ASSUME NEW i \in 1 .. n - 1
          PROVE  \E j \in DOMAIN new : KeyOf(new[j]) = KeyOf(docs[i]) /\ ReviewsOf(new[j]) >= ReviewsOf(docs[i])
        BY <1>3, <2>2, <2>3 DEF Represents
    <3>2. ReviewsOf(d) \in Nat /\ docs[n] = d
        BY <1>1, ReviewsTyped DEF d
    <3>3. \E j \in DOMAIN new : KeyOf(new[j]) = KeyOf(docs[n]) /\ ReviewsOf(new[j]) >= ReviewsOf(docs[n])
        BY <2>3, <3>2
    <3> QED
        BY <1>1, <3>1, <3>3 DEF Represents
  <2>7. KeysOf(docs, n) = KeysOf(docs, m) \cup {KeyOf(d)} /\ KeyOf(d) \notin KeysOf(docs, m)
    <3>1. \A i \in 1 .. n - 1 : \E j \in DOMAIN best : KeyOf(best[j]) = KeyOf(docs[i])
        BY <1>3, <2>2 DEF Represents
    <3>2. KeysOf(docs, m) = {KeyOf(docs[i]) : i \in 1 .. n - 1}
        BY <2>2 DEF KeysOf
    <3> QED
        BY <1>1, <1>5, <3>1, <3>2 DEF KeysOf, d
  <2>8. /\ IsFiniteSet(KeysOf(docs, n)) /\ Cardinality(KeysOf(docs, n)) = Len(new)
    <3> DEFINE K == KeysOf(docs, m)
    <3>1. IsFiniteSet(K) /\ Cardinality(K) = Len(best) /\ KeyOf(d) \notin K /\ KeysOf(docs, n) = K \cup {KeyOf(d)}
        BY <1>3, <2>7
    <3> HIDE DEF K
    <3>2. IsFiniteSet(K \cup {KeyOf(d)}) /\ Cardinality(K \cup {KeyOf(d)}) = Cardinality(K) + 1
        BY <3>1, FS_AddElement
    <3> QED
        BY <2>3, <3>1, <3>2
  <2> QED
      BY <1>1, <2>3, <2>4, <2>5, <2>6, <2>8 DEF PickSound, new, d
<1>6. CASE Len(best) # limit /\ \E i \in DOMAIN best : KeyOf(best[i]) = KeyOf(d)
  <2> DEFINE better(i) == IF KeyOf(best[i]) = KeyOf(d) /\ ReviewsOf(d) > ReviewsOf(best[i]) THEN d ELSE best[i]
  <2>1. new = [i \in DOMAIN best |-> better(i)]
      BY <1>6 DEF Placed
  <2>2. m = n - 1
      BY <1>6, <1>7
  <2>3. PICK k \in DOMAIN best : KeyOf(best[k]) = KeyOf(d)
      BY <1>6
  <2>4. /\ ReviewsOf(d) \in Nat /\ \A i \in DOMAIN best : ReviewsOf(best[i]) \in Nat
      BY <1>1, <1>2, ReviewsTyped
  <2>5. \A i \in DOMAIN best : /\ better(i) \in Doc /\ KeyOf(better(i)) = KeyOf(best[i])
                               /\ ReviewsOf(better(i)) >= ReviewsOf(best[i])
                               /\ better(i) = d \/ better(i) = best[i]
                               /\ KeyOf(best[i]) = KeyOf(d) => ReviewsOf(better(i)) >= ReviewsOf(d)
    <3> TAKE i \in DOMAIN best
    <3>1. CASE KeyOf(best[i]) = KeyOf(d) /\ ReviewsOf(d) > ReviewsOf(best[i])
        BY <1>1, <2>4, <3>1
    <3>2. CASE ~(KeyOf(best[i]) = KeyOf(d) /\ ReviewsOf(d) > ReviewsOf(best[i]))
        BY <1>2, <2>4, <3>2
    <3> QED
        BY <3>1, <3>2
  <2> HIDE DEF new, better, d
  <2>6. /\ new \in Seq(Doc) /\ Len(new) = Len(best) /\ DOMAIN new = DOMAIN best
        /\ \A i \in DOMAIN best : new[i] = better(i)
    <3>1. new = [i \in 1 .. Len(best) |-> new[i]] /\ \A i \in 1 .. Len(best) : new[i] \in Doc
        BY <1>2, <2>1, <2>5
    <3> QED
        BY <1>2, <2>1, <3>1, ListOf
  <2>7. \A j \in DOMAIN new : \E i \in 1 .. n : new[j] = docs[i]
      BY <1>1, <1>2, <2>5, <2>6 DEF d
  <2>8. KeysDiffer(new)
      BY <1>2, <2>5, <2>6 DEF KeysDiffer
  <2>9. Represents(new, docs, n)
    <3>1. ASSUME NEW i \in 1 .. n - 1
          PROVE  \E j \in DOMAIN new : KeyOf(new[j]) = KeyOf(docs[i]) /\ ReviewsOf(new[j]) >= ReviewsOf(docs[i])
      <4>1. PICK j \in DOMAIN best : KeyOf(best[j]) = KeyOf(docs[i]) /\ ReviewsOf(best[j]) >= ReviewsOf(docs[i])
          BY <1>3, <2>2 DEF Represents
      <4>2. /\ ReviewsOf(best[j]) \in Nat /\ ReviewsOf(docs[i]) \in Nat /\ ReviewsOf(new[j]) \in Nat
            /\ ReviewsOf(new[j]) >= ReviewsOf(best[j])
        <5>1. best[j] \in Doc /\ docs[i] \in Doc /\ new[j] \in Doc
            BY <1>1, <1>2, <2>5, <2>6
        <5> QED
            BY <5>1, <2>5, <2>6, ReviewsTyped
      <4> QED
          BY <2>5, <2>6, <4>1, <4>2
    <3>2. docs[n] = d
        BY DEF d
    <3>3. \E j \in DOMAIN new : KeyOf(new[j]) = KeyOf(docs[n]) /\ ReviewsOf(new[j]) >= ReviewsOf(docs[n])
        BY <2>3, <2>5, <2>6, <3>2
    <3> QED
        BY <1>1, <3>1, <3>3 DEF Represents
  <2>10. KeysOf(docs, n) = KeysOf(docs, m)
    <3>1. PICK i \in 1 .. n - 1 : KeyOf(docs[i]) = KeyOf(d)
        BY <1>2, <2>3
    <3>2. KeysOf(docs, m) = {KeyOf(docs[l]) : l \in 1 .. n - 1}
        BY <2>2 DEF KeysOf
    <3> QED
        BY <1>1, <3>1, <3>2 DEF KeysOf, d
  <2> QED
      BY <1>1, <1>2, <1>3, <2>6, <2>7, <2>8, <2>9, <2>10 DEF PickSound, new, d
<1> QED
    BY <1>4, <1>5, <1>6

LEMMA PickedSound ==
    ASSUME SearchInv, NEW docs \in Seq(Doc), NEW limit \in Nat, NEW n \in 0 .. Len(docs)
    PROVE  PickSound(docs, limit, n, Picked(docs, limit)[n])
<1> DEFINE bad == {k \in 0 .. Len(docs) : ~PickSound(docs, limit, k, Picked(docs, limit)[k])}
<1> SUFFICES ASSUME bad # {}
             PROVE  FALSE
    OBVIOUS
<1>1. bad \in SUBSET Nat /\ Len(docs) \in Nat
    OBVIOUS
<1>2. \A k \in 0 .. Len(docs) : k \notin bad => PickSound(docs, limit, k, Picked(docs, limit)[k])
    OBVIOUS
<1>3. \A k \in bad : k \in 0 .. Len(docs) /\ ~PickSound(docs, limit, k, Picked(docs, limit)[k])
    OBVIOUS
<1> HIDE DEF bad
<1>4. PICK m \in bad : \A k \in bad : m <= k
    BY <1>1, LeastNatural
<1>5. CASE m = 0
  <2>1. Picked(docs, limit)[0] = <<>>
      BY PickedUnfold
  <2>2. Represents(<<>>, docs, 0) /\ KeysOf(docs, 0) = {} /\ KeysDiffer(<<>>)
      BY DEF Represents, KeysOf, KeysDiffer
  <2>3. IsFiniteSet(KeysOf(docs, 0)) /\ Cardinality(KeysOf(docs, 0)) = 0
      BY <2>2, FS_EmptySet
  <2>4. PickSound(docs, limit, 0, <<>>)
      BY <2>2, <2>3 DEF PickSound
  <2> QED
      BY <1>3, <1>4, <1>5, <2>1, <2>4
<1>6. CASE m # 0
  <2>1. m \in 1 .. Len(docs) /\ m - 1 \in 0 .. Len(docs) /\ ~(m <= m - 1)
      BY <1>1, <1>3, <1>4, <1>6
  <2>2. PickSound(docs, limit, m - 1, Picked(docs, limit)[m - 1])
      BY <1>2, <1>4, <2>1
  <2>3. Picked(docs, limit)[m] = Placed(Picked(docs, limit)[m - 1], docs[m], limit)
      BY <2>1, PickedUnfold
  <2>4. PickSound(docs, limit, m, Picked(docs, limit)[m])
      BY <2>1, <2>2, <2>3, PlacedSound
  <2> QED
      BY <1>3, <1>4, <2>4
<1> QED
    BY <1>5, <1>6

(* As long as nothing is gone: as many papers as there are keys or places,  *)
(* and every candidate before the cut has a twin among them.                *)
LEMMA PickedAll ==
    ASSUME SearchInv, gone = {}
    PROVE  LET best == PickWithoutDuplicates(Reranked, RERANK_CANDIDATES)
               S == Range(Candidates)
               Pos(d) == RankIn(Reranked, d)
           IN /\ Len(best) = SmallerOf(RERANK_CANDIDATES, Cardinality({corpus[d].key : d \in S}))
              /\ \A d \in S : \/ \E j \in DOMAIN best : /\ corpus[best[j]].key = corpus[d].key
                                                        /\ corpus[best[j]].reviews >= corpus[d].reviews
                              \/ \E e \in S : /\ Pos(e) < Pos(d)
                                              /\ Cardinality({corpus[c].key : c \in
                                                   {b \in S : Pos(b) <= Pos(e)}}) = RERANK_CANDIDATES
<1> DEFINE D == Reranked
           N == Len(D)
           limit == RERANK_CANDIDATES
           best == PickWithoutDuplicates(D, limit)
           S == Range(Candidates)
           Pos(d) == RankIn(D, d)
<1>1. /\ D \in Seq(Doc) /\ N \in Nat /\ DOMAIN D = 1 .. N
      /\ \A i \in DOMAIN D : D[i] \in S
      /\ \A i, j \in DOMAIN D : D[i] = D[j] => i = j
      /\ \A d \in S : \E i \in DOMAIN D : D[i] = d
    BY RerankedProperties
<1>2. limit \in Nat /\ limit # 0
    BY RetrievalConstants DEF RetrievalConstants
<1>3. best = Picked(D, limit)[N]
    BY DEF PickWithoutDuplicates
<1>4. \A d : KeyOf(d) = corpus[d].key /\ ReviewsOf(d) = corpus[d].reviews
    BY DEF KeyOf, ReviewsOf, There
<1> HIDE DEF D, S, limit, best
<1>5. \A i \in 1 .. N : Pos(D[i]) = i
    BY <1>1 DEF RankIn
<1>6. PickSound(D, limit, N, best)
    BY <1>1, <1>2, <1>3, PickedSound
<1>7. Len(best) \in Nat /\ Len(best) <= limit
    BY <1>6 DEF PickSound
<1>8. PICK m \in 0 .. N : /\ Represents(best, D, m)
                          /\ IsFiniteSet(KeysOf(D, m)) /\ Cardinality(KeysOf(D, m)) = Len(best)
                          /\ Len(best) < limit => m = N
    BY <1>6 DEF PickSound
<1>9. KeysOf(D, N) = {corpus[d].key : d \in S}
    BY <1>1, <1>4 DEF KeysOf
<1>10. IsFiniteSet(KeysOf(D, N))
  <2> DEFINE f == [i \in 1 .. N |-> KeyOf(D[i])]
  <2>1. f \in Surjection(1 .. N, KeysOf(D, N))
      BY DEF Surjection, KeysOf
  <2> HIDE DEF f
  <2> QED
      BY <1>1, <2>1, FS_Interval, FS_Surjection
<1>11. Cardinality(KeysOf(D, N)) \in Nat /\ Len(best) <= Cardinality(KeysOf(D, N))
  <2>1. KeysOf(D, m) \in SUBSET KeysOf(D, N)
      BY <1>1 DEF KeysOf
  <2> QED
      BY <1>8, <1>10, <2>1, FS_Subset, FS_CardinalityType
<1>12. Len(best) = SmallerOf(limit, Cardinality(KeysOf(D, N)))
  <2>1. Len(best) < limit => Len(best) = Cardinality(KeysOf(D, N))
      BY <1>8
  <2> DEFINE c == Cardinality(KeysOf(D, N))
             l == Len(best)
  <2>2. l \in Nat /\ c \in Nat /\ l <= c /\ l <= limit /\ (l < limit => l = c)
      BY <1>7, <1>11, <2>1
  <2> HIDE DEF c, l
  <2>3. l = SmallerOf(limit, c)
      BY <1>2, <2>2 DEF SmallerOf
  <2> QED
      BY <2>3 DEF c, l
<1>13. ASSUME NEW d \in S
       PROVE  \/ \E j \in DOMAIN best : /\ corpus[best[j]].key = corpus[d].key
                                        /\ corpus[best[j]].reviews >= corpus[d].reviews
              \/ \E e \in S : /\ Pos(e) < Pos(d)
                              /\ Cardinality({corpus[c].key : c \in {b \in S : Pos(b) <= Pos(e)}}) = limit
  <2>1. PICK i \in 1 .. N : D[i] = d
      BY <1>1
  <2>2. CASE i <= m
    <3>1. i \in 1 .. m
        BY <2>2
    <3> QED
        BY <1>4, <1>8, <2>1, <3>1 DEF Represents
  <2>3. CASE ~(i <= m)
    <3>1. Len(best) = limit
      <4>1. Len(best) < limit => m = N
          BY <1>8
      <4>2. m # N
        <5>1. N \in Nat
            BY <1>1
        <5> HIDE DEF N
        <5> QED
            BY <5>1, <2>3
      <4> QED
          BY <1>2, <1>7, <4>1, <4>2
    <3>2. m # 0
      <4>1. m = 0 => KeysOf(D, m) = {}
          BY DEF KeysOf
      <4> QED
          BY <1>2, <1>8, <3>1, <4>1, FS_EmptySet
    <3>3. m \in 1 .. N /\ i \in Nat /\ m < i
        BY <1>1, <2>3, <3>2
    <3> DEFINE e == D[m]
    <3>4. e \in S /\ Pos(e) = m /\ Pos(d) = i
        BY <1>1, <1>5, <2>1, <3>3
    <3>5. {corpus[c].key : c \in {b \in S : Pos(b) <= Pos(e)}} = KeysOf(D, m)
      <4> DEFINE near == {b \in S : Pos(b) <= Pos(e)}
      <4>1. ASSUME NEW b \in near
            PROVE  \E k \in 1 .. m : b = D[k]
        <5>1. PICK k \in 1 .. N : D[k] = b
            BY <1>1
        <5>2. Pos(b) = k
            BY <1>5, <5>1
        <5> QED
            BY <1>1, <3>4, <5>1, <5>2
      <4>2. ASSUME NEW k \in 1 .. m
            PROVE  D[k] \in near
        <5>1. k \in 1 .. N /\ k <= m
            BY <1>1, <3>3
        <5> QED
            BY <1>1, <1>5, <3>4, <5>1
      <4> HIDE DEF near
      <4>3. {corpus[c].key : c \in near} = KeysOf(D, m)
          BY <1>4, <4>1, <4>2 DEF KeysOf
      <4> QED
          BY <4>3 DEF near
    <3>6. Cardinality({corpus[c].key : c \in {b \in S : Pos(b) <= Pos(e)}}) = limit
        BY <1>8, <3>1, <3>5
    <3> HIDE DEF e
    <3> QED
        BY <3>3, <3>4, <3>6
  <2> QED
      BY <2>2, <2>3
<1> QED
    BY <1>9, <1>12, <1>13 DEF D, S, limit, best

(* The whole search: what both searches found has reviews; what was ranked  *)
(* is of different papers as far as it is there, and all that the loop      *)
(* picks as long as nothing went; what is returned is what is still there.  *)
TwinsInv ==
    /\ SearchInv
    /\ \A d \in Range(vectors) \cup Range(texts) : corpus[d].reviews > 0
    /\ stage \in {"fetch", "done"} =>
         /\ ranked \in Seq(Doc) /\ \A i \in DOMAIN ranked : corpus[ranked[i]].reviews > 0
         /\ \A i, j \in DOMAIN ranked :
              There(ranked[i]) /\ There(ranked[j]) /\ corpus[ranked[i]].key = corpus[ranked[j]].key => i = j
         /\ gone = {} => ranked = PickWithoutDuplicates(Reranked, RERANK_CANDIDATES)
    /\ stage = "done" =>
         LET there == Kept(ranked, {i \in DOMAIN ranked : There(ranked[i])})
         IN results = [i \in DOMAIN there |-> [doc |-> there[i], match |-> MatchType(there[i])]]

LEMMA AnswerHasReviews ==
    ASSUME SearchInv, NEW hits \in Seq(Doc), NEW limit \in Nat, NEW d \in Range(Answer(hits, limit))
    PROVE  corpus[d].reviews > 0
<1> DEFINE K == {i \in DOMAIN hits : There(hits[i]) /\ HasReviews(hits[i])}
           shown == Kept(hits, K)
           n == SmallerOf(limit, Len(shown))
<1>1. K \in SUBSET DOMAIN hits /\ \A k \in K : corpus[hits[k]].reviews > 0
    BY DEF HasReviews
<1>2. Answer(hits, limit) = SubSeq(shown, 1, n)
    BY DEF Answer
<1> HIDE DEF K
<1>3. shown \in Seq(Doc) /\ \A i \in DOMAIN shown : \E k \in K : shown[i] = hits[k]
    BY ONLY <1>1, KeptElements, hits \in Seq(Doc)
<1> HIDE DEF shown
<1>4. n \in Nat /\ n <= Len(shown)
    BY <1>3 DEF SmallerOf
<1> HIDE DEF n
<1>5. \A i \in DOMAIN SubSeq(shown, 1, n) : i \in DOMAIN shown /\ SubSeq(shown, 1, n)[i] = shown[i]
    BY <1>3, <1>4
<1>6. PICK i \in DOMAIN SubSeq(shown, 1, n) : d = SubSeq(shown, 1, n)[i]
    BY <1>2 DEF Range
<1>7. PICK k \in K : d = hits[k]
    BY <1>3, <1>5, <1>6
<1> QED
    BY <1>1, <1>7

(* Every candidate is in one of the answers. *)
LEMMA CandidateFound ==
    ASSUME SearchInv, NEW d \in Range(Candidates)
    PROVE  d \in Range(vectors) \cup Range(texts)
<1>1. Contains(vectors, d) \/ Contains(texts, d)
    BY CandidatesAreHits
<1> QED
    BY <1>1 DEF Contains, Range, SearchInv

LEMMA RankPicks ==
    ASSUME TwinsInv
    PROVE  LET best == PickWithoutDuplicates(Reranked, RERANK_CANDIDATES)
           IN /\ best \in Seq(Doc) /\ \A i \in DOMAIN best : corpus[best[i]].reviews > 0
              /\ \A i, j \in DOMAIN best :
                   There(best[i]) /\ There(best[j]) /\ corpus[best[i]].key = corpus[best[j]].key => i = j
<1> DEFINE D == Reranked
           best == PickWithoutDuplicates(D, RERANK_CANDIDATES)
<1>0. SearchInv /\ RERANK_CANDIDATES \in Nat
    BY RetrievalConstants DEF TwinsInv, RetrievalConstants
<1>1. /\ D \in Seq(Doc) /\ Len(D) \in Nat /\ DOMAIN D = 1 .. Len(D)
      /\ \A i \in DOMAIN D : D[i] \in Range(Candidates)
    BY <1>0, RerankedProperties
<1>2. best = Picked(D, RERANK_CANDIDATES)[Len(D)]
    BY DEF PickWithoutDuplicates
<1> HIDE DEF D, best
<1>3. PickSound(D, RERANK_CANDIDATES, Len(D), best)
    BY <1>0, <1>1, <1>2, PickedSound
<1>4. /\ best \in Seq(Doc) /\ KeysDiffer(best)
      /\ \A j \in DOMAIN best : \E i \in 1 .. Len(D) : best[j] = D[i]
    BY <1>3 DEF PickSound
<1>5. \A i \in DOMAIN best : corpus[best[i]].reviews > 0
    BY <1>0, <1>1, <1>4, CandidateFound DEF TwinsInv
<1>6. \A i, j \in DOMAIN best :
          There(best[i]) /\ There(best[j]) /\ corpus[best[i]].key = corpus[best[j]].key => i = j
    BY <1>4 DEF KeysDiffer, KeyOf
<1> QED
    BY <1>4, <1>5, <1>6 DEF best, D

(* The ranking reads nothing else. *)
LEMMA RankingReads ==
    ASSUME UNCHANGED <<corpus, gone, bias, vectors, texts>>
    PROVE  /\ PickWithoutDuplicates(Reranked, RERANK_CANDIDATES)' = PickWithoutDuplicates(Reranked, RERANK_CANDIDATES)
           /\ \A d : There(d)' = There(d) /\ MatchType(d)' = MatchType(d)
<1>1. \A d : There(d)' = There(d) /\ MatchType(d)' = MatchType(d)
    BY DEF There, MatchType
<1>2. Reranked' = Reranked
  BY DEF Reranked, Candidates, Before, Final, RrfFuse, MaxRrf, MaxYear, YearOf, CitationOf, There, RankIn, RecencyScore
<1>3. PickWithoutDuplicates(Reranked, RERANK_CANDIDATES)' = PickWithoutDuplicates(Reranked, RERANK_CANDIDATES)
  BY <1>2 DEF PickWithoutDuplicates, Picked, Placed, KeyOf, ReviewsOf, There
<1> QED
    BY <1>1, <1>3

LEMMA TwinsSteps == TwinsInv /\ [RetrievalNext]_retrievalVars => TwinsInv'
<1> SUFFICES ASSUME TwinsInv, [RetrievalNext]_retrievalVars
             PROVE  TwinsInv'
    OBVIOUS
<1>1. SearchInv /\ SearchInv'
    BY SearchInvariance DEF TwinsInv
<1>2. CASE SearchVectors
  <2>1. PICK hits \in VectorHits : vectors' = VectorSearch(hits, CANDIDATE_POOL)
      BY <1>2 DEF SearchVectors
  <2> DEFINE limit == SmallerOf(CANDIDATE_POOL, EfSearchFor(CANDIDATE_POOL))
  <2>2. hits \in Seq(Doc) /\ limit \in Nat
      BY RetrievalConstants DEF RetrievalConstants, SmallerOf, EfSearchFor, LargerOf
  <2>3. vectors' = Answer(hits, limit)
      BY <2>1 DEF VectorSearch
  <2> HIDE DEF limit
  <2>4. \A d \in Range(vectors') : corpus[d].reviews > 0
      BY <1>1, <2>2, <2>3, AnswerHasReviews
  <2> QED
      BY <1>1, <1>2, <2>4 DEF TwinsInv, SearchVectors
<1>3. CASE SearchText
  <2>1. PICK hits \in TextHits : texts' = Answer(hits, CANDIDATE_POOL)
      BY <1>3 DEF SearchText
  <2>2. hits \in Seq(Doc) /\ CANDIDATE_POOL \in Nat
      BY RetrievalConstants DEF RetrievalConstants
  <2>4. \A d \in Range(texts') : corpus[d].reviews > 0
      BY <1>1, <2>1, <2>2, AnswerHasReviews
  <2> QED
      BY <1>1, <1>3, <2>4 DEF TwinsInv, SearchText
<1>4. CASE Rank
  <2>1. /\ ranked' = PickWithoutDuplicates(Reranked, RERANK_CANDIDATES) /\ stage' = "fetch"
        /\ UNCHANGED <<corpus, gone, bias, vectors, texts>>
      BY <1>4 DEF Rank
  <2>2. ranked' = PickWithoutDuplicates(Reranked, RERANK_CANDIDATES)' /\ \A d : There(d)' = There(d)
      BY <2>1, RankingReads
  <2>3. /\ ranked' \in Seq(Doc) /\ \A i \in DOMAIN ranked' : corpus[ranked'[i]].reviews > 0
        /\ \A i, j \in DOMAIN ranked' :
             There(ranked'[i]) /\ There(ranked'[j]) /\ corpus[ranked'[i]].key = corpus[ranked'[j]].key => i = j
      BY <2>1, RankPicks
  <2> QED
      BY <1>1, <2>1, <2>2, <2>3 DEF TwinsInv, There
<1>5. CASE FetchMetadata
  <2>1. /\ UNCHANGED <<corpus, gone, bias, vectors, texts, ranked>> /\ stage = "fetch" /\ stage' = "done"
        /\ results' = LET there == Kept(ranked, {i \in DOMAIN ranked : There(ranked[i])})
                      IN [i \in DOMAIN there |-> [doc |-> there[i], match |-> MatchType(there[i])]]
      BY <1>5 DEF FetchMetadata
  <2>2. /\ PickWithoutDuplicates(Reranked, RERANK_CANDIDATES)' = PickWithoutDuplicates(Reranked, RERANK_CANDIDATES)
        /\ \A d : There(d)' = There(d) /\ MatchType(d)' = MatchType(d)
      BY <2>1, RankingReads
  <2>3. (LET there == Kept(ranked, {i \in DOMAIN ranked : There(ranked[i])})
         IN results = [i \in DOMAIN there |-> [doc |-> there[i], match |-> MatchType(there[i])]])'
      BY <2>1 DEF There, MatchType
  <2> QED
      BY <1>1, <2>1, <2>2, <2>3 DEF TwinsInv, There
<1>6. CASE Vanish
  <2>1. /\ UNCHANGED <<stage, corpus, bias, vectors, texts, ranked, results>> /\ stage # "done" /\ gone = {}
        /\ \E d \in Doc : gone' = {d}
      BY <1>6 DEF Vanish
  <2>2. gone' # {} /\ \A d : There(d)
      BY <2>1 DEF There
  <2> QED
      BY <1>1, <2>1, <2>2 DEF TwinsInv, There
<1>7. CASE UNCHANGED retrievalVars
  <2>1. UNCHANGED <<stage, corpus, gone, bias, vectors, texts, ranked, results>>
      BY <1>7 DEF retrievalVars
  <2>2. /\ PickWithoutDuplicates(Reranked, RERANK_CANDIDATES)' = PickWithoutDuplicates(Reranked, RERANK_CANDIDATES)
        /\ \A d : There(d)' = There(d) /\ MatchType(d)' = MatchType(d)
      BY <2>1, RankingReads
  <2> QED
      BY <1>1, <2>1, <2>2 DEF TwinsInv, There, MatchType
<1> QED
    BY <1>2, <1>3, <1>4, <1>5, <1>6, <1>7 DEF RetrievalNext

LEMMA FoldedInTheEnd ==
    ASSUME TwinsInv, stage = "done"
    PROVE  TwinsFolded
<1> DEFINE K == {i \in DOMAIN ranked : There(ranked[i])}
           there == Kept(ranked, K)
<1>1. /\ ranked \in Seq(Doc) /\ \A i \in DOMAIN ranked : corpus[ranked[i]].reviews > 0
      /\ \A i, j \in DOMAIN ranked :
           There(ranked[i]) /\ There(ranked[j]) /\ corpus[ranked[i]].key = corpus[ranked[j]].key => i = j
      /\ gone = {} => ranked = PickWithoutDuplicates(Reranked, RERANK_CANDIDATES)
      /\ results = [i \in DOMAIN there |-> [doc |-> there[i], match |-> MatchType(there[i])]]
    BY DEF TwinsInv
<1>2. K \in SUBSET DOMAIN ranked /\ \A k \in K : There(ranked[k])
    OBVIOUS
<1>3. gone = {} => K = DOMAIN ranked
    BY DEF There
<1>4. ranked \in Seq(Doc) /\ K \in SUBSET DOMAIN ranked
    BY <1>1, <1>2
<1> HIDE DEF K
<1>5. PICK p : KeptBy(ranked, K, p)
    BY ONLY <1>4, KeptHasPlaces
<1>6. /\ p \in [DOMAIN there -> K]
      /\ \A i \in DOMAIN there : there[i] = ranked[p[i]]
      /\ \A i, j \in DOMAIN there : i < j => p[i] < p[j]
      /\ \A k \in K : \E i \in DOMAIN there : p[i] = k
    BY <1>5 DEF KeptBy
<1>7. there \in Seq(Doc) /\ Len(there) = Cardinality(K)
    BY ONLY <1>4, KeptProperties
<1> HIDE DEF there
<1>8. DOMAIN results = DOMAIN there /\ \A i \in DOMAIN there : results[i].doc = ranked[p[i]]
    BY <1>1, <1>6
<1>9. \A i, j \in DOMAIN there : p[i] = p[j] => i = j
  <2>1. \A i \in DOMAIN there : i \in Int /\ p[i] \in Int
      BY <1>1, <1>2, <1>6, <1>7
  <2> QED
      BY <1>6, <2>1
<1>10. \A i, j \in DOMAIN results :
         corpus[results[i].doc].key = corpus[results[j].doc].key => i = j
    BY <1>1, <1>2, <1>6, <1>8, <1>9
<1>11. \A d \in Docs(results) : There(d) /\ corpus[d].reviews > 0
    BY <1>1, <1>2, <1>6, <1>8 DEF Docs
<1> DEFINE best == PickWithoutDuplicates(Reranked, RERANK_CANDIDATES)
           S == Range(Candidates)
           Pos(d) == RankIn(Reranked, d)
           Beyond(d) == \E e \in S : /\ Pos(e) < Pos(d)
                                     /\ Cardinality({corpus[c].key : c \in {b \in S : Pos(b) <= Pos(e)}})
                                          = RERANK_CANDIDATES
<1>12. ASSUME gone = {}
       PROVE  /\ Len(results) = SmallerOf(RERANK_CANDIDATES, Cardinality({corpus[d].key : d \in S}))
              /\ \A d \in S : ~Beyond(d) => \E e \in Docs(results) :
                   corpus[e].key = corpus[d].key /\ corpus[e].reviews >= corpus[d].reviews
  <2>1. SearchInv
      BY DEF TwinsInv
  <2>2. /\ Len(best) = SmallerOf(RERANK_CANDIDATES, Cardinality({corpus[d].key : d \in S}))
        /\ \A d \in S : \/ \E j \in DOMAIN best : /\ corpus[best[j]].key = corpus[d].key
                                                  /\ corpus[best[j]].reviews >= corpus[d].reviews
                        \/ Beyond(d)
      BY <1>12, <2>1, PickedAll
  <2>3. ranked = best /\ K = DOMAIN ranked /\ K = 1 .. Len(ranked) /\ Len(ranked) \in Nat
      BY <1>1, <1>3, <1>12
  <2> HIDE DEF best, S, Beyond
  <2>4. Len(results) = Len(best)
    <3>1. Cardinality(1 .. Len(ranked)) = Len(ranked)
        BY <2>3, FS_Interval
    <3>2. results \in Seq({results[i] : i \in DOMAIN results}) /\ Len(results) = Len(there)
        BY <1>1, <1>7
    <3> QED
        BY <1>7, <2>3, <3>1, <3>2
  <2>5. \A j \in DOMAIN best : best[j] \in Docs(results)
    <3> TAKE j \in DOMAIN best
    <3>1. PICK i \in DOMAIN there : p[i] = j
        BY <1>6, <2>3
    <3> QED
        BY <1>8, <2>3, <3>1 DEF Docs
  <2> QED
      BY <2>2, <2>4, <2>5
<1> QED
    BY <1>10, <1>11, <1>12 DEF TwinsFolded

(* However many twins the corpus has, wherever both searches rank them and  *)
(* whatever vanishes between the statements, the list handed on has no      *)
(* paper twice, only papers that are there and have reviews; if nothing     *)
(* vanished it is full, and of twins before the cut the better reviewed one *)
(* is in it (hybrid_search.py, _pick_without_duplicates).                   *)
THEOREM TwinsAreFolded == RetrievalSpec => []TwinsFolded
<1>1. RetrievalInit => TwinsInv
  <2> SUFFICES ASSUME RetrievalInit
               PROVE  TwinsInv
      OBVIOUS
  <2>1. SearchInv
      BY RetrievalConstants DEF RetrievalInit, SearchInv, RetrievalConstants
  <2>2. Range(vectors) = {} /\ Range(texts) = {}
      BY DEF RetrievalInit, Range
  <2> QED
      BY <2>1, <2>2 DEF TwinsInv, RetrievalInit
<1>2. TwinsInv => TwinsFolded
  <2>1. stage # "done" => TwinsFolded
      BY DEF TwinsFolded
  <2> QED
      BY <2>1, FoldedInTheEnd
<1> QED
    BY <1>1, <1>2, TwinsSteps, PTL DEF RetrievalSpec

-----------------------------------------------------------------------------
(* The schema of each revision of Migrations.tla, written out table by table. *)

While(r, first, last, S) == IF r \in first .. last THEN S ELSE {}
From(r, first, S) == While(r, first, HeadRev, S)

UsersAt(r) ==
    From(r, 1, Of("users", "key", {"user_id"}) \cup Of("users", "text", {"email", "nickname"})
               \cup Of("users", IF r < 2 THEN "ts" ELSE "tz", {"created_at", "updated_at"})
               \cup Of("users", IF r < 4 THEN "text" ELSE "text?", {"password_hash"}))
    \cup From(r, 3, Of("users", "int", {"token_version"}))
    \cup From(r, 4, Of("users", "text?", {"google_sub"})
                   \cup Of("users", "text", {"openreview_id"}))
    \cup From(r, 15, Of("users", "tz?", {"terms_agreed_at"})
                     \cup Of("users", "text?", {"terms_version", "privacy_version"}))
SubmissionsAt(r) ==
    From(r, 1, Of("submissions", "key", {"submission_id"}) \cup Of("submissions", "ref", {"user_id"})
               \cup Of("submissions", "text", {"title", "abstract"})
               \cup Of("submissions", "text?", {"field"})
               \cup Of("submissions", IF r < 2 THEN "ts" ELSE "tz", {"created_at"}))
    \cup While(r, 1, 11, Of("submissions", "text?", {"content"}))
    \cup From(r, 11, Of("submissions", "bytes?", {"pdf_bytes"})
                   \cup Of("submissions", "int?", {"page_count"}))
PredictionsAt(r) ==
    From(r, 1, Of("predictions", "key", {"prediction_id"}) \cup Of("predictions", "ref", {"submission_id"})
               \cup Of("predictions", "text", {"status", "explanation_source"})
               \cup Of("predictions", "json?", {"report"})
               \cup Of("predictions", "text?", {"confidence_level", "error"})
               \cup Of("predictions", "bool?", {"is_reliable"})
               \cup Of("predictions", IF r < 2 THEN "ts" ELSE "tz", {"created_at"})
               \cup Of("predictions", IF r < 2 THEN "ts?" ELSE "tz?", {"completed_at"}))
    \cup From(r, 14, Of("predictions", "json", {"progress"}))
MatchesAt(r) ==
    From(r, 1, Of("matches", "key", {"match_id"}) \cup Of("matches", "ref", {"prediction_id"})
               \cup Of("matches", "int", {"paper_id", "rank"})
               \cup Of("matches", "text", {"match_type"})
               \cup Of("matches", IF r < 2 THEN "ts" ELSE "tz", {"created_at"}))
    \cup From(r, 11, Of("matches", "bool", {"selected"}) \cup Of("matches", "int?", {"llm_rank"})
                     \cup Of("matches", "text?", {"selection_reason"}))
ProfilesAt(r) ==
    From(r, 5, Of("onboarding", "key", {"onboarding_id"}) \cup Of("onboarding", "ref?", {"user_id"})
               \cup Of("onboarding", "text?", {"user_type", "experience"})
               \cup Of("onboarding", "json", {"fields"})
               \cup Of("onboarding", IF r < 7 THEN "ts" ELSE "tz", {"created_at", "updated_at"})
               \cup Of("onboarding", IF r < 16 THEN "text?" ELSE "json", {"venue"}))
    \cup While(r, 5, 16, Of("onboarding", "text?", {"stage"})
                         \cup Of("onboarding", "json", {"purposes", "result_order"}))
    \cup From(r, 16, Of("onboarding", "text?", {"similarity_focus", "recency_bias"}))
ColumnsAt(r) == UsersAt(r) \cup SubmissionsAt(r) \cup PredictionsAt(r) \cup MatchesAt(r)
                \cup ProfilesAt(r) \cup From(r, 18, ShareModel)

Fields == {"cols", "idx", "corpus", "accounts", "runs"}

(* The step of each revision by its number. *)
LEMMA StepsOfRevisions ==
    ASSUME NEW d
    PROVE  /\ UpStep(1, d) = Up0001(d) /\ DownStep(1, d) = Down0001(d)
           /\ UpStep(2, d) = Up0002(d) /\ DownStep(2, d) = Down0002(d)
           /\ UpStep(3, d) = Up0003(d) /\ DownStep(3, d) = Down0003(d)
           /\ UpStep(4, d) = Up0004(d) /\ DownStep(4, d) = Down0004(d)
           /\ UpStep(5, d) = Up0005(d) /\ DownStep(5, d) = Down0005(d)
           /\ UpStep(6, d) = Up0006(d) /\ DownStep(6, d) = Down0006(d)
           /\ UpStep(7, d) = Up0007(d) /\ DownStep(7, d) = Down0007(d)
           /\ UpStep(8, d) = Up0008(d) /\ DownStep(8, d) = Down0008(d)
           /\ UpStep(9, d) = Up0009(d) /\ DownStep(9, d) = Down0009(d)
           /\ UpStep(10, d) = Up0010(d) /\ DownStep(10, d) = Down0010(d)
           /\ UpStep(11, d) = Up0011(d) /\ DownStep(11, d) = Down0011(d)
           /\ UpStep(12, d) = Up0012(d) /\ DownStep(12, d) = Down0012(d)
           /\ UpStep(13, d) = Up0013(d) /\ DownStep(13, d) = Down0013(d)
           /\ UpStep(14, d) = Up0014(d) /\ DownStep(14, d) = Down0014(d)
           /\ UpStep(15, d) = Up0015(d) /\ DownStep(15, d) = Down0015(d)
           /\ UpStep(16, d) = Up0016(d) /\ DownStep(16, d) = Down0016(d)
           /\ UpStep(17, d) = Up0017(d) /\ DownStep(17, d) = Down0017(d)
           /\ UpStep(18, d) = Up0018(d) /\ DownStep(18, d) = Down0018(d)
BY DEF UpStep, DownStep

(* What the three ways of changing columns do. *)
LEMMA RetypedUnion ==
    ASSUME NEW A, NEW B, NEW names, NEW to
    PROVE  Retyped(A \cup B, names, to) = Retyped(A, names, to) \cup Retyped(B, names, to)
BY DEF Retyped, Without, Named

LEMMA RetypedAll ==
    ASSUME NEW names, NEW to, NEW t, NEW k, NEW ns, \A n \in ns : <<t, n>> \in names
    PROVE  Retyped(Of(t, k, ns), names, to) = Of(t, to[k], ns)
<1> DEFINE old == Of(t, k, ns)
           new(c) == <<c[1], c[2], to[c[3]]>>
<1>1. \A n : new(<<t, n, k>>) = <<t, n, to[k]>>
    OBVIOUS
<1>2. {new(c) : c \in old} = {new(<<t, n, k>>) : n \in ns}
  <2> HIDE DEF new
  <2> QED
      BY DEF Of
<1>3. {new(<<t, n, k>>) : n \in ns} = Of(t, to[k], ns)
  <2> HIDE DEF new
  <2> QED
      BY <1>1 DEF Of
<1>4. Named(old, names) = old /\ Without(old, names) = {}
    BY DEF Named, Without, Of
<1> HIDE DEF old
<1>5. Retyped(old, names, to) = {new(c) : c \in old}
    BY <1>4 DEF Retyped
<1> QED
    BY <1>2, <1>3, <1>5 DEF old

LEMMA RetypedNone ==
    ASSUME NEW A, NEW names, NEW to, \A c \in A : <<c[1], c[2]>> \notin names
    PROVE  Retyped(A, names, to) = A
BY DEF Retyped, Without, Named

LEMMA RenamedOne ==
    ASSUME NEW A, NEW t, NEW old, NEW new, NEW k, \A c \in A : <<c[1], c[2]>> # <<t, old>>
    PROVE  Renamed(A \cup Of(t, k, {old}), t, old, new) = A \cup Of(t, k, {new})
<1> DEFINE cols == A \cup Of(t, k, {old})
           changed(c) == <<t, new, c[3]>>
<1>1. Of(t, k, {old}) = {<<t, old, k>>} /\ Of(t, k, {new}) = {<<t, new, k>>}
    BY DEF Of
<1>2. Named(cols, {<<t, old>>}) = {<<t, old, k>>} /\ Without(cols, {<<t, old>>}) = A
  <2> DEFINE key(c) == <<c[1], c[2]>>
  <2>1. key(<<t, old, k>>) = <<t, old>> /\ \A c \in A : key(c) # <<t, old>>
      OBVIOUS
  <2>2. Named(cols, {<<t, old>>}) = {c \in cols : key(c) = <<t, old>>}
      BY DEF Named
  <2> HIDE DEF key
  <2>3. {c \in cols : key(c) = <<t, old>>} = {<<t, old, k>>} /\ <<t, old, k>> \notin A
      BY <1>1, <2>1
  <2> QED
      BY <1>1, <2>2, <2>3 DEF Without
<1>3. changed(<<t, old, k>>) = <<t, new, k>>
    OBVIOUS
<1>4. {changed(c) : c \in {<<t, old, k>>}} = {changed(<<t, old, k>>)}
  <2> HIDE DEF changed
  <2> QED
      OBVIOUS
<1>5. {changed(c) : c \in {<<t, old, k>>}} = {<<t, new, k>>}
    BY ONLY <1>3, <1>4
<1> HIDE DEF cols
<1>6. Renamed(cols, t, old, new) = A \cup {<<t, new, k>>}
    BY <1>2, <1>5 DEF Renamed
<1> QED
    BY <1>1, <1>6 DEF cols

EmailKey == <<"users_email_key", "users", <<"email">>, "unique">>
RunsIndex == <<"review_predictions_submission", "predictions", <<"submission_id", "created_at">>, "plain">>
MatchIndex == <<"similar_paper_matches_prediction", "matches", <<"prediction_id", "rank">>, "plain">>
OldUserIndex == UserIndex(<<"user_id">>)
NewUserIndex == UserIndex(<<"user_id", "created_at">>)

IndexesAt(r) ==
    From(r, 1, {EmailKey, RunsIndex, MatchIndex})
    \cup While(r, 1, 1, {OldUserIndex}) \cup From(r, 2, {NewUserIndex, OneActiveIndex})
    \cup While(r, 1, 11, {PaperIndex}) \cup While(r, 11, 11, {Selected})
    \cup From(r, 4, {GoogleKey}) \cup From(r, 5, {ProfileKey}) \cup From(r, 6, {OridKey})
    \cup From(r, 18, ShareIndexes)

(* The names the drops go by. *)
LEMMA IndexNames ==
    /\ EmailKey[1] = "users_email_key" /\ EmailKey[2] = "users"
    /\ RunsIndex[1] = "review_predictions_submission" /\ RunsIndex[2] = "predictions"
    /\ MatchIndex[1] = "similar_paper_matches_prediction" /\ MatchIndex[2] = "matches"
    /\ OldUserIndex[1] = "submissions_user" /\ OldUserIndex[2] = "submissions"
    /\ NewUserIndex[1] = "submissions_user" /\ NewUserIndex[2] = "submissions"
    /\ OneActiveIndex[1] = "review_predictions_one_active" /\ OneActiveIndex[2] = "predictions"
    /\ PaperIndex[1] = "similar_paper_matches_paper" /\ PaperIndex[2] = "matches"
    /\ Selected[1] = "similar_paper_matches_selected" /\ Selected[2] = "matches"
    /\ GoogleKey[1] = "users_google_sub_key" /\ GoogleKey[2] = "users"
    /\ ProfileKey[1] = "onboarding_user_key" /\ ProfileKey[2] = "onboarding"
    /\ OridKey[1] = "users_openreview_id_key" /\ OridKey[2] = "users"
    /\ \A i \in ShareIndexes : i[1] \in {"submission_shares_token_key", "submission_shares_one_active"}
                                /\ i[2] = "shares"
BY
DEF EmailKey, RunsIndex, MatchIndex, OldUserIndex, NewUserIndex, UserIndex, OneActiveIndex,
    PaperIndex,
       Selected, GoogleKey, ProfileKey, OridKey, ShareIndexes

LEMMA FirstIndexes ==
    ASSUME NEW d, DOMAIN d = Fields
    PROVE  Up0001(d).idx = d.idx \cup {EmailKey, OldUserIndex, RunsIndex, MatchIndex, PaperIndex}
BY DEF Up0001, Fields, EmailKey, RunsIndex, MatchIndex, OldUserIndex, UserIndex, PaperIndex

(* An upgrade takes the indexes of one revision to those of the next, and a *)
(* downgrade takes them back.                                               *)
LEMMA IndexesUp ==
    ASSUME NEW d, DOMAIN d = Fields, NEW r \in 1 .. HeadRev, d.idx = IndexesAt(r - 1)
    PROVE  UpStep(r, d).idx = IndexesAt(r)
<1> USE IndexNames DEF Fields, HeadRev
<1>1. d.idx = IndexesAt(0) => Up0001(d).idx = IndexesAt(1)
    BY FirstIndexes DEF NoIndex, IndexesAt, From, While
<1>2. d.idx = IndexesAt(1) => Up0002(d).idx = IndexesAt(2)
    BY DEF Up0002, NoIndex, IndexesAt, From, While, OldUserIndex, NewUserIndex
<1>3. d.idx = IndexesAt(2) => Up0003(d).idx = IndexesAt(3)
    BY DEF Up0003, NoIndex, IndexesAt, From, While
<1>4. d.idx = IndexesAt(3) => Up0004(d).idx = IndexesAt(4)
    BY DEF Up0004, NoIndex, IndexesAt, From, While
<1>5. d.idx = IndexesAt(4) => Up0005(d).idx = IndexesAt(5)
    BY DEF Up0005, NoIndex, IndexesAt, From, While
<1>6. d.idx = IndexesAt(5) => Up0006(d).idx = IndexesAt(6)
    BY DEF Up0006, NoIndex, IndexesAt, From, While
<1>7. d.idx = IndexesAt(6) => Up0007(d).idx = IndexesAt(7)
    BY DEF Up0007, NoIndex, IndexesAt, From, While
<1>8. d.idx = IndexesAt(7) => Up0008(d).idx = IndexesAt(8)
    BY DEF Up0008, Guarded, NoIndex, IndexesAt, From, While
<1>9. d.idx = IndexesAt(8) => Up0009(d).idx = IndexesAt(9)
    BY DEF Up0009, Guarded, NoIndex, IndexesAt, From, While
<1>10. d.idx = IndexesAt(9) => Up0010(d).idx = IndexesAt(10)
    BY DEF Up0010, Guarded, NoIndex, IndexesAt, From, While
<1>11. d.idx = IndexesAt(10) => Up0011(d).idx = IndexesAt(11)
    BY DEF Up0011, NoIndex, IndexesAt, From, While
<1>12. d.idx = IndexesAt(11) => Up0012(d).idx = IndexesAt(12)
    BY DEF Up0012, Lost, NoIndex, IndexesAt, From, While
<1>13. d.idx = IndexesAt(12) => Up0013(d).idx = IndexesAt(13)
    BY DEF Up0013, Guarded, NoIndex, IndexesAt, From, While
<1>14. d.idx = IndexesAt(13) => Up0014(d).idx = IndexesAt(14)
    BY DEF Up0014, NoIndex, IndexesAt, From, While
<1>15. d.idx = IndexesAt(14) => Up0015(d).idx = IndexesAt(15)
    BY DEF Up0015, NoIndex, IndexesAt, From, While
<1>16. d.idx = IndexesAt(15) => Up0016(d).idx = IndexesAt(16)
    BY DEF Up0016, NoIndex, IndexesAt, From, While
<1>17. d.idx = IndexesAt(16) => Up0017(d).idx = IndexesAt(17)
    BY DEF Up0017, NoIndex, IndexesAt, From, While
<1>18. d.idx = IndexesAt(17) => Up0018(d).idx = IndexesAt(18)
    BY DEF Up0018, NoIndex, IndexesAt, From, While
<1> QED
    BY StepsOfRevisions, <1>1, <1>2, <1>3, <1>4, <1>5, <1>6, <1>7, <1>8, <1>9, <1>10, <1>11, <1>12,
       <1>13, <1>14, <1>15, <1>16, <1>17, <1>18

LEMMA IndexesDown ==
    ASSUME NEW d, DOMAIN d = Fields, NEW r \in 1 .. HeadRev, d.idx = IndexesAt(r)
    PROVE  DownStep(r, d).idx = IndexesAt(r - 1)
<1> USE IndexNames DEF Fields, HeadRev
<1>1. d.idx = IndexesAt(1) => Down0001(d).idx = IndexesAt(0)
    BY DEF Down0001, NoIndex, IndexesAt, From, While
<1>2. d.idx = IndexesAt(2) => Down0002(d).idx = IndexesAt(1)
    BY DEF Down0002, NoIndex, IndexesAt, From, While, OldUserIndex, NewUserIndex
<1>3. d.idx = IndexesAt(3) => Down0003(d).idx = IndexesAt(2)
    BY DEF Down0003, NoIndex, IndexesAt, From, While
<1>4. d.idx = IndexesAt(4) => Down0004(d).idx = IndexesAt(3)
    BY DEF Down0004, NoIndex, IndexesAt, From, While
<1>5. d.idx = IndexesAt(5) => Down0005(d).idx = IndexesAt(4)
    BY DEF Down0005, NoIndex, IndexesAt, From, While
<1>6. d.idx = IndexesAt(6) => Down0006(d).idx = IndexesAt(5)
    BY DEF Down0006, NoIndex, IndexesAt, From, While
<1>7. d.idx = IndexesAt(7) => Down0007(d).idx = IndexesAt(6)
    BY DEF Down0007, NoIndex, IndexesAt, From, While
<1>8. d.idx = IndexesAt(8) => Down0008(d).idx = IndexesAt(7)
    BY DEF Down0008, Lost, NoIndex, IndexesAt, From, While
<1>9. d.idx = IndexesAt(9) => Down0009(d).idx = IndexesAt(8)
    BY DEF Down0009, Lost, NoIndex, IndexesAt, From, While
<1>10. d.idx = IndexesAt(10) => Down0010(d).idx = IndexesAt(9)
    BY DEF Down0010, Lost, NoIndex, IndexesAt, From, While
<1>11. d.idx = IndexesAt(11) => Down0011(d).idx = IndexesAt(10)
    BY DEF Down0011, NoIndex, IndexesAt, From, While
<1>12. d.idx = IndexesAt(12) => Down0012(d).idx = IndexesAt(11)
    BY DEF Down0012, Guarded, NoIndex, IndexesAt, From, While
<1>13. d.idx = IndexesAt(13) => Down0013(d).idx = IndexesAt(12)
    BY DEF Down0013, Lost, NoIndex, IndexesAt, From, While
<1>14. d.idx = IndexesAt(14) => Down0014(d).idx = IndexesAt(13)
    BY DEF Down0014, NoIndex, IndexesAt, From, While
<1>15. d.idx = IndexesAt(15) => Down0015(d).idx = IndexesAt(14)
    BY DEF Down0015, NoIndex, IndexesAt, From, While
<1>16. d.idx = IndexesAt(16) => Down0016(d).idx = IndexesAt(15)
    BY DEF Down0016, NoIndex, IndexesAt, From, While
<1>17. d.idx = IndexesAt(17) => Down0017(d).idx = IndexesAt(16)
    BY DEF Down0017, NoIndex, IndexesAt, From, While
<1>18. d.idx = IndexesAt(18) => Down0018(d).idx = IndexesAt(17)
    BY DEF Down0018, NoIndex, IndexesAt, From, While
<1> QED
    BY StepsOfRevisions, <1>1, <1>2, <1>3, <1>4, <1>5, <1>6, <1>7, <1>8, <1>9, <1>10, <1>11, <1>12,
       <1>13, <1>14, <1>15, <1>16, <1>17, <1>18
-----------------------------------------------------------------------------
(* The same of the columns: what is added, dropped, retyped and renamed.    *)
LEMMA ColumnsUp ==
    ASSUME NEW d, DOMAIN d = Fields, NEW r \in 1 .. HeadRev, d.cols = ColumnsAt(r - 1)
    PROVE  UpStep(r, d).cols = ColumnsAt(r)
<1> USE DEF Fields, HeadRev
<1>1. d.cols = ColumnsAt(0) => Up0001(d).cols = ColumnsAt(1)
    BY
    DEF Up0001, Without, Named, ColumnsAt, UsersAt, SubmissionsAt, PredictionsAt, MatchesAt,
        ProfilesAt, ShareModel, From, While, Of
<1>2. d.cols = ColumnsAt(1) => Up0002(d).cols = ColumnsAt(2)
  <2> DEFINE rest == Without(ColumnsAt(1), Tz0002)
             timed == Of("users", "ts", {"created_at", "updated_at"})
                 \cup Of("submissions", "ts", {"created_at"})
                 \cup Of("predictions", "ts", {"created_at"})
                 \cup Of("predictions", "ts?", {"completed_at"})
                 \cup Of("matches", "ts", {"created_at"})
             now == Of("users", "tz", {"created_at", "updated_at"})
                 \cup Of("submissions", "tz", {"created_at"})
                 \cup Of("predictions", "tz", {"created_at"})
                 \cup Of("predictions", "tz?", {"completed_at"})
                 \cup Of("matches", "tz", {"created_at"})
  <2>1. ColumnsAt(1) = rest \cup timed /\ rest \cup now = ColumnsAt(2)
      BY
      DEF Tz0002, Without, Named, ColumnsAt, UsersAt, SubmissionsAt, PredictionsAt, MatchesAt,
          ProfilesAt, ShareModel, From, While, Of
  <2>2. \A c \in rest : <<c[1], c[2]>> \notin Tz0002
      BY DEF Without, Named
  <2>3. Retyped(rest, Tz0002, Zoned) = rest
      BY <2>2, RetypedNone
  <2>4. Retyped(Of("users", "ts", {"created_at", "updated_at"}), Tz0002, Zoned)
        = Of("users", "tz", {"created_at", "updated_at"})
    <3>1. Zoned["ts"] = "tz" /\ \A n \in {"created_at", "updated_at"} : <<"users", n>> \in Tz0002
        BY DEF Zoned, Tz0002
    <3> QED
        BY <3>1, RetypedAll
  <2>5. Retyped(Of("submissions", "ts", {"created_at"}), Tz0002, Zoned)
        = Of("submissions", "tz", {"created_at"})
    <3>1. Zoned["ts"] = "tz" /\ \A n \in {"created_at"} : <<"submissions", n>> \in Tz0002
        BY DEF Zoned, Tz0002
    <3> QED
        BY <3>1, RetypedAll
  <2>6. Retyped(Of("predictions", "ts", {"created_at"}), Tz0002, Zoned)
        = Of("predictions", "tz", {"created_at"})
    <3>1. Zoned["ts"] = "tz" /\ \A n \in {"created_at"} : <<"predictions", n>> \in Tz0002
        BY DEF Zoned, Tz0002
    <3> QED
        BY <3>1, RetypedAll
  <2>7. Retyped(Of("predictions", "ts?", {"completed_at"}), Tz0002, Zoned)
        = Of("predictions", "tz?", {"completed_at"})
    <3>1. Zoned["ts?"] = "tz?" /\ \A n \in {"completed_at"} : <<"predictions", n>> \in Tz0002
        BY DEF Zoned, Tz0002
    <3> QED
        BY <3>1, RetypedAll
  <2>8. Retyped(Of("matches", "ts", {"created_at"}), Tz0002, Zoned)
        = Of("matches", "tz", {"created_at"})
    <3>1. Zoned["ts"] = "tz" /\ \A n \in {"created_at"} : <<"matches", n>> \in Tz0002
        BY DEF Zoned, Tz0002
    <3> QED
        BY <3>1, RetypedAll
  <2> HIDE DEF rest
  <2>9. Retyped(timed, Tz0002, Zoned) = now
    <3> DEFINE a == Of("users", "ts", {"created_at", "updated_at"})
               b == Of("submissions", "ts", {"created_at"})
               c == Of("predictions", "ts", {"created_at"})
               e == Of("predictions", "ts?", {"completed_at"})
               f == Of("matches", "ts", {"created_at"})
               R(x) == Retyped(x, Tz0002, Zoned)
    <3>1. \A x, y : R(x \cup y) = R(x) \cup R(y)
        BY RetypedUnion
    <3>2. timed = a \cup b \cup c \cup e \cup f /\ now = R(a) \cup R(b) \cup R(c) \cup R(e) \cup R(f)
        BY <2>4, <2>5, <2>6, <2>7, <2>8
    <3> HIDE DEF timed, now, a, b, c, e, f, R
    <3>3. R(a \cup b) = R(a) \cup R(b)
        BY ONLY <3>1
    <3>4. R(a \cup b \cup c) = R(a \cup b) \cup R(c)
        BY ONLY <3>1
    <3>5. R(a \cup b \cup c \cup e) = R(a \cup b \cup c) \cup R(e)
        BY ONLY <3>1
    <3>6. R(a \cup b \cup c \cup e \cup f) = R(a \cup b \cup c \cup e) \cup R(f)
        BY ONLY <3>1
    <3>7. R(timed) = now
        BY ONLY <3>2, <3>3, <3>4, <3>5, <3>6
    <3> QED
        BY <3>7 DEF R
  <2> HIDE DEF timed, now
  <2>10. Retyped(rest \cup timed, Tz0002, Zoned) = rest \cup now
      BY <2>3, <2>9, RetypedUnion
  <2> QED
      BY <2>1, <2>10 DEF Up0002
<1>3. d.cols = ColumnsAt(2) => Up0003(d).cols = ColumnsAt(3)
    BY
    DEF Up0003, Without, Named, ColumnsAt, UsersAt, SubmissionsAt, PredictionsAt, MatchesAt,
        ProfilesAt, ShareModel, From, While, Of
<1>4. d.cols = ColumnsAt(3) => Up0004(d).cols = ColumnsAt(4)
    BY
    DEF Up0004, Without, Named, ColumnsAt, UsersAt, SubmissionsAt, PredictionsAt, MatchesAt,
        ProfilesAt, ShareModel, From, While, Of
<1>5. d.cols = ColumnsAt(4) => Up0005(d).cols = ColumnsAt(5)
    BY
    DEF Up0005, Without, Named, ColumnsAt, UsersAt, SubmissionsAt, PredictionsAt, MatchesAt,
        ProfilesAt, ShareModel, From, While, Of
<1>6. d.cols = ColumnsAt(5) => Up0006(d).cols = ColumnsAt(6)
    BY
    DEF Up0006, Without, Named, ColumnsAt, UsersAt, SubmissionsAt, PredictionsAt, MatchesAt,
        ProfilesAt, ShareModel, From, While, Of
<1>7. d.cols = ColumnsAt(6) => Up0007(d).cols = ColumnsAt(7)
  <2> DEFINE rest == Without(ColumnsAt(6), Tz0007)
             timed == Of("onboarding", "ts", {"created_at", "updated_at"})
             now == Of("onboarding", "tz", {"created_at", "updated_at"})
  <2>1. ColumnsAt(6) = rest \cup timed /\ rest \cup now = ColumnsAt(7)
      BY
      DEF Tz0007, Without, Named, ColumnsAt, UsersAt, SubmissionsAt, PredictionsAt, MatchesAt,
          ProfilesAt, ShareModel, From, While, Of
  <2>2. \A c \in rest : <<c[1], c[2]>> \notin Tz0007
      BY DEF Without, Named
  <2>3. Retyped(rest, Tz0007, Zoned) = rest
      BY <2>2, RetypedNone
  <2>4. Retyped(Of("onboarding", "ts", {"created_at", "updated_at"}), Tz0007, Zoned)
        = Of("onboarding", "tz", {"created_at", "updated_at"})
    <3>1. Zoned["ts"] = "tz" /\ \A n \in {"created_at", "updated_at"} : <<"onboarding", n>> \in Tz0007
        BY DEF Zoned, Tz0007
    <3> QED
        BY <3>1, RetypedAll
  <2> HIDE DEF rest
  <2>5. Retyped(timed, Tz0007, Zoned) = now
      BY <2>4, RetypedUnion
  <2> HIDE DEF timed, now
  <2>6. Retyped(rest \cup timed, Tz0007, Zoned) = rest \cup now
      BY <2>3, <2>5, RetypedUnion
  <2> QED
      BY <2>1, <2>6 DEF Up0007
<1>8. d.cols = ColumnsAt(7) => Up0008(d).cols = ColumnsAt(8)
    BY
    DEF Up0008, Guarded, Without, Named, ColumnsAt, UsersAt, SubmissionsAt, PredictionsAt,
        MatchesAt, ProfilesAt, ShareModel, From, While, Of
<1>9. d.cols = ColumnsAt(8) => Up0009(d).cols = ColumnsAt(9)
    BY
    DEF Up0009, Guarded, Without, Named, ColumnsAt, UsersAt, SubmissionsAt, PredictionsAt,
        MatchesAt, ProfilesAt, ShareModel, From, While, Of
<1>10. d.cols = ColumnsAt(9) => Up0010(d).cols = ColumnsAt(10)
    BY
    DEF Up0010, Guarded, Without, Named, ColumnsAt, UsersAt, SubmissionsAt, PredictionsAt,
        MatchesAt, ProfilesAt, ShareModel, From, While, Of
<1>11. d.cols = ColumnsAt(10) => Up0011(d).cols = ColumnsAt(11)
    BY
    DEF Up0011, Without, Named, ColumnsAt, UsersAt, SubmissionsAt, PredictionsAt, MatchesAt,
        ProfilesAt, ShareModel, From, While, Of
<1>12. d.cols = ColumnsAt(11) => Up0012(d).cols = ColumnsAt(12)
    BY
    DEF Up0012, Lost, Without, Named, ColumnsAt, UsersAt, SubmissionsAt, PredictionsAt, MatchesAt,
        ProfilesAt, ShareModel, From, While, Of
<1>13. d.cols = ColumnsAt(12) => Up0013(d).cols = ColumnsAt(13)
    BY
    DEF Up0013, Guarded, Without, Named, ColumnsAt, UsersAt, SubmissionsAt, PredictionsAt,
        MatchesAt, ProfilesAt, ShareModel, From, While, Of
<1>14. d.cols = ColumnsAt(13) => Up0014(d).cols = ColumnsAt(14)
    BY
    DEF Up0014, Without, Named, ColumnsAt, UsersAt, SubmissionsAt, PredictionsAt, MatchesAt,
        ProfilesAt, ShareModel, From, While, Of
<1>15. d.cols = ColumnsAt(14) => Up0015(d).cols = ColumnsAt(15)
    BY
    DEF Up0015, Without, Named, ColumnsAt, UsersAt, SubmissionsAt, PredictionsAt, MatchesAt,
        ProfilesAt, ShareModel, From, While, Of
<1>16. d.cols = ColumnsAt(15) => Up0016(d).cols = ColumnsAt(16)
  <2> DEFINE rest == Without(ColumnsAt(16), {<<"onboarding", "venue">>})
  <2>1. Without(ColumnsAt(15) \cup Of("onboarding", "text?", {"similarity_focus", "recency_bias"})
                \cup Of("onboarding", "json", {"venue_list"}), {<<"onboarding", "venue">>})
          = rest \cup Of("onboarding", "json", {"venue_list"})
      BY
      DEF Without, Named, ColumnsAt, UsersAt, SubmissionsAt, PredictionsAt, MatchesAt, ProfilesAt,
          ShareModel, From, While, Of
  <2>2. \A c \in rest : <<c[1], c[2]>> # <<"onboarding", "venue_list">>
      BY
      DEF Without, Named, ColumnsAt, UsersAt, SubmissionsAt, PredictionsAt, MatchesAt, ProfilesAt,
          ShareModel, From, While, Of
  <2>3. rest \cup Of("onboarding", "json", {"venue"}) = ColumnsAt(16)
      BY
      DEF Without, Named, ColumnsAt, UsersAt, SubmissionsAt, PredictionsAt, MatchesAt, ProfilesAt,
          ShareModel, From, While, Of
  <2> HIDE DEF rest
  <2>4. Renamed(rest \cup Of("onboarding", "json", {"venue_list"}), "onboarding", "venue_list", "venue")
          = rest \cup Of("onboarding", "json", {"venue"})
      BY <2>2, RenamedOne
  <2> QED
      BY <2>1, <2>3, <2>4 DEF Up0016
<1>17. d.cols = ColumnsAt(16) => Up0017(d).cols = ColumnsAt(17)
    BY
    DEF Up0017, Without, Named, ColumnsAt, UsersAt, SubmissionsAt, PredictionsAt, MatchesAt,
        ProfilesAt, ShareModel, From, While, Of
<1>18. d.cols = ColumnsAt(17) => Up0018(d).cols = ColumnsAt(18)
    BY
    DEF Up0018, Without, Named, ColumnsAt, UsersAt, SubmissionsAt, PredictionsAt, MatchesAt,
        ProfilesAt, ShareModel, From, While, Of
<1> QED
    BY StepsOfRevisions, <1>1, <1>2, <1>3, <1>4, <1>5, <1>6, <1>7, <1>8, <1>9, <1>10, <1>11, <1>12,
       <1>13, <1>14, <1>15, <1>16, <1>17, <1>18

LEMMA ColumnsDown ==
    ASSUME NEW d, DOMAIN d = Fields, NEW r \in 1 .. HeadRev, d.cols = ColumnsAt(r)
    PROVE  DownStep(r, d).cols = ColumnsAt(r - 1)
<1> USE DEF Fields, HeadRev
<1>1. d.cols = ColumnsAt(1) => Down0001(d).cols = ColumnsAt(0)
    BY
    DEF Down0001, Without, Named, ColumnsAt, UsersAt, SubmissionsAt, PredictionsAt, MatchesAt,
        ProfilesAt, ShareModel, From, While, Of
<1>2. d.cols = ColumnsAt(2) => Down0002(d).cols = ColumnsAt(1)
  <2> DEFINE rest == Without(ColumnsAt(2), Tz0002)
             timed == Of("users", "tz", {"created_at", "updated_at"})
                 \cup Of("submissions", "tz", {"created_at"})
                 \cup Of("predictions", "tz", {"created_at"})
                 \cup Of("predictions", "tz?", {"completed_at"})
                 \cup Of("matches", "tz", {"created_at"})
             now == Of("users", "ts", {"created_at", "updated_at"})
                 \cup Of("submissions", "ts", {"created_at"})
                 \cup Of("predictions", "ts", {"created_at"})
                 \cup Of("predictions", "ts?", {"completed_at"})
                 \cup Of("matches", "ts", {"created_at"})
  <2>1. ColumnsAt(2) = rest \cup timed /\ rest \cup now = ColumnsAt(1)
      BY
      DEF Tz0002, Without, Named, ColumnsAt, UsersAt, SubmissionsAt, PredictionsAt, MatchesAt,
          ProfilesAt, ShareModel, From, While, Of
  <2>2. \A c \in rest : <<c[1], c[2]>> \notin Tz0002
      BY DEF Without, Named
  <2>3. Retyped(rest, Tz0002, Naive) = rest
      BY <2>2, RetypedNone
  <2>4. Retyped(Of("users", "tz", {"created_at", "updated_at"}), Tz0002, Naive)
        = Of("users", "ts", {"created_at", "updated_at"})
    <3>1. Naive["tz"] = "ts" /\ \A n \in {"created_at", "updated_at"} : <<"users", n>> \in Tz0002
        BY DEF Naive, Tz0002
    <3> QED
        BY <3>1, RetypedAll
  <2>5. Retyped(Of("submissions", "tz", {"created_at"}), Tz0002, Naive)
        = Of("submissions", "ts", {"created_at"})
    <3>1. Naive["tz"] = "ts" /\ \A n \in {"created_at"} : <<"submissions", n>> \in Tz0002
        BY DEF Naive, Tz0002
    <3> QED
        BY <3>1, RetypedAll
  <2>6. Retyped(Of("predictions", "tz", {"created_at"}), Tz0002, Naive)
        = Of("predictions", "ts", {"created_at"})
    <3>1. Naive["tz"] = "ts" /\ \A n \in {"created_at"} : <<"predictions", n>> \in Tz0002
        BY DEF Naive, Tz0002
    <3> QED
        BY <3>1, RetypedAll
  <2>7. Retyped(Of("predictions", "tz?", {"completed_at"}), Tz0002, Naive)
        = Of("predictions", "ts?", {"completed_at"})
    <3>1. Naive["tz?"] = "ts?" /\ \A n \in {"completed_at"} : <<"predictions", n>> \in Tz0002
        BY DEF Naive, Tz0002
    <3> QED
        BY <3>1, RetypedAll
  <2>8. Retyped(Of("matches", "tz", {"created_at"}), Tz0002, Naive)
        = Of("matches", "ts", {"created_at"})
    <3>1. Naive["tz"] = "ts" /\ \A n \in {"created_at"} : <<"matches", n>> \in Tz0002
        BY DEF Naive, Tz0002
    <3> QED
        BY <3>1, RetypedAll
  <2> HIDE DEF rest
  <2>9. Retyped(timed, Tz0002, Naive) = now
    <3> DEFINE a == Of("users", "tz", {"created_at", "updated_at"})
               b == Of("submissions", "tz", {"created_at"})
               c == Of("predictions", "tz", {"created_at"})
               e == Of("predictions", "tz?", {"completed_at"})
               f == Of("matches", "tz", {"created_at"})
               R(x) == Retyped(x, Tz0002, Naive)
    <3>1. \A x, y : R(x \cup y) = R(x) \cup R(y)
        BY RetypedUnion
    <3>2. timed = a \cup b \cup c \cup e \cup f /\ now = R(a) \cup R(b) \cup R(c) \cup R(e) \cup R(f)
        BY <2>4, <2>5, <2>6, <2>7, <2>8
    <3> HIDE DEF timed, now, a, b, c, e, f, R
    <3>3. R(a \cup b) = R(a) \cup R(b)
        BY ONLY <3>1
    <3>4. R(a \cup b \cup c) = R(a \cup b) \cup R(c)
        BY ONLY <3>1
    <3>5. R(a \cup b \cup c \cup e) = R(a \cup b \cup c) \cup R(e)
        BY ONLY <3>1
    <3>6. R(a \cup b \cup c \cup e \cup f) = R(a \cup b \cup c \cup e) \cup R(f)
        BY ONLY <3>1
    <3>7. R(timed) = now
        BY ONLY <3>2, <3>3, <3>4, <3>5, <3>6
    <3> QED
        BY <3>7 DEF R
  <2> HIDE DEF timed, now
  <2>10. Retyped(rest \cup timed, Tz0002, Naive) = rest \cup now
      BY <2>3, <2>9, RetypedUnion
  <2> QED
      BY <2>1, <2>10 DEF Down0002
<1>3. d.cols = ColumnsAt(3) => Down0003(d).cols = ColumnsAt(2)
    BY
    DEF Down0003, Without, Named, ColumnsAt, UsersAt, SubmissionsAt, PredictionsAt, MatchesAt,
        ProfilesAt, ShareModel, From, While, Of
<1>4. d.cols = ColumnsAt(4) => Down0004(d).cols = ColumnsAt(3)
    BY
    DEF Down0004, Without, Named, ColumnsAt, UsersAt, SubmissionsAt, PredictionsAt, MatchesAt,
        ProfilesAt, ShareModel, From, While, Of
<1>5. d.cols = ColumnsAt(5) => Down0005(d).cols = ColumnsAt(4)
    BY
    DEF Down0005, Without, Named, ColumnsAt, UsersAt, SubmissionsAt, PredictionsAt, MatchesAt,
        ProfilesAt, ShareModel, From, While, Of
<1>6. d.cols = ColumnsAt(6) => Down0006(d).cols = ColumnsAt(5)
    BY
    DEF Down0006, Without, Named, ColumnsAt, UsersAt, SubmissionsAt, PredictionsAt, MatchesAt,
        ProfilesAt, ShareModel, From, While, Of
<1>7. d.cols = ColumnsAt(7) => Down0007(d).cols = ColumnsAt(6)
  <2> DEFINE rest == Without(ColumnsAt(7), Tz0007)
             timed == Of("onboarding", "tz", {"created_at", "updated_at"})
             now == Of("onboarding", "ts", {"created_at", "updated_at"})
  <2>1. ColumnsAt(7) = rest \cup timed /\ rest \cup now = ColumnsAt(6)
      BY
      DEF Tz0007, Without, Named, ColumnsAt, UsersAt, SubmissionsAt, PredictionsAt, MatchesAt,
          ProfilesAt, ShareModel, From, While, Of
  <2>2. \A c \in rest : <<c[1], c[2]>> \notin Tz0007
      BY DEF Without, Named
  <2>3. Retyped(rest, Tz0007, Naive) = rest
      BY <2>2, RetypedNone
  <2>4. Retyped(Of("onboarding", "tz", {"created_at", "updated_at"}), Tz0007, Naive)
        = Of("onboarding", "ts", {"created_at", "updated_at"})
    <3>1. Naive["tz"] = "ts" /\ \A n \in {"created_at", "updated_at"} : <<"onboarding", n>> \in Tz0007
        BY DEF Naive, Tz0007
    <3> QED
        BY <3>1, RetypedAll
  <2> HIDE DEF rest
  <2>5. Retyped(timed, Tz0007, Naive) = now
      BY <2>4, RetypedUnion
  <2> HIDE DEF timed, now
  <2>6. Retyped(rest \cup timed, Tz0007, Naive) = rest \cup now
      BY <2>3, <2>5, RetypedUnion
  <2> QED
      BY <2>1, <2>6 DEF Down0007
<1>8. d.cols = ColumnsAt(8) => Down0008(d).cols = ColumnsAt(7)
    BY
    DEF Down0008, Lost, Without, Named, ColumnsAt, UsersAt, SubmissionsAt, PredictionsAt,
        MatchesAt, ProfilesAt, ShareModel, From, While, Of
<1>9. d.cols = ColumnsAt(9) => Down0009(d).cols = ColumnsAt(8)
    BY
    DEF Down0009, Lost, Without, Named, ColumnsAt, UsersAt, SubmissionsAt, PredictionsAt,
        MatchesAt, ProfilesAt, ShareModel, From, While, Of
<1>10. d.cols = ColumnsAt(10) => Down0010(d).cols = ColumnsAt(9)
    BY
    DEF Down0010, Lost, Without, Named, ColumnsAt, UsersAt, SubmissionsAt, PredictionsAt,
        MatchesAt, ProfilesAt, ShareModel, From, While, Of
<1>11. d.cols = ColumnsAt(11) => Down0011(d).cols = ColumnsAt(10)
    BY
    DEF Down0011, Without, Named, ColumnsAt, UsersAt, SubmissionsAt, PredictionsAt, MatchesAt,
        ProfilesAt, ShareModel, From, While, Of
<1>12. d.cols = ColumnsAt(12) => Down0012(d).cols = ColumnsAt(11)
    BY
    DEF Down0012, Guarded, Without, Named, ColumnsAt, UsersAt, SubmissionsAt, PredictionsAt,
        MatchesAt, ProfilesAt, ShareModel, From, While, Of
<1>13. d.cols = ColumnsAt(13) => Down0013(d).cols = ColumnsAt(12)
    BY
    DEF Down0013, Lost, Without, Named, ColumnsAt, UsersAt, SubmissionsAt, PredictionsAt,
        MatchesAt, ProfilesAt, ShareModel, From, While, Of
<1>14. d.cols = ColumnsAt(14) => Down0014(d).cols = ColumnsAt(13)
    BY
    DEF Down0014, Without, Named, ColumnsAt, UsersAt, SubmissionsAt, PredictionsAt, MatchesAt,
        ProfilesAt, ShareModel, From, While, Of
<1>15. d.cols = ColumnsAt(15) => Down0015(d).cols = ColumnsAt(14)
    BY
    DEF Down0015, Without, Named, ColumnsAt, UsersAt, SubmissionsAt, PredictionsAt, MatchesAt,
        ProfilesAt, ShareModel, From, While, Of
<1>16. d.cols = ColumnsAt(16) => Down0016(d).cols = ColumnsAt(15)
  <2> DEFINE rest == Without(ColumnsAt(16), {<<"onboarding", "venue">>})
             names == {<<"onboarding", "recency_bias">>, <<"onboarding", "similarity_focus">>}
  <2>1. Without(ColumnsAt(16) \cup Of("onboarding", "text?", {"venue_str"}), {<<"onboarding", "venue">>})
          = rest \cup Of("onboarding", "text?", {"venue_str"})
      BY
      DEF Without, Named, ColumnsAt, UsersAt, SubmissionsAt, PredictionsAt, MatchesAt, ProfilesAt,
          ShareModel, From, While, Of
  <2>2. \A c \in rest : <<c[1], c[2]>> # <<"onboarding", "venue_str">>
      BY
      DEF Without, Named, ColumnsAt, UsersAt, SubmissionsAt, PredictionsAt, MatchesAt, ProfilesAt,
          ShareModel, From, While, Of
  <2>3. Without(rest \cup Of("onboarding", "text?", {"venue"}), names) = ColumnsAt(15)
      BY
      DEF Without, Named, ColumnsAt, UsersAt, SubmissionsAt, PredictionsAt, MatchesAt, ProfilesAt,
          ShareModel, From, While, Of
  <2> HIDE DEF rest
  <2>4. Renamed(rest \cup Of("onboarding", "text?", {"venue_str"}), "onboarding", "venue_str", "venue")
          = rest \cup Of("onboarding", "text?", {"venue"})
      BY <2>2, RenamedOne
  <2> QED
      BY <2>1, <2>3, <2>4 DEF Down0016
<1>17. d.cols = ColumnsAt(17) => Down0017(d).cols = ColumnsAt(16)
    BY
    DEF Down0017, Without, Named, ColumnsAt, UsersAt, SubmissionsAt, PredictionsAt, MatchesAt,
        ProfilesAt, ShareModel, From, While, Of
<1>18. d.cols = ColumnsAt(18) => Down0018(d).cols = ColumnsAt(17)
    BY
    DEF Down0018, Without, Named, ColumnsAt, UsersAt, SubmissionsAt, PredictionsAt, MatchesAt,
        ProfilesAt, ShareModel, From, While, Of
<1> QED
    BY StepsOfRevisions, <1>1, <1>2, <1>3, <1>4, <1>5, <1>6, <1>7, <1>8, <1>9, <1>10, <1>11, <1>12,
       <1>13, <1>14, <1>15, <1>16, <1>17, <1>18

(* At is a function, for there is one. *)
LEMMA AtUnfold ==
    /\ At[0] = Empty
    /\ \A r \in 1 .. HeadRev : At[r] = UpStep(r, At[r - 1])
<1> DEFINE Solves(h, n) == h = [k \in 0 .. n |-> IF k = 0 THEN Empty ELSE UpStep(k, h[k - 1])]
           bad == {n \in Nat : \A h : ~Solves(h, n)}
<1>1. bad = {}
  <2> SUFFICES ASSUME bad # {}
               PROVE  FALSE
      OBVIOUS
  <2>1. PICK m \in bad : \A n \in bad : m <= n
    <3>1. bad \in SUBSET Nat
        OBVIOUS
    <3> HIDE DEF bad
    <3> QED
        BY <3>1, LeastNatural
  <2>2. CASE m = 0
    <3> DEFINE h == [k \in 0 .. 0 |-> Empty]
    <3>1. Solves(h, 0)
        OBVIOUS
    <3> HIDE DEF h
    <3>2. 0 \notin bad
        BY <3>1
    <3> HIDE DEF bad
    <3> QED
        BY <2>1, <2>2, <3>2
  <2>3. CASE m > 0
    <3>1. m \in Nat /\ m - 1 \in Nat /\ m - 1 \notin bad
      <4>1. m \in Nat /\ m - 1 \in Nat /\ ~(m <= m - 1)
          BY <2>3
      <4> HIDE DEF bad
      <4> QED
          BY <2>1, <4>1
    <3>2. PICK g : Solves(g, m - 1)
        BY <3>1
    <3> DEFINE h == [k \in 0 .. m |-> IF k < m THEN g[k] ELSE UpStep(m, g[m - 1])]
    <3>3. \A k \in 0 .. m - 1 : g[k] = IF k = 0 THEN Empty ELSE UpStep(k, g[k - 1])
        BY <3>2
    <3>4. ASSUME NEW k \in 0 .. m
          PROVE  h[k] = IF k = 0 THEN Empty ELSE UpStep(k, h[k - 1])
      <4>1. CASE k < m
        <5>1. k \in 0 .. m - 1 /\ h[k] = g[k] /\ (k # 0 => k - 1 \in 0 .. m /\ h[k - 1] = g[k - 1])
            BY <3>1, <4>1
        <5> QED
            BY <5>1, <3>3
      <4>2. CASE ~(k < m)
        <5>1. k = m /\ k # 0 /\ m - 1 \in 0 .. m /\ m - 1 < m
            BY <3>1, <2>3, <4>2
        <5>2. h[k] = UpStep(m, g[m - 1]) /\ h[m - 1] = g[m - 1]
            BY <5>1
        <5> QED
            BY <5>1, <5>2
      <4> QED
          BY <4>1, <4>2
    <3>5. Solves(h, m)
        BY <3>4
    <3> QED
        BY <2>1, <3>5
  <2> QED
      BY <2>1, <2>2, <2>3
<1>2. HeadRev \in Nat
    BY DEF HeadRev
<1>3. \E h : Solves(h, HeadRev)
    BY <1>1, <1>2
<1>4. At = CHOOSE h : Solves(h, HeadRev)
    BY DEF At
<1>5. Solves(At, HeadRev)
    BY <1>3, <1>4
<1> QED
    BY <1>2, <1>5

(* Every revision gives a database again. *)
LEMMA UpShape ==
    ASSUME NEW d, DOMAIN d = Fields, NEW r \in 1 .. HeadRev
    PROVE  DOMAIN UpStep(r, d) = Fields /\ DOMAIN DownStep(r, d) = Fields
<1> USE DEF Fields, HeadRev
<1>1. DOMAIN Up0001(d) = Fields /\ DOMAIN Down0001(d) = Fields
    BY DEF Up0001, Down0001
<1>2. DOMAIN Up0002(d) = Fields /\ DOMAIN Down0002(d) = Fields
    BY DEF Up0002, Down0002
<1>3. DOMAIN Up0003(d) = Fields /\ DOMAIN Down0003(d) = Fields
    BY DEF Up0003, Down0003
<1>4. DOMAIN Up0004(d) = Fields /\ DOMAIN Down0004(d) = Fields
    BY DEF Up0004, Down0004
<1>5. DOMAIN Up0005(d) = Fields /\ DOMAIN Down0005(d) = Fields
    BY DEF Up0005, Down0005
<1>6. DOMAIN Up0006(d) = Fields /\ DOMAIN Down0006(d) = Fields
    BY DEF Up0006, Down0006
<1>7. DOMAIN Up0007(d) = Fields /\ DOMAIN Down0007(d) = Fields
    BY DEF Up0007, Down0007
<1>8. DOMAIN Up0008(d) = Fields /\ DOMAIN Down0008(d) = Fields
    BY DEF Up0008, Down0008, Guarded, Lost
<1>9. DOMAIN Up0009(d) = Fields /\ DOMAIN Down0009(d) = Fields
    BY DEF Up0009, Down0009, Guarded, Lost
<1>10. DOMAIN Up0010(d) = Fields /\ DOMAIN Down0010(d) = Fields
    BY DEF Up0010, Down0010, Guarded, Lost
<1>11. DOMAIN Up0011(d) = Fields /\ DOMAIN Down0011(d) = Fields
    BY DEF Up0011, Down0011
<1>12. DOMAIN Up0012(d) = Fields /\ DOMAIN Down0012(d) = Fields
    BY DEF Up0012, Down0012, Guarded, Lost
<1>13. DOMAIN Up0013(d) = Fields /\ DOMAIN Down0013(d) = Fields
    BY DEF Up0013, Down0013, Guarded, Lost
<1>14. DOMAIN Up0014(d) = Fields /\ DOMAIN Down0014(d) = Fields
    BY DEF Up0014, Down0014
<1>15. DOMAIN Up0015(d) = Fields /\ DOMAIN Down0015(d) = Fields
    BY DEF Up0015, Down0015
<1>16. DOMAIN Up0016(d) = Fields /\ DOMAIN Down0016(d) = Fields
    BY DEF Up0016, Down0016
<1>17. DOMAIN Up0017(d) = Fields /\ DOMAIN Down0017(d) = Fields
    BY DEF Up0017, Down0017
<1>18. DOMAIN Up0018(d) = Fields /\ DOMAIN Down0018(d) = Fields
    BY DEF Up0018, Down0018
<1> QED
    BY StepsOfRevisions, <1>1, <1>2, <1>3, <1>4, <1>5, <1>6, <1>7, <1>8, <1>9, <1>10, <1>11, <1>12,
       <1>13, <1>14, <1>15, <1>16, <1>17, <1>18

(* The schema that the upgrades of an empty database give. *)
LEMMA AtIsWrittenOut ==
    ASSUME NEW r \in 0 .. HeadRev
    PROVE  DOMAIN At[r] = Fields /\ At[r].cols = ColumnsAt(r) /\ At[r].idx = IndexesAt(r)
<1> DEFINE Good(n) == DOMAIN At[n] = Fields /\ At[n].cols = ColumnsAt(n) /\ At[n].idx = IndexesAt(n)
           bad == {n \in 0 .. HeadRev : ~Good(n)}
<1>1. HeadRev \in Nat
    BY DEF HeadRev
<1>2. Good(0)
  <2>1. ColumnsAt(0) = {} /\ IndexesAt(0) = {}
      BY
      DEF ColumnsAt, UsersAt, SubmissionsAt, PredictionsAt, MatchesAt, ProfilesAt, IndexesAt, From,
          While, HeadRev
  <2> QED
      BY <2>1, AtUnfold DEF Empty, Fields
<1>3. ASSUME NEW n \in 1 .. HeadRev, Good(n - 1)
      PROVE  Good(n)
    BY <1>3, AtUnfold, UpShape, ColumnsUp, IndexesUp
<1>4. bad = {}
  <2> SUFFICES ASSUME bad # {}
               PROVE  FALSE
      OBVIOUS
  <2>1. bad \in SUBSET Nat
      BY <1>1
  <2> HIDE DEF Good
  <2>2. PICK m \in bad : \A n \in bad : m <= n
    <3> HIDE DEF bad
    <3> QED
        BY <2>1, LeastNatural
  <2>3. m \in 1 .. HeadRev /\ m - 1 \in 0 .. HeadRev /\ ~(m <= m - 1) /\ ~Good(m)
      BY <1>1, <1>2, <2>2
  <2>4. Good(m - 1)
      BY <2>2, <2>3
  <2> QED
      BY <1>3, <2>3, <2>4
<1> QED
    BY <1>4

-----------------------------------------------------------------------------
(* The corpus: not loaded, or what a database of this revision has of it.   *)

CorpusFits(r, objects) ==
    \/ objects = {}
    \/ /\ CorpusBase \subseteq objects /\ objects \subseteq FreshCorpus \cup Dead0012
       /\ r >= 8 => "papers.citation_count" \in objects
       /\ r >= 9 => "paper_stories" \in objects
       /\ r >= 10 => "papers.citation_percentile" \in objects
       /\ r >= 13 => "paper_body_diffs" \in objects
       /\ r >= 12 => objects \cap Dead0012 = {}

(* The corpus keeps up with the revisions that touch it.                    *)
LEMMA CorpusMoves ==
    ASSUME NEW d, DOMAIN d = Fields, NEW r \in 1 .. HeadRev
    PROVE  /\ CorpusFits(r - 1, d.corpus) => CorpusFits(r, UpStep(r, d).corpus)
           /\ CorpusFits(r, d.corpus) => CorpusFits(r - 1, DownStep(r, d).corpus)
<1> USE DEF Fields, HeadRev
<1> DEFINE Moves(n, up, down) == /\ CorpusFits(n - 1, d.corpus) => CorpusFits(n, up)
                                 /\ CorpusFits(n, d.corpus) => CorpusFits(n - 1, down)
<1>1. Moves(1, Up0001(d).corpus, Down0001(d).corpus)
    BY DEF Up0001, Down0001, CorpusFits
<1>2. Moves(2, Up0002(d).corpus, Down0002(d).corpus)
    BY DEF Up0002, Down0002, CorpusFits
<1>3. Moves(3, Up0003(d).corpus, Down0003(d).corpus)
    BY DEF Up0003, Down0003, CorpusFits
<1>4. Moves(4, Up0004(d).corpus, Down0004(d).corpus)
    BY DEF Up0004, Down0004, CorpusFits
<1>5. Moves(5, Up0005(d).corpus, Down0005(d).corpus)
    BY DEF Up0005, Down0005, CorpusFits
<1>6. Moves(6, Up0006(d).corpus, Down0006(d).corpus)
    BY DEF Up0006, Down0006, CorpusFits
<1>7. Moves(7, Up0007(d).corpus, Down0007(d).corpus)
    BY DEF Up0007, Down0007, CorpusFits
<1>8. Moves(8, Up0008(d).corpus, Down0008(d).corpus)
    BY DEF Up0008, Down0008, CorpusFits, Guarded, Lost, CorpusBase, FreshCorpus, Dead0012
<1>9. Moves(9, Up0009(d).corpus, Down0009(d).corpus)
    BY DEF Up0009, Down0009, CorpusFits, Guarded, Lost, CorpusBase, FreshCorpus, Dead0012
<1>10. Moves(10, Up0010(d).corpus, Down0010(d).corpus)
    BY DEF Up0010, Down0010, CorpusFits, Guarded, Lost, CorpusBase, FreshCorpus, Dead0012
<1>11. Moves(11, Up0011(d).corpus, Down0011(d).corpus)
    BY DEF Up0011, Down0011, CorpusFits
<1>12. Moves(12, Up0012(d).corpus, Down0012(d).corpus)
    BY DEF Up0012, Down0012, CorpusFits, Guarded, Lost, CorpusBase, FreshCorpus, Dead0012
<1>13. Moves(13, Up0013(d).corpus, Down0013(d).corpus)
    BY DEF Up0013, Down0013, CorpusFits, Guarded, Lost, CorpusBase, FreshCorpus, Dead0012
<1>14. Moves(14, Up0014(d).corpus, Down0014(d).corpus)
    BY DEF Up0014, Down0014, CorpusFits
<1>15. Moves(15, Up0015(d).corpus, Down0015(d).corpus)
    BY DEF Up0015, Down0015, CorpusFits
<1>16. Moves(16, Up0016(d).corpus, Down0016(d).corpus)
    BY DEF Up0016, Down0016, CorpusFits
<1>17. Moves(17, Up0017(d).corpus, Down0017(d).corpus)
    BY DEF Up0017, Down0017, CorpusFits
<1>18. Moves(18, Up0018(d).corpus, Down0018(d).corpus)
    BY DEF Up0018, Down0018, CorpusFits
<1> HIDE DEF CorpusFits
<1> QED
    BY StepsOfRevisions, <1>1, <1>2, <1>3, <1>4, <1>5, <1>6, <1>7, <1>8, <1>9, <1>10, <1>11, <1>12,
       <1>13, <1>14, <1>15, <1>16, <1>17, <1>18

-----------------------------------------------------------------------------
(* The rows of a revision, and the constraints it puts on them.             *)

Account == [orid : Orid \cup {Unset, Placeholder}, suffix : Nat, password : BOOLEAN]
Analysis == [draft : Draft, active : BOOLEAN]

TypedRows(accounts, runs) ==
    /\ accounts \in Seq(Account) /\ runs \in Seq(Analysis)
    /\ \A i \in DOMAIN accounts : accounts[i].suffix \in {0, i}
    /\ LengthsFit(accounts)

OneInProgress(runs) == \A i, j \in DOMAIN runs :
    runs[i].active /\ runs[j].active /\ runs[i].draft = runs[j].draft => i = j
IdsDiffer(accounts) == \A i, j \in DOMAIN accounts : SameId(accounts[i], accounts[j]) => i = j
IdsGiven(accounts) == \A i \in DOMAIN accounts : accounts[i].orid # Unset
PasswordsGiven(accounts) == \A i \in DOMAIN accounts : accounts[i].password

RowsOf(r, accounts, runs) ==
    /\ TypedRows(accounts, runs)
    /\ r = 0 => accounts = <<>> /\ runs = <<>>
    /\ r >= 2 => OneInProgress(runs)
    /\ r >= 6 => IdsDiffer(accounts)
    /\ r >= 4 => IdsGiven(accounts)
    /\ r \in 1 .. 3 => PasswordsGiven(accounts)

(* Which constraints are in force at which revision.                        *)
LEMMA Constraints ==
    ASSUME NEW r \in 0 .. HeadRev
    PROVE  /\ OneActiveIndex \in IndexesAt(r) <=> r >= 2
           /\ OridKey \in IndexesAt(r) <=> r >= 6
           /\ <<"users", "openreview_id", "text">> \in ColumnsAt(r) <=> r >= 4
           /\ <<"users", "password_hash", "text">> \in ColumnsAt(r) <=> r \in 1 .. 3
<1>1. /\ OneActiveIndex \in IndexesAt(r) <=> r >= 2
      /\ OridKey \in IndexesAt(r) <=> r >= 6
    BY IndexNames DEF IndexesAt, From, While, HeadRev
<1>2. <<"users", "openreview_id", "text">> \in ColumnsAt(r) <=> r >= 4
    BY
    DEF HeadRev, ColumnsAt, UsersAt, SubmissionsAt, PredictionsAt, MatchesAt, ProfilesAt,
        ShareModel, From, While, Of
<1>3. <<"users", "password_hash", "text">> \in ColumnsAt(r) <=> r \in 1 .. 3
    BY
    DEF HeadRev, ColumnsAt, UsersAt, SubmissionsAt, PredictionsAt, MatchesAt, ProfilesAt,
        ShareModel, From, While, Of
<1> QED
    BY <1>1, <1>2, <1>3

LEMMA RowsFitAt ==
    ASSUME NEW d, NEW r \in 0 .. HeadRev, d.cols = ColumnsAt(r), d.idx = IndexesAt(r)
    PROVE  RowsFit(d) <=> /\ r >= 2 => OneInProgress(d.runs)
                          /\ r >= 6 => IdsDiffer(d.accounts)
                          /\ r >= 4 => IdsGiven(d.accounts) /\ LengthsFit(d.accounts)
                          /\ r \in 1 .. 3 => PasswordsGiven(d.accounts)
BY Constraints DEF RowsFit, OneInProgress, IdsDiffer, IdsGiven, PasswordsGiven

(* 0002 leaves one analysis in progress, 0006 one account per id.           *)
LEMMA SettledRuns ==
    ASSUME NEW runs \in Seq(Analysis)
    PROVE  Settled(runs) \in Seq(Analysis) /\ OneInProgress(Settled(runs))
<1> DEFINE new == Settled(runs)
<1>1. /\ Len(runs) \in Nat /\ DOMAIN runs = 1 .. Len(runs) /\ DOMAIN new = 1 .. Len(runs)
      /\ new = [i \in 1 .. Len(runs) |-> new[i]]
      /\ \A i \in DOMAIN runs : runs[i] \in Analysis
    BY DEF Settled
<1>2. \A i \in DOMAIN runs : /\ new[i] \in Analysis /\ new[i].draft = runs[i].draft
                             /\ new[i].active <=> runs[i].active /\ Newest(runs, i)
    BY <1>1 DEF Settled, Analysis
<1> HIDE DEF new
<1>3. new \in Seq(Analysis)
    BY <1>1, <1>2, ListOf
<1>4. OneInProgress(new)
  <2> SUFFICES ASSUME NEW i \in DOMAIN runs, NEW j \in DOMAIN runs, i < j, runs[i].draft = runs[j].draft,
                      new[i].active, new[j].active
               PROVE  FALSE
    <3>1. \A i, j \in DOMAIN runs : i = j \/ i < j \/ j < i
        BY <1>1
    <3>2. \A i \in DOMAIN runs : new[i].draft = runs[i].draft
        BY <1>2
    <3> QED
        BY <1>1, <3>1, <3>2 DEF OneInProgress
  <2>1. j \in i + 1 .. Len(runs) /\ runs[j].active /\ Newest(runs, i)
      BY <1>1, <1>2
  <2> QED
      BY <2>1 DEF Newest
<1> QED
    BY <1>3, <1>4 DEF new

LEMMA DistinctAccounts ==
    ASSUME NEW accounts \in Seq(Account), \A i \in DOMAIN accounts : accounts[i].suffix \in {0, i}
    PROVE  LET new == Distinct(accounts)
           IN /\ new \in Seq(Account) /\ IdsDiffer(new) /\ DOMAIN new = DOMAIN accounts
              /\ \A i \in DOMAIN accounts : /\ new[i].orid = accounts[i].orid
                                             /\ new[i].suffix \in {0, i}
<1> DEFINE new == Distinct(accounts)
<1>1. /\ Len(accounts) \in Nat /\ DOMAIN accounts = 1 .. Len(accounts) /\ DOMAIN new = 1 .. Len(accounts)
      /\ new = [i \in 1 .. Len(accounts) |-> new[i]]
      /\ \A i \in DOMAIN accounts : accounts[i] \in Account
    BY DEF Distinct
<1>2. \A i \in DOMAIN accounts :
        /\ new[i] \in Account /\ new[i].orid = accounts[i].orid
        /\ FirstClaim(accounts, i) => new[i].suffix = accounts[i].suffix
        /\ ~FirstClaim(accounts, i) => new[i].suffix = i
    BY <1>1 DEF Distinct, Account
<1> HIDE DEF new
<1>3. new \in Seq(Account)
    BY <1>1, <1>2, ListOf
<1>4. IdsDiffer(new)
  <2> SUFFICES ASSUME NEW i \in DOMAIN accounts, NEW j \in DOMAIN accounts, i < j,
                      accounts[i].orid = accounts[j].orid, new[i].suffix = new[j].suffix
               PROVE  FALSE
      BY <1>1, <1>2 DEF IdsDiffer, SameId
  <2>1. i \in Nat /\ j \in Nat /\ i # j /\ i # 0 /\ j # 0 /\ i \in 1 .. j - 1
      BY <1>1
  <2>2. CASE FirstClaim(accounts, i) /\ FirstClaim(accounts, j)
      BY <1>2, <2>1, <2>2 DEF FirstClaim, SameId
  <2>3. CASE FirstClaim(accounts, i) /\ ~FirstClaim(accounts, j)
      BY <1>2, <2>1, <2>3
  <2>4. CASE ~FirstClaim(accounts, i) /\ FirstClaim(accounts, j)
      BY <1>2, <2>1, <2>4
  <2>5. CASE ~FirstClaim(accounts, i) /\ ~FirstClaim(accounts, j)
      BY <1>2, <2>1, <2>5
  <2> QED
      BY <2>2, <2>3, <2>4, <2>5
<1> QED
    BY <1>1, <1>2, <1>3, <1>4 DEF new

(* The suffixes of 0006 fit their column unless two accounts share a long   *)
(* id.                                                                      *)
LEMMA DistinctLengths ==
    ASSUME NEW accounts \in Seq(Account), LengthsFit(accounts)
    PROVE  LengthsFit(Distinct(accounts)) <=> ~LongTwins(accounts)
<1> DEFINE new == Distinct(accounts)
<1>1. Len(accounts) \in Nat /\ DOMAIN accounts = 1 .. Len(accounts) /\ DOMAIN new = 1 .. Len(accounts)
    BY DEF Distinct
<1>2. \A i \in DOMAIN accounts :
        /\ new[i].orid = accounts[i].orid
        /\ FirstClaim(accounts, i) => new[i].suffix = accounts[i].suffix
        /\ ~FirstClaim(accounts, i) => new[i].suffix = i
  <2>1. \A i \in DOMAIN accounts : accounts[i] \in Account
      OBVIOUS
  <2> QED
      BY <2>1 DEF Distinct, Account
<1> HIDE DEF new
<1>3. ASSUME LengthsFit(new), LongTwins(accounts)
      PROVE  FALSE
  <2>1. PICK i, j \in DOMAIN accounts :
           i # j /\ SameId(accounts[i], accounts[j]) /\ accounts[i].orid \in LongOrid
      BY <1>3 DEF LongTwins
  <2>2. \E k \in DOMAIN accounts : ~FirstClaim(accounts, k) /\ accounts[k].orid \in LongOrid
    <3>1. i < j \/ j < i
        BY <1>1, <2>1
    <3>2. CASE i < j
      <4>1. i \in 1 .. j - 1
          BY <1>1, <3>2
      <4> QED
          BY <2>1, <4>1 DEF FirstClaim, SameId
    <3>3. CASE j < i
      <4>1. j \in 1 .. i - 1
          BY <1>1, <3>3
      <4> QED
          BY <2>1, <4>1 DEF FirstClaim, SameId
    <3> QED
        BY <3>1, <3>2, <3>3
  <2>3. PICK k \in DOMAIN accounts : ~FirstClaim(accounts, k) /\ accounts[k].orid \in LongOrid
      BY <2>2
  <2>4. new[k].suffix = k /\ k # 0 /\ new[k].orid \in LongOrid /\ k \in DOMAIN new
      BY <1>1, <1>2, <2>3
  <2> QED
      BY <1>3, <2>4 DEF LengthsFit
<1>4. ASSUME ~LongTwins(accounts), NEW i \in DOMAIN accounts
      PROVE  new[i].suffix = 0 \/ new[i].orid \notin LongOrid
  <2>1. CASE FirstClaim(accounts, i)
      BY <1>2, <2>1 DEF LengthsFit
  <2>2. CASE ~FirstClaim(accounts, i)
    <3>1. PICK j \in 1 .. i - 1 : SameId(accounts[j], accounts[i])
        BY <2>2 DEF FirstClaim
    <3>2. j \in DOMAIN accounts /\ i # j
        BY <1>1, <3>1
    <3>3. accounts[j].orid \notin LongOrid
        BY <1>4, <3>1, <3>2 DEF LongTwins
    <3> QED
        BY <1>2, <3>1, <3>3 DEF SameId
  <2> QED
      BY <2>1, <2>2
<1>5. ~LongTwins(accounts) => LengthsFit(new)
    BY <1>1, <1>4 DEF LengthsFit
<1> QED
    BY <1>3, <1>5 DEF new

(* A revision whose predecessor the rows fit can be applied, 0006 if the    *)
(* suffixes fit.                                                            *)
LEMMA RowsUp ==
    ASSUME NEW d, DOMAIN d = Fields, NEW r \in 1 .. HeadRev, RowsOf(r - 1, d.accounts, d.runs),
           r = 6 => LengthsFit(Distinct(d.accounts))
    PROVE  RowsOf(r, UpStep(r, d).accounts, UpStep(r, d).runs)
<1> USE DEF Fields, HeadRev
<1>1. r = 1 => RowsOf(1, Up0001(d).accounts, Up0001(d).runs)
  <2>1. Up0001(d).accounts = d.accounts /\ Up0001(d).runs = d.runs
      BY DEF Up0001
  <2> QED
      BY <2>1 DEF RowsOf, TypedRows, PasswordsGiven
<1>2. r = 2 => RowsOf(2, Up0002(d).accounts, Up0002(d).runs)
  <2>1. Up0002(d).accounts = d.accounts /\ Up0002(d).runs = Settled(d.runs)
      BY DEF Up0002
  <2> QED
      BY <2>1, SettledRuns DEF RowsOf, TypedRows
<1>3. r = 3 => RowsOf(3, Up0003(d).accounts, Up0003(d).runs)
  <2>1. Up0003(d).accounts = d.accounts /\ Up0003(d).runs = d.runs
      BY DEF Up0003
  <2> QED
      BY <2>1 DEF RowsOf
<1>4. r = 4 => RowsOf(4, Up0004(d).accounts, Up0004(d).runs)
  <2> DEFINE old == d.accounts
             new == [i \in DOMAIN old |-> IF old[i].orid = Unset THEN [old[i] EXCEPT !.orid = Placeholder]
                                          ELSE old[i]]
  <2>1. Up0004(d).accounts = new /\ Up0004(d).runs = d.runs
      BY DEF Up0004
  <2> SUFFICES ASSUME r = 4
               PROVE  RowsOf(4, new, d.runs)
      BY <2>1
  <2>2. TypedRows(old, d.runs) /\ OneInProgress(d.runs)
      BY DEF RowsOf
  <2>3. /\ Len(old) \in Nat /\ DOMAIN old = 1 .. Len(old) /\ DOMAIN new = 1 .. Len(old)
        /\ new = [i \in 1 .. Len(old) |-> new[i]]
        /\ \A i \in DOMAIN old : old[i] \in Account /\ old[i].suffix \in {0, i}
      BY <2>2 DEF TypedRows
  <2> HIDE DEF old
  <2>4. \A i \in DOMAIN old : new[i] \in Account /\ new[i].suffix \in {0, i} /\ new[i].orid # Unset
      BY <2>3 DEF Account, Unset, Placeholder
  <2>6. \A i \in DOMAIN old : new[i].suffix = old[i].suffix /\ new[i].orid \in {old[i].orid, Placeholder}
      BY <2>3 DEF Account
  <2>7. LengthsFit(old)
      BY <2>2 DEF TypedRows
  <2> HIDE DEF new
  <2>5. new \in Seq(Account)
      BY <2>3, <2>4, ListOf
  <2>8. LengthsFit(new)
      BY <2>3, <2>6, <2>7, LongOridAssumption DEF LengthsFit
  <2> QED
      BY <2>2, <2>3, <2>4, <2>5, <2>8 DEF RowsOf, TypedRows, IdsGiven
<1>5. r = 5 => RowsOf(5, Up0005(d).accounts, Up0005(d).runs)
  <2>1. Up0005(d).accounts = d.accounts /\ Up0005(d).runs = d.runs
      BY DEF Up0005
  <2> QED
      BY <2>1 DEF RowsOf
<1>6. r = 6 => RowsOf(6, Up0006(d).accounts, Up0006(d).runs)
  <2>1. Up0006(d).accounts = Distinct(d.accounts) /\ Up0006(d).runs = d.runs
      BY DEF Up0006
  <2> QED
      BY <2>1, DistinctAccounts DEF RowsOf, TypedRows, IdsGiven
<1>7. r = 7 => RowsOf(7, Up0007(d).accounts, Up0007(d).runs)
  <2>1. Up0007(d).accounts = d.accounts /\ Up0007(d).runs = d.runs
      BY DEF Up0007
  <2> QED
      BY <2>1 DEF RowsOf
<1>8. r = 8 => RowsOf(8, Up0008(d).accounts, Up0008(d).runs)
  <2>1. Up0008(d).accounts = d.accounts /\ Up0008(d).runs = d.runs
      BY DEF Up0008, Guarded
  <2> QED
      BY <2>1 DEF RowsOf
<1>9. r = 9 => RowsOf(9, Up0009(d).accounts, Up0009(d).runs)
  <2>1. Up0009(d).accounts = d.accounts /\ Up0009(d).runs = d.runs
      BY DEF Up0009, Guarded
  <2> QED
      BY <2>1 DEF RowsOf
<1>10. r = 10 => RowsOf(10, Up0010(d).accounts, Up0010(d).runs)
  <2>1. Up0010(d).accounts = d.accounts /\ Up0010(d).runs = d.runs
      BY DEF Up0010, Guarded
  <2> QED
      BY <2>1 DEF RowsOf
<1>11. r = 11 => RowsOf(11, Up0011(d).accounts, Up0011(d).runs)
  <2>1. Up0011(d).accounts = d.accounts /\ Up0011(d).runs = d.runs
      BY DEF Up0011
  <2> QED
      BY <2>1 DEF RowsOf
<1>12. r = 12 => RowsOf(12, Up0012(d).accounts, Up0012(d).runs)
  <2>1. Up0012(d).accounts = d.accounts /\ Up0012(d).runs = d.runs
      BY DEF Up0012, Lost
  <2> QED
      BY <2>1 DEF RowsOf
<1>13. r = 13 => RowsOf(13, Up0013(d).accounts, Up0013(d).runs)
  <2>1. Up0013(d).accounts = d.accounts /\ Up0013(d).runs = d.runs
      BY DEF Up0013, Guarded
  <2> QED
      BY <2>1 DEF RowsOf
<1>14. r = 14 => RowsOf(14, Up0014(d).accounts, Up0014(d).runs)
  <2>1. Up0014(d).accounts = d.accounts /\ Up0014(d).runs = d.runs
      BY DEF Up0014
  <2> QED
      BY <2>1 DEF RowsOf
<1>15. r = 15 => RowsOf(15, Up0015(d).accounts, Up0015(d).runs)
  <2>1. Up0015(d).accounts = d.accounts /\ Up0015(d).runs = d.runs
      BY DEF Up0015
  <2> QED
      BY <2>1 DEF RowsOf
<1>16. r = 16 => RowsOf(16, Up0016(d).accounts, Up0016(d).runs)
  <2>1. Up0016(d).accounts = d.accounts /\ Up0016(d).runs = d.runs
      BY DEF Up0016
  <2> QED
      BY <2>1 DEF RowsOf
<1>17. r = 17 => RowsOf(17, Up0017(d).accounts, Up0017(d).runs)
  <2>1. Up0017(d).accounts = d.accounts /\ Up0017(d).runs = d.runs
      BY DEF Up0017
  <2> QED
      BY <2>1 DEF RowsOf
<1>18. r = 18 => RowsOf(18, Up0018(d).accounts, Up0018(d).runs)
  <2>1. Up0018(d).accounts = d.accounts /\ Up0018(d).runs = d.runs
      BY DEF Up0018
  <2> QED
      BY <2>1 DEF RowsOf
<1> QED
    BY StepsOfRevisions, <1>1, <1>2, <1>3, <1>4, <1>5, <1>6, <1>7, <1>8, <1>9, <1>10, <1>11, <1>12,
       <1>13, <1>14, <1>15, <1>16, <1>17, <1>18

(* Undoing a revision keeps rows that the earlier constraints admit.        *)
LEMMA RowsDown ==
    ASSUME NEW d, DOMAIN d = Fields, NEW r \in 1 .. HeadRev, RowsOf(r, d.accounts, d.runs),
           d.cols = ColumnsAt(r), d.idx = IndexesAt(r), RowsFit(DownStep(r, d))
    PROVE  RowsOf(r - 1, DownStep(r, d).accounts, DownStep(r, d).runs)
<1> DEFINE new == DownStep(r, d)
           Same == new.accounts = d.accounts /\ new.runs = d.runs
<1>1. TypedRows(d.accounts, d.runs)
    BY DEF RowsOf
<1>2. /\ r - 1 >= 2 => OneInProgress(new.runs)
      /\ r - 1 >= 6 => IdsDiffer(new.accounts)
      /\ r - 1 >= 4 => IdsGiven(new.accounts)
      /\ r - 1 \in 1 .. 3 => PasswordsGiven(new.accounts)
  <2>1. new.cols = ColumnsAt(r - 1) /\ new.idx = IndexesAt(r - 1)
      BY ColumnsDown, IndexesDown
  <2>2. r - 1 \in 0 .. HeadRev
      BY DEF HeadRev
  <2> HIDE DEF new
  <2> QED
      BY <2>1, <2>2, RowsFitAt DEF new
<1>3. CASE r = 1
  <2>1. new.accounts = <<>> /\ new.runs = <<>>
      BY <1>3, StepsOfRevisions DEF Down0001, Fields
  <2> HIDE DEF new
  <2>2. TypedRows(<<>>, <<>>)
      BY DEF TypedRows, LengthsFit
  <2> QED
      BY <1>2, <1>3, <2>1, <2>2 DEF RowsOf, new
<1>4. CASE r = 4
  <2> DEFINE old == d.accounts
             reset == [i \in DOMAIN old |-> [old[i] EXCEPT !.orid = Unset, !.suffix = 0]]
  <2>1. new.accounts = reset /\ new.runs = d.runs
      BY <1>4, StepsOfRevisions DEF Down0004, Fields
  <2>2. /\ Len(old) \in Nat /\ DOMAIN old = 1 .. Len(old)
        /\ \A i \in DOMAIN old : old[i] \in Account
      BY ONLY <1>1 DEF TypedRows
  <2>3. DOMAIN reset = 1 .. Len(old) /\ reset = [i \in 1 .. Len(old) |-> reset[i]]
      BY ONLY <2>2
  <2> HIDE DEF old
  <2>4. \A i \in DOMAIN old : reset[i] \in Account /\ reset[i].suffix = 0
      BY <2>2 DEF Account
  <2> HIDE DEF reset
  <2>5. reset \in Seq(Account)
      BY <2>2, <2>3, <2>4, ListOf
  <2>6. TypedRows(reset, d.runs)
      BY <1>1, <2>2, <2>3, <2>4, <2>5 DEF TypedRows, LengthsFit
  <2> HIDE DEF new
  <2> QED
      BY <1>2, <1>4, <2>1, <2>6 DEF RowsOf, new
<1>5. CASE r \notin {1, 4}
  <2>1. Same
    <3> USE DEF Fields
    <3>2. DownStep(2, d).accounts = d.accounts /\ DownStep(2, d).runs = d.runs
        BY StepsOfRevisions DEF Down0002
    <3>3. DownStep(3, d).accounts = d.accounts /\ DownStep(3, d).runs = d.runs
        BY StepsOfRevisions DEF Down0003
    <3>5. DownStep(5, d).accounts = d.accounts /\ DownStep(5, d).runs = d.runs
        BY StepsOfRevisions DEF Down0005
    <3>6. DownStep(6, d).accounts = d.accounts /\ DownStep(6, d).runs = d.runs
        BY StepsOfRevisions DEF Down0006
    <3>7. DownStep(7, d).accounts = d.accounts /\ DownStep(7, d).runs = d.runs
        BY StepsOfRevisions DEF Down0007
    <3>8. DownStep(8, d).accounts = d.accounts /\ DownStep(8, d).runs = d.runs
        BY StepsOfRevisions DEF Down0008, Lost
    <3>9. DownStep(9, d).accounts = d.accounts /\ DownStep(9, d).runs = d.runs
        BY StepsOfRevisions DEF Down0009, Lost
    <3>10. DownStep(10, d).accounts = d.accounts /\ DownStep(10, d).runs = d.runs
        BY StepsOfRevisions DEF Down0010, Lost
    <3>11. DownStep(11, d).accounts = d.accounts /\ DownStep(11, d).runs = d.runs
        BY StepsOfRevisions DEF Down0011
    <3>12. DownStep(12, d).accounts = d.accounts /\ DownStep(12, d).runs = d.runs
      <4>1. Down0012(d).accounts = d.accounts /\ Down0012(d).runs = d.runs
          BY DEF Down0012, Guarded
      <4> QED
          BY <4>1, StepsOfRevisions
    <3>13. DownStep(13, d).accounts = d.accounts /\ DownStep(13, d).runs = d.runs
        BY StepsOfRevisions DEF Down0013, Lost
    <3>14. DownStep(14, d).accounts = d.accounts /\ DownStep(14, d).runs = d.runs
        BY StepsOfRevisions DEF Down0014
    <3>15. DownStep(15, d).accounts = d.accounts /\ DownStep(15, d).runs = d.runs
        BY StepsOfRevisions DEF Down0015
    <3>16. DownStep(16, d).accounts = d.accounts /\ DownStep(16, d).runs = d.runs
        BY StepsOfRevisions DEF Down0016
    <3>17. DownStep(17, d).accounts = d.accounts /\ DownStep(17, d).runs = d.runs
        BY StepsOfRevisions DEF Down0017
    <3>18. DownStep(18, d).accounts = d.accounts /\ DownStep(18, d).runs = d.runs
        BY StepsOfRevisions DEF Down0018
    <3> QED
        BY <1>5, <3>2, <3>3, <3>5, <3>6, <3>7, <3>8, <3>9, <3>10, <3>11, <3>12, <3>13, <3>14,
           <3>15, <3>16, <3>17, <3>18
        DEF HeadRev
  <2> HIDE DEF new
  <2>2. r - 1 # 0
      BY <1>5
  <2> QED
      BY <1>1, <1>2, <2>1, <2>2 DEF RowsOf, new
<1> QED
    BY <1>3, <1>4, <1>5

-----------------------------------------------------------------------------
(* The invariant: schema, corpus and rows are those of the revision.        *)

MigrationsInv ==
    /\ rev \in 0 .. HeadRev /\ DOMAIN db = Fields
    /\ db.cols = ColumnsAt(rev) /\ db.idx = IndexesAt(rev)
    /\ CorpusFits(rev, db.corpus)
    /\ RowsOf(rev, db.accounts, db.runs)

LEMMA MigrationsStart == MigrationsInit => MigrationsInv
<1> SUFFICES ASSUME MigrationsInit
             PROVE  MigrationsInv
    OBVIOUS
<1> USE DEF MigrationsInit
<1>1. PICK objects \in {{}, FreshCorpus, OldCorpus} : db = [Empty EXCEPT !.corpus = objects]
    OBVIOUS
<1>2. /\ DOMAIN db = Fields /\ db.cols = {} /\ db.idx = {} /\ db.corpus = objects
      /\ db.accounts = <<>> /\ db.runs = <<>>
    BY <1>1 DEF Empty, Fields
<1>3. ColumnsAt(0) = {} /\ IndexesAt(0) = {}
    BY
    DEF ColumnsAt, UsersAt, SubmissionsAt, PredictionsAt, MatchesAt, ProfilesAt, IndexesAt, From,
        While, HeadRev
<1>4. CorpusFits(0, objects)
    BY <1>1 DEF CorpusFits, FreshCorpus, OldCorpus
<1>5. RowsOf(0, <<>>, <<>>)
    BY DEF RowsOf, TypedRows, LengthsFit
<1>6. rev = 0 /\ 0 \in 0 .. HeadRev
    BY DEF HeadRev
<1> QED
    BY ONLY <1>2, <1>3, <1>4, <1>5, <1>6 DEF MigrationsInv

LEMMA DistinctStep ==
    ASSUME NEW d, DOMAIN d = Fields
    PROVE  UpStep(6, d).accounts = Distinct(d.accounts) /\ UpStep(6, d).runs = d.runs
<1>1. UpStep(6, d) = Up0006(d)
    BY StepsOfRevisions
<1>2. Up0006(d).accounts = Distinct(d.accounts) /\ Up0006(d).runs = d.runs
    BY DEF Up0006, Fields
<1> QED
    BY <1>1, <1>2

(* The rows of an upgraded database are those of its revision: at 0006 the  *)
(* upgrade itself checks that the suffixes fit.                             *)
LEMMA UpgradeKeeps == MigrationsInv /\ Upgrade => MigrationsInv'
<1> SUFFICES ASSUME MigrationsInv, Upgrade
             PROVE  MigrationsInv'
    OBVIOUS
<1> DEFINE new == UpStep(rev + 1, db)
<1>1. rev + 1 \in 1 .. HeadRev /\ rev + 1 \in 0 .. HeadRev /\ (rev + 1) - 1 = rev
    BY DEF MigrationsInv, Upgrade, HeadRev
<1>2. /\ DOMAIN new = Fields /\ new.cols = ColumnsAt(rev + 1) /\ new.idx = IndexesAt(rev + 1)
      /\ CorpusFits(rev + 1, new.corpus)
    BY <1>1, UpShape, ColumnsUp, IndexesUp, CorpusMoves DEF MigrationsInv
<1>3. rev' = rev + 1 /\ db' = new /\ RowsFit(new)
    BY DEF Upgrade
<1>4. rev + 1 = 6 => LengthsFit(Distinct(db.accounts))
  <2> SUFFICES ASSUME rev + 1 = 6
               PROVE  LengthsFit(Distinct(db.accounts))
      OBVIOUS
  <2>1. new.accounts = Distinct(db.accounts)
      BY DistinctStep DEF MigrationsInv
  <2> HIDE DEF new
  <2> QED
      BY <1>1, <1>2, <1>3, <2>1, RowsFitAt
<1>5. RowsOf(rev + 1, new.accounts, new.runs)
    BY <1>1, <1>4, RowsUp DEF MigrationsInv
<1> HIDE DEF new
<1> QED
    BY <1>1, <1>2, <1>3, <1>5 DEF MigrationsInv

(* An upgrade fails at 0006 and two accounts with one long id, nowhere else. *)
LEMMA UpgradeFails == MigrationsInv => OnlyLongTwinsStick
<1> SUFFICES ASSUME MigrationsInv, rev < HeadRev
             PROVE  ~RowsFit(UpStep(rev + 1, db)) <=> (rev = 5 /\ LongTwins(db.accounts))
    BY DEF OnlyLongTwinsStick, MigrationsInv, HeadRev
<1> DEFINE new == UpStep(rev + 1, db)
<1>1. rev + 1 \in 1 .. HeadRev /\ rev + 1 \in 0 .. HeadRev /\ (rev + 1) - 1 = rev
    BY DEF MigrationsInv, HeadRev
<1>2. new.cols = ColumnsAt(rev + 1) /\ new.idx = IndexesAt(rev + 1)
    BY <1>1, ColumnsUp, IndexesUp DEF MigrationsInv
<1>3. CASE rev = 5
  <2>1. new.accounts = Distinct(db.accounts) /\ new.runs = db.runs
    <3>1. rev + 1 = 6
        BY <1>3
    <3> QED
        BY <3>1, DistinctStep DEF MigrationsInv
  <2>2. /\ db.accounts \in Seq(Account) /\ LengthsFit(db.accounts) /\ OneInProgress(db.runs)
        /\ IdsGiven(db.accounts) /\ \A i \in DOMAIN db.accounts : db.accounts[i].suffix \in {0, i}
      BY <1>3 DEF MigrationsInv, RowsOf, TypedRows
  <2>3. IdsDiffer(new.accounts) /\ IdsGiven(new.accounts)
      BY <2>1, <2>2, DistinctAccounts DEF IdsGiven
  <2>4. LengthsFit(new.accounts) <=> ~LongTwins(db.accounts)
      BY <2>1, <2>2, DistinctLengths
  <2> HIDE DEF new
  <2>5. RowsFit(new) <=> LengthsFit(new.accounts)
      BY <1>1, <1>2, <1>3, <2>1, <2>2, <2>3, RowsFitAt
  <2> QED
      BY <1>3, <2>4, <2>5 DEF new
<1>4. CASE rev # 5
  <2>1. rev + 1 # 6
      BY <1>1, <1>4
  <2>2. RowsOf(rev + 1, new.accounts, new.runs)
      BY <1>1, <2>1, RowsUp DEF MigrationsInv
  <2> HIDE DEF new
  <2>3. RowsFit(new)
      BY <1>1, <1>2, <2>2, RowsFitAt DEF RowsOf, TypedRows
  <2> QED
      BY <1>4, <2>3 DEF new
<1> QED
    BY <1>3, <1>4

LEMMA DowngradeKeeps == MigrationsInv /\ Downgrade => MigrationsInv'
<1> SUFFICES ASSUME MigrationsInv, Downgrade
             PROVE  MigrationsInv'
    OBVIOUS
<1> DEFINE new == DownStep(rev, db)
<1>1. rev \in 1 .. HeadRev /\ rev - 1 \in 0 .. HeadRev
    BY DEF MigrationsInv, Downgrade, HeadRev
<1>2. rev' = rev - 1 /\ db' = new /\ RowsFit(new)
    BY DEF Downgrade
<1>3. /\ DOMAIN new = Fields /\ new.cols = ColumnsAt(rev - 1) /\ new.idx = IndexesAt(rev - 1)
      /\ CorpusFits(rev - 1, new.corpus) /\ RowsOf(rev - 1, new.accounts, new.runs)
    BY <1>1, <1>2, UpShape, ColumnsDown, IndexesDown, CorpusMoves, RowsDown DEF MigrationsInv
<1> HIDE DEF new
<1> QED
    BY <1>1, <1>2, <1>3 DEF MigrationsInv

LEMMA LoadCorpusKeeps == MigrationsInv /\ LoadCorpus => MigrationsInv'
<1> SUFFICES ASSUME MigrationsInv, LoadCorpus
             PROVE  MigrationsInv'
    OBVIOUS
<1>1. /\ DOMAIN db' = Fields /\ db'.corpus = FreshCorpus /\ db'.cols = db.cols /\ db'.idx = db.idx
      /\ db'.accounts = db.accounts /\ db'.runs = db.runs /\ rev' = rev
    BY DEF LoadCorpus, MigrationsInv, Fields
<1>2. CorpusFits(rev, FreshCorpus)
    BY DEF CorpusFits, FreshCorpus, CorpusBase, Dead0012
<1> QED
    BY <1>1, <1>2 DEF MigrationsInv

(* A write that keeps the types keeps the rows: the constraints are checked. *)
LEMMA WriteKeeps ==
    ASSUME MigrationsInv, NEW accounts, NEW runs, TypedRows(accounts, runs), rev # 0,
           Write([db EXCEPT !.accounts = accounts, !.runs = runs])
    PROVE  MigrationsInv'
<1> DEFINE new == [db EXCEPT !.accounts = accounts, !.runs = runs]
<1>1. /\ DOMAIN new = Fields /\ new.cols = db.cols /\ new.idx = db.idx /\ new.corpus = db.corpus
      /\ new.accounts = accounts /\ new.runs = runs
    BY DEF MigrationsInv, Fields
<1>2. RowsFit(new) /\ db' = new /\ rev' = rev
    BY DEF Write
<1> HIDE DEF new
<1>3. RowsOf(rev, new.accounts, new.runs)
    BY <1>1, <1>2, RowsFitAt DEF RowsOf, MigrationsInv
<1> QED
    BY <1>1, <1>2, <1>3 DEF MigrationsInv

LEMMA AddAccountKeeps == MigrationsInv /\ AddAccount => MigrationsInv'
<1> SUFFICES ASSUME MigrationsInv, AddAccount
             PROVE  MigrationsInv'
    OBVIOUS
<1>1. PICK orid \in IF rev < 4 THEN {Unset} ELSE Orid, password \in BOOLEAN :
        Write([db EXCEPT !.accounts = Append(@, [orid |-> orid, suffix |-> 0, password |-> password])])
    BY DEF AddAccount
<1> DEFINE account == [orid |-> orid, suffix |-> 0, password |-> password]
           more == Append(db.accounts, account)
<1>2. TypedRows(db.accounts, db.runs) /\ rev # 0
    BY DEF MigrationsInv, RowsOf, AddAccount
<1>3. account \in Account /\ account.suffix = 0
    BY DEF Account
<1>4. [db EXCEPT !.accounts = Append(@, account)] = [db EXCEPT !.accounts = more, !.runs = db.runs]
    BY DEF MigrationsInv, Fields
<1> HIDE DEF account
<1>5. TypedRows(more, db.runs)
    BY <1>2, <1>3 DEF TypedRows, LengthsFit
<1> HIDE DEF more
<1> QED
    BY <1>1, <1>2, <1>4, <1>5, WriteKeeps DEF account

LEMMA AddRunKeeps == MigrationsInv /\ AddRun => MigrationsInv'
<1> SUFFICES ASSUME MigrationsInv, AddRun
             PROVE  MigrationsInv'
    OBVIOUS
<1>1. PICK draft \in Draft : Write([db EXCEPT !.runs = Append(@, [draft |-> draft, active |-> TRUE])])
    BY DEF AddRun
<1> DEFINE run == [draft |-> draft, active |-> TRUE]
           more == Append(db.runs, run)
<1>2. TypedRows(db.accounts, db.runs) /\ rev # 0
    BY DEF MigrationsInv, RowsOf, AddRun
<1>3. run \in Analysis
    BY DEF Analysis
<1>4. [db EXCEPT !.runs = Append(@, run)] = [db EXCEPT !.accounts = db.accounts, !.runs = more]
    BY DEF MigrationsInv, Fields
<1> HIDE DEF run
<1>5. TypedRows(db.accounts, more)
    BY <1>2, <1>3 DEF TypedRows
<1> HIDE DEF more
<1> QED
    BY <1>1, <1>2, <1>4, <1>5, WriteKeeps DEF run

LEMMA EndRunKeeps == MigrationsInv /\ EndRun => MigrationsInv'
<1> SUFFICES ASSUME MigrationsInv, EndRun
             PROVE  MigrationsInv'
    OBVIOUS
<1>1. PICK i \in DOMAIN db.runs : Write([db EXCEPT !.runs[i].active = FALSE])
    BY DEF EndRun
<1> DEFINE old == db.runs
           ended == [old EXCEPT ![i].active = FALSE]
<1>2. TypedRows(db.accounts, old)
    BY DEF MigrationsInv, RowsOf
<1>3. rev # 0
    BY <1>1 DEF MigrationsInv, RowsOf
<1>4. [db EXCEPT !.runs[i].active = FALSE] = [db EXCEPT !.accounts = db.accounts, !.runs = ended]
    BY DEF MigrationsInv, Fields
<1>5. i \in DOMAIN old
    BY <1>1
<1> HIDE DEF old
<1>6. TypedRows(db.accounts, ended)
  <2>1. old \in Seq(Analysis) /\ old[i] \in Analysis
      BY <1>2, <1>5 DEF TypedRows
  <2>2. [old[i] EXCEPT !.active = FALSE] \in Analysis
      BY <2>1 DEF Analysis
  <2>3. ended \in Seq(Analysis)
      BY <1>5, <2>1, <2>2
  <2> QED
      BY <1>2, <2>3 DEF TypedRows
<1> HIDE DEF ended
<1> QED
    BY <1>1, <1>3, <1>4, <1>6, WriteKeeps

(* At the head the written-out schema is the one of the models. *)
LEMMA MigrationsInvSuffices == MigrationsInv => SchemaSound
<1> SUFFICES ASSUME MigrationsInv
             PROVE  SchemaSound
    OBVIOUS
<1>1. OnlyLongTwinsStick
    BY UpgradeFails
<1>2. SchemaIsOfRevision
    BY AtIsWrittenOut DEF MigrationsInv, SchemaIsOfRevision
<1>3. HeadMatchesModels
  <2> SUFFICES ASSUME rev = HeadRev
               PROVE  /\ db.cols = ModelColumns /\ db.idx = ModelIndexes
                      /\ db.corpus \in {{}, FreshCorpus} /\ AutogenerateDrops(db) = {}
      BY DEF HeadMatchesModels
  <2>1. ColumnsAt(HeadRev) = ModelColumns
      BY
      DEF ColumnsAt, UsersAt, SubmissionsAt, PredictionsAt, MatchesAt, ProfilesAt, From, While,
          HeadRev,
             ModelColumns, UserModel, SubmissionModel, PredictionModel, MatchModel, ProfileModel, Of
  <2>2. IndexesAt(HeadRev) = ModelIndexes
      BY
      DEF IndexesAt, From, While, HeadRev, ModelIndexes, EmailKey, RunsIndex, MatchIndex,
          NewUserIndex
  <2>3. db.corpus \in {{}, FreshCorpus}
      BY DEF MigrationsInv, CorpusFits, CorpusBase, FreshCorpus, Dead0012, HeadRev
  <2>4. AutogenerateDrops(db) = {}
      BY <2>3 DEF AutogenerateDrops, FreshCorpus, CORPUS_TABLES, CorpusBase
  <2> QED
      BY <2>1, <2>2, <2>3, <2>4 DEF MigrationsInv
<1> QED
    BY <1>1, <1>2, <1>3 DEF SchemaSound

(* However a database came to its revision, by upgrades, downgrades, writes *)
(* in between and a corpus loaded early or late, it has the schema of that  *)
(* revision; at the head that is what src/app/models and init_db.sql        *)
(* declare; and an upgrade fails exactly where it is 0006 and two accounts  *)
(* share an id that leaves no room for a suffix in VARCHAR(100).            *)
THEOREM SchemaIsSound == MigrationsSpec => []SchemaSound
<1>1. MigrationsInv /\ [MigrationsNext]_migrationVars => MigrationsInv'
  <2>1. ASSUME MigrationsInv, UNCHANGED migrationVars
        PROVE  MigrationsInv'
      BY <2>1 DEF MigrationsInv, migrationVars
  <2> QED
      BY <2>1, UpgradeKeeps, DowngradeKeeps, LoadCorpusKeeps, AddAccountKeeps, AddRunKeeps,
         EndRunKeeps
      DEF MigrationsNext
<1> QED
    BY <1>1, MigrationsStart, MigrationsInvSuffices, PTL DEF MigrationsSpec

-----------------------------------------------------------------------------
(* The links of Enrichment.tla and the journeys read from them.             *)

Papers == DOMAIN PaperOf
Forward(e) == e[1] \in Papers /\ e[2] \in Papers /\ VenueSortKey(e[1]) < VenueSortKey(e[2])
LinksForward == \A l \in links : Forward(l.pair)

(* What a batch holds in memory and leaves in the table.                    *)
JourneyInv ==
    /\ papers \subseteq Papers
    /\ "snapshot" \in DOMAIN batch /\ batch["snapshot"] \subseteq Papers
    /\ LinksForward

LEMMA KeysAreNumbers == \A p \in Papers : /\ p \in Nat /\ PaperOf[p].year \in Nat
                                          /\ VenueSortKey(p) \in Nat
BY ResubmissionConstants DEF ResubmissionConstants, Papers, VenueSortKey

(* Submissions to different venues are never at the same time, and InOrder  *)
(* tells the earlier one.                                                   *)
LEMMA FoundForward ==
    ASSUME NEW ids \in SUBSET Papers, NEW arx
    PROVE  \A l \in FindLinks(ids, arx) : Forward(l.pair)
<1> SUFFICES ASSUME NEW l \in FindLinks(ids, arx)
             PROVE  Forward(l.pair)
    OBVIOUS
<1>1. PICK x \in ids \X ids : x[1] < x[2] /\ DifferentSubmission(x[1], x[2]) /\ l.pair = InOrder(x[1], x[2])
    BY DEF FindLinks
<1> DEFINE p == x[1]
           q == x[2]
<1>2. p \in Papers /\ q \in Papers
    BY <1>1
<1>3. VenueSortKey(p) # VenueSortKey(q)
  <2>1. /\ PaperOf[p].year \in Nat /\ PaperOf[q].year \in Nat
        /\ PaperOf[p].conf \in {"ICLR", "NeurIPS"} /\ PaperOf[q].conf \in {"ICLR", "NeurIPS"}
      BY <1>2, ResubmissionConstants DEF ResubmissionConstants, Papers
  <2>2. PaperOf[p].conf # PaperOf[q].conf \/ PaperOf[p].year # PaperOf[q].year
      BY <1>1 DEF DifferentSubmission
  <2> QED
      BY <2>1, <2>2 DEF VenueSortKey
<1>4. l.pair = InOrder(p, q)
    BY <1>1
<1>5. VenueSortKey(p) \in Nat /\ VenueSortKey(q) \in Nat
    BY <1>2, KeysAreNumbers
<1> HIDE DEF p, q
<1>6. CASE VenueSortKey(p) <= VenueSortKey(q)
    BY <1>2, <1>3, <1>4, <1>5, <1>6 DEF InOrder, Forward
<1>7. CASE ~(VenueSortKey(p) <= VenueSortKey(q))
    BY <1>2, <1>3, <1>4, <1>5, <1>7 DEF InOrder, Forward
<1> QED
    BY <1>6, <1>7

(* A step of the batch leaves the snapshot or takes one of the papers.      *)
LEMMA SnapshotKept ==
    ASSUME JourneyInv, NEW from, NEW fields, Step(from, fields),
           "snapshot" \in DOMAIN fields => fields["snapshot"] \subseteq Papers
    PROVE  "snapshot" \in DOMAIN batch' /\ batch'["snapshot"] \subseteq Papers
BY DEF Step, JourneyInv

LEMMA JourneyStart == EnrichmentInit => JourneyInv
BY FirstPapersKnown DEF EnrichmentInit, FirstPapersKnown, JourneyInv, Idle, LinksForward, Papers

LEMMA JourneySteps == JourneyInv /\ [EnrichmentNext]_enrichmentVars => JourneyInv'
<1> SUFFICES ASSUME JourneyInv, [EnrichmentNext]_enrichmentVars
             PROVE  JourneyInv'
    OBVIOUS
<1> USE DEF columns, files, history
<1> DEFINE Known == "snapshot" \in DOMAIN batch' /\ batch'["snapshot"] \subseteq Papers
<1>0. ASSUME papers' = papers, links' = links, Known
      PROVE  JourneyInv'
    BY <1>0 DEF JourneyInv, LinksForward
<1>i. "snapshot" \in DOMAIN Idle /\ Idle["snapshot"] \subseteq Papers
    BY DEF Idle
<1>1. CASE StartBatch
  <2>1. Known
      BY <1>1, SnapshotKept DEF StartBatch, Goto
  <2> QED
      BY <1>0, <1>1, <2>1 DEF StartBatch
<1>2. CASE HarvestDone
  <2>1. Known
      BY <1>2, SnapshotKept DEF HarvestDone, Goto
  <2> QED
      BY <1>0, <1>2, <2>1 DEF HarvestDone
<1>3. CASE HarvestPage
  <2>1. Known
      BY <1>3, SnapshotKept DEF HarvestPage, Goto
  <2> QED
      BY <1>0, <1>3, <2>1 DEF HarvestPage
<1>4. CASE SaveCheckpoint
  <2>1. Known
      BY <1>4, SnapshotKept DEF SaveCheckpoint, Goto
  <2> QED
      BY <1>0, <1>4, <2>1 DEF SaveCheckpoint
<1>5. CASE MatchArxiv
  <2>1. Known
    <3>1. CASE Step("match", Idle)
        BY <1>i, <3>1, SnapshotKept
    <3>2. CASE Step("match", [at |-> "byArxiv", base |-> papers])
        BY <3>2, SnapshotKept
    <3>3. CASE Step("match", Goto("unreadable"))
        BY <3>3, SnapshotKept DEF Goto
    <3> QED
        BY <1>5, <3>1, <3>2, <3>3 DEF MatchArxiv
  <2> QED
      BY <1>0, <1>5, <2>1 DEF MatchArxiv
<1>6. CASE EnrichByArxiv
  <2>1. Known
      BY <1>6, SnapshotKept DEF EnrichByArxiv, Goto
  <2> QED
      BY <1>0, <1>6, <2>1 DEF EnrichByArxiv
<1>7. CASE PendingByConf
  <2>1. Known
      BY <1>7, SnapshotKept DEF PendingByConf, Ask
  <2> QED
      BY <1>0, <1>7, <2>1 DEF PendingByConf
<1>8. CASE EnrichByVenuePage
  <2>1. Known
      BY <1>8, SnapshotKept DEF EnrichByVenuePage
  <2> QED
      BY <1>0, <1>8, <2>1 DEF EnrichByVenuePage
<1>9. CASE NextQuery
  <2>1. Known
      BY <1>9, SnapshotKept DEF NextQuery
  <2> QED
      BY <1>0, <1>9, <2>1 DEF NextQuery
<1>10. CASE SearchFails
  <2>1. Known
      BY <1>10, SnapshotKept DEF SearchFails
  <2> QED
      BY <1>0, <1>10, <2>1 DEF SearchFails
<1>11. CASE EnrichedByVenue
  <2>1. Known
      BY <1>11, SnapshotKept DEF EnrichedByVenue, Goto
  <2> QED
      BY <1>0, <1>11, <2>1 DEF EnrichedByVenue
<1>12. CASE FetchPapers
  <2>1. Known
      BY <1>12, SnapshotKept DEF FetchPapers, JourneyInv
  <2> QED
      BY <1>0, <1>12, <2>1 DEF FetchPapers
<1>13. CASE RunLinking
  <2>1. Known
    <3>1. CASE Step("relink", Idle)
        BY <1>i, <3>1, SnapshotKept
    <3>2. CASE Step("relink", Goto("percentile"))
        BY <3>2, SnapshotKept DEF Goto
    <3> QED
        BY <1>13, <3>1, <3>2 DEF RunLinking
  <2>2. papers' = papers /\ (links' = links \/ links' = FindLinks(batch["snapshot"], batch.seen))
      BY <1>13 DEF RunLinking
  <2>3. \A l \in FindLinks(batch["snapshot"], batch.seen) : Forward(l.pair)
      BY FoundForward DEF JourneyInv
  <2> QED
      BY <2>1, <2>2, <2>3 DEF JourneyInv, LinksForward
<1>14. CASE RefreshPercentiles
  <2>1. Known
      BY <1>i, <1>14, SnapshotKept DEF RefreshPercentiles
  <2> QED
      BY <1>0, <1>14, <2>1 DEF RefreshPercentiles
<1>15. CASE StopBatch
  <2>1. Known
      BY <1>i, <1>15 DEF StopBatch
  <2> QED
      BY <1>0, <1>15, <2>1 DEF StopBatch
<1>16. CASE IngestPaper
  <2>1. papers' \subseteq Papers /\ links' = links /\ batch' = batch
      BY <1>16 DEF IngestPaper, JourneyInv, Papers
  <2> QED
      BY <2>1 DEF JourneyInv, LinksForward
<1>17. CASE StopInAppend \/ StopInSave
  <2>1. Known
      BY <1>i, <1>17 DEF StopInAppend, StopInSave
  <2> QED
      BY <1>0, <1>17, <2>1 DEF StopInAppend, StopInSave
<1>18. CASE UNCHANGED enrichmentVars
    BY <1>18 DEF enrichmentVars, JourneyInv, LinksForward
<1> QED
    BY <1>1, <1>2, <1>3, <1>4, <1>5, <1>6, <1>7, <1>8, <1>9, <1>10, <1>11, <1>12, <1>13, <1>14, <1>15,
       <1>16, <1>17, <1>18
    DEF EnrichmentNext

-----------------------------------------------------------------------------
(* The hops: what a call has seen, and that it has seen enough.             *)

AtStart(p) == [seen |-> {p}, edges |-> {}, frontier |-> {p}]

LEMMA HopsUnfold ==
    ASSUME NEW L, NEW p
    PROVE  /\ Hops(L, p)[0] = AtStart(p)
           /\ \A n \in 1 .. MAX_STOPS : Hops(L, p)[n] = Hop(L, Hops(L, p)[n - 1])
<1> DEFINE Solves(h, n) == h = [k \in 0 .. n |-> IF k = 0 THEN AtStart(p) ELSE Hop(L, h[k - 1])]
           bad == {n \in Nat : \A h : ~Solves(h, n)}
<1>1. bad = {}
  <2> SUFFICES ASSUME bad # {}
               PROVE  FALSE
      OBVIOUS
  <2>1. PICK m \in bad : \A n \in bad : m <= n
    <3>1. bad \in SUBSET Nat
        OBVIOUS
    <3> HIDE DEF bad
    <3> QED
        BY <3>1, LeastNatural
  <2>2. CASE m = 0
    <3> DEFINE h == [k \in 0 .. 0 |-> AtStart(p)]
    <3>1. Solves(h, 0)
        OBVIOUS
    <3> HIDE DEF h
    <3>2. 0 \notin bad
        BY <3>1
    <3> HIDE DEF bad
    <3> QED
        BY <2>1, <2>2, <3>2
  <2>3. CASE m > 0
    <3>1. m \in Nat /\ m - 1 \in Nat /\ m - 1 \notin bad
      <4>1. m \in Nat /\ m - 1 \in Nat /\ ~(m <= m - 1)
          BY <2>3
      <4> HIDE DEF bad
      <4> QED
          BY <2>1, <4>1
    <3>2. PICK g : Solves(g, m - 1)
        BY <3>1
    <3> DEFINE h == [k \in 0 .. m |-> IF k < m THEN g[k] ELSE Hop(L, g[m - 1])]
    <3>3. \A k \in 0 .. m - 1 : g[k] = IF k = 0 THEN AtStart(p) ELSE Hop(L, g[k - 1])
        BY <3>2
    <3>4. ASSUME NEW k \in 0 .. m
          PROVE  h[k] = IF k = 0 THEN AtStart(p) ELSE Hop(L, h[k - 1])
      <4>1. CASE k < m
        <5>1. k \in 0 .. m - 1 /\ h[k] = g[k] /\ (k # 0 => k - 1 \in 0 .. m /\ h[k - 1] = g[k - 1])
            BY <3>1, <4>1
        <5> QED
            BY <5>1, <3>3
      <4>2. CASE ~(k < m)
        <5>1. k = m /\ k # 0 /\ m - 1 \in 0 .. m /\ m - 1 < m
            BY <3>1, <2>3, <4>2
        <5>2. h[k] = Hop(L, g[m - 1]) /\ h[m - 1] = g[m - 1]
            BY <5>1
        <5> QED
            BY <5>1, <5>2
      <4> QED
          BY <4>1, <4>2
    <3>5. Solves(h, m)
        BY <3>4
    <3> QED
        BY <2>1, <3>5
  <2> QED
      BY <2>1, <2>2, <2>3
<1>2. MAX_STOPS \in Nat
    BY ResubmissionConstants DEF ResubmissionConstants
<1>3. \E h : Solves(h, MAX_STOPS)
    BY <1>1, <1>2
<1>4. Hops(L, p) = CHOOSE h : Solves(h, MAX_STOPS)
    BY DEF Hops, AtStart
<1>5. Solves(Hops(L, p), MAX_STOPS)
    BY <1>3, <1>4
<1> QED
    BY <1>2, <1>5

Ends(E) == UNION {{e[1], e[2]} : e \in E}
Closed(L, C) == \A l \in L : l.pair[1] \in C <=> l.pair[2] \in C
Touches(l, C) == l.pair[1] \in C \/ l.pair[2] \in C

LEMMA EndsHas == \A E, q : q \in Ends(E) <=> \E e \in E : q = e[1] \/ q = e[2]
BY DEF Ends

(* All links of the papers behind the frontier are there, and what is seen  *)
(* is what they lead to.                                                    *)
HopSound(L, p, s) ==
    /\ p \in s.seen /\ s.seen \subseteq Papers /\ s.frontier \subseteq s.seen
    /\ s.seen = {p} \cup Ends(s.edges)
    /\ \A e \in s.edges : \E l \in L : e = l.pair
    /\ \A l \in L : Touches(l, s.seen \ s.frontier) => l.pair \in s.edges
    /\ \A C \in SUBSET Papers : Closed(L, C) /\ p \in C => s.seen \subseteq C

LEMMA HopKeeps ==
    ASSUME NEW L, \A l \in L : Forward(l.pair), NEW p, NEW s, HopSound(L, p, s)
    PROVE  HopSound(L, p, Hop(L, s))
<1> DEFINE rows == {l.pair : l \in {l \in L : {l.pair[1], l.pair[2]} \cap s.frontier # {}}}
           reached == Ends(rows)
           t == Hop(L, s)
<1>1. CASE t = s
    BY <1>1
<1>2. CASE t = [seen |-> s.seen \cup reached, edges |-> s.edges \cup rows, frontier |-> reached \ s.seen]
  <2>1. t.seen = s.seen \cup reached /\ t.edges = s.edges \cup rows /\ t.frontier = reached \ s.seen
      BY <1>2
  <2>2. \A e : e \in rows <=> \E l \in L : e = l.pair /\ Touches(l, s.frontier)
      BY DEF Touches
  <2> HIDE DEF rows, t
  <2>3. Ends(s.edges \cup rows) = Ends(s.edges) \cup reached
      BY EndsHas
  <2>4. reached \subseteq Papers
      BY <2>2, EndsHas DEF Forward
  <2>5. \A l \in L : Touches(l, t.seen \ t.frontier) => l.pair \in t.edges
    <3> SUFFICES ASSUME NEW l \in L, Touches(l, t.seen \ t.frontier)
                 PROVE  l.pair \in t.edges
        OBVIOUS
    <3>1. t.seen \ t.frontier = s.seen
        BY <2>1
    <3>2. Touches(l, s.seen \ s.frontier) \/ Touches(l, s.frontier)
        BY <3>1 DEF Touches
    <3> QED
        BY <2>1, <2>2, <3>2 DEF HopSound
  <2>6. ASSUME NEW C \in SUBSET Papers, Closed(L, C), p \in C
        PROVE  t.seen \subseteq C
    <3>1. s.seen \subseteq C /\ s.frontier \subseteq C
        BY <2>6 DEF HopSound
    <3>2. \A e \in rows : e[1] \in C /\ e[2] \in C
        BY <2>2, <2>6, <3>1 DEF Touches, Closed
    <3> QED
        BY <2>1, <3>1, <3>2, EndsHas
  <2> HIDE DEF reached
  <2>7. /\ p \in t.seen /\ t.seen \subseteq Papers /\ t.frontier \subseteq t.seen
        /\ t.seen = {p} \cup Ends(t.edges)
      BY <2>1, <2>3, <2>4 DEF HopSound
  <2>8. \A e \in t.edges : \E l \in L : e = l.pair
      BY <2>1, <2>2 DEF HopSound
  <2>9. HopSound(L, p, t)
      BY <2>5, <2>6, <2>7, <2>8 DEF HopSound
  <2> QED
      BY <2>9 DEF t
<1> QED
    BY <1>1, <1>2 DEF Hop, Ends

(* Every hop sees a paper more, or it is the last.                          *)
LEMMA HopGrows ==
    ASSUME NEW L, \A l \in L : Forward(l.pair), NEW p, NEW s, HopSound(L, p, s)
    PROVE  LET t == Hop(L, s)
           IN \/ t = s /\ (s.frontier = {} \/ Cardinality(s.seen) >= MAX_STOPS)
              \/ t.frontier = {}
              \/ Cardinality(s.seen) + 1 <= Cardinality(t.seen)
<1> DEFINE t == Hop(L, s)
<1> SUFFICES ASSUME ~(s.frontier = {} \/ Cardinality(s.seen) >= MAX_STOPS), t.frontier # {}
             PROVE  Cardinality(s.seen) + 1 <= Cardinality(t.seen)
    BY DEF Hop
<1>1. s.seen \subseteq t.seen /\ t.frontier \cap s.seen = {}
    BY DEF Hop
<1>2. t.frontier \subseteq t.seen /\ t.seen \subseteq Papers
    BY HopKeeps DEF HopSound
<1> HIDE DEF t
<1>3. PICK q \in t.frontier : q \in t.seen /\ q \notin s.seen
    BY <1>1, <1>2
<1>4. IsFiniteSet(t.seen)
    BY <1>2, FS_Subset, ResubmissionConstants DEF ResubmissionConstants, Papers
<1>5. IsFiniteSet(s.seen)
    BY <1>1, <1>4, FS_Subset
<1>6. IsFiniteSet(s.seen \cup {q}) /\ Cardinality(s.seen \cup {q}) = Cardinality(s.seen) + 1
    BY <1>3, <1>5, FS_AddElement
<1>7. s.seen \cup {q} \subseteq t.seen
    BY <1>1, <1>3
<1>8. Cardinality(s.seen \cup {q}) <= Cardinality(t.seen)
    BY <1>4, <1>7, FS_Subset
<1> QED
    BY <1>6, <1>8

(* What a call knows at the end.                                            *)
LEMMA HopsSound ==
    ASSUME NEW L, \A l \in L : Forward(l.pair), NEW p \in Papers
    PROVE  LET s == Hops(L, p)[MAX_STOPS]
           IN HopSound(L, p, s) /\ (s.frontier = {} \/ Cardinality(s.seen) >= MAX_STOPS)
<1> DEFINE h == Hops(L, p)
           Enough(s, n) == s.frontier = {} \/ Cardinality(s.seen) >= MAX_STOPS \/ Cardinality(s.seen) >= n
           Good(n) == HopSound(L, p, h[n]) /\ Enough(h[n], n)
           bad == {n \in 0 .. MAX_STOPS : ~Good(n)}
<1>0. MAX_STOPS \in Nat
    BY ResubmissionConstants DEF ResubmissionConstants
<1>1. h[0] = AtStart(p) /\ \A n \in 1 .. MAX_STOPS : h[n] = Hop(L, h[n - 1])
    BY HopsUnfold
<1> HIDE DEF h
<1>2. Good(0)
  <2>1. h[0].seen = {p} /\ h[0].edges = {} /\ h[0].frontier = {p}
      BY <1>1 DEF AtStart
  <2>2. Ends({}) = {}
      BY EndsHas
  <2>3. HopSound(L, p, h[0])
      BY <2>1, <2>2 DEF HopSound, Touches
  <2>4. IsFiniteSet({p}) /\ Cardinality({p}) = 1
      BY FS_Singleton
  <2> QED
      BY <2>1, <2>3, <2>4
<1>3. ASSUME NEW n \in 1 .. MAX_STOPS, Good(n - 1)
      PROVE  Good(n)
  <2> DEFINE s == h[n - 1]
             t == h[n]
  <2>1. HopSound(L, p, s) /\ Enough(s, n - 1) /\ t = Hop(L, s)
      BY <1>1, <1>3
  <2> HIDE DEF s, t
  <2>2. HopSound(L, p, t)
      BY <2>1, HopKeeps
  <2>3. \/ t = s /\ (s.frontier = {} \/ Cardinality(s.seen) >= MAX_STOPS)
        \/ t.frontier = {}
        \/ Cardinality(s.seen) + 1 <= Cardinality(t.seen)
      BY <2>1, HopGrows
  <2>4. Cardinality(s.seen) \in Nat /\ Cardinality(t.seen) \in Nat
    <3>1. IsFiniteSet(s.seen) /\ IsFiniteSet(t.seen)
        BY <2>1, <2>2, FS_Subset, ResubmissionConstants DEF HopSound, ResubmissionConstants, Papers
    <3> QED
        BY <3>1, FS_CardinalityType
  <2>5. Enough(t, n)
    <3>1. CASE t = s /\ (s.frontier = {} \/ Cardinality(s.seen) >= MAX_STOPS)
        BY <3>1
    <3>2. CASE t.frontier = {}
        BY <3>2
    <3>3. CASE Cardinality(s.seen) + 1 <= Cardinality(t.seen)
      <4>1. CASE s.frontier = {}
        <5>1. t = s
            BY <2>1, <4>1 DEF Hop
        <5> QED
            BY <4>1, <5>1
      <4>2. CASE Cardinality(s.seen) >= MAX_STOPS \/ Cardinality(s.seen) >= n - 1
          BY <1>0, <2>4, <3>3, <4>2
      <4> QED
          BY <2>1, <4>1, <4>2
    <3> QED
        BY <2>3, <3>1, <3>2, <3>3
  <2> QED
      BY <2>2, <2>5 DEF t
<1>4. bad = {}
  <2> SUFFICES ASSUME bad # {}
               PROVE  FALSE
      OBVIOUS
  <2>1. bad \in SUBSET Nat
      BY <1>0
  <2> HIDE DEF Good
  <2>2. PICK m \in bad : \A n \in bad : m <= n
    <3> HIDE DEF bad
    <3> QED
        BY <2>1, LeastNatural
  <2>3. m \in 1 .. MAX_STOPS /\ m - 1 \in 0 .. MAX_STOPS /\ ~(m <= m - 1) /\ ~Good(m)
      BY <1>0, <1>2, <2>2
  <2>4. Good(m - 1)
      BY <2>2, <2>3
  <2> QED
      BY <1>3, <2>3, <2>4
<1>5. Good(MAX_STOPS)
  <2> HIDE DEF Good
  <2> QED
      BY <1>0, <1>4
<1> QED
    BY <1>5 DEF h

Journey(L, p) == {p} \cup Ends(CollectEdges(L, p))

(* The papers of a journey are linked to the first, and if they are not too *)
(* many they are all that are.                                              *)
LEMMA JourneyPapers ==
    ASSUME NEW L, \A l \in L : Forward(l.pair), NEW p \in Papers
    PROVE  LET J == Journey(L, p)
               E == CollectEdges(L, p)
           IN /\ p \in J /\ J \subseteq Papers
              /\ \A e \in E : Forward(e) /\ e[1] \in J /\ e[2] \in J
              /\ \A C \in SUBSET Papers : Closed(L, C) /\ p \in C => J \subseteq C
              /\ Cardinality(J) < MAX_STOPS =>
                   /\ Closed(L, J)
                   /\ E = {l.pair : l \in {l \in L : Touches(l, J)}}
<1> DEFINE s == Hops(L, p)[MAX_STOPS]
           J == Journey(L, p)
           E == CollectEdges(L, p)
<1>1. HopSound(L, p, s) /\ (s.frontier = {} \/ Cardinality(s.seen) >= MAX_STOPS)
    BY HopsSound
<1>2. E = s.edges
    BY DEF CollectEdges
<1> HIDE DEF s, E
<1>3. J = s.seen
    BY <1>1, <1>2 DEF HopSound, Journey, E
<1>4. J \subseteq Papers /\ p \in J /\ \A C \in SUBSET Papers : Closed(L, C) /\ p \in C => J \subseteq C
    BY <1>1, <1>3 DEF HopSound
<1>5. \A e \in E : Forward(e) /\ e[1] \in J /\ e[2] \in J
    BY <1>1, <1>2, EndsHas DEF HopSound, Journey, E
<1>6. ASSUME Cardinality(J) < MAX_STOPS
      PROVE  Closed(L, J) /\ E = {l.pair : l \in {l \in L : Touches(l, J)}}
  <2>1. s.frontier = {}
    <3>1. IsFiniteSet(J) /\ Cardinality(J) \in Nat /\ MAX_STOPS \in Nat
        BY <1>4, FS_Subset, FS_CardinalityType, ResubmissionConstants DEF ResubmissionConstants, Papers
    <3> QED
        BY <1>1, <1>3, <1>6, <3>1
  <2> HIDE DEF J
  <2>2. \A l \in L : Touches(l, J) => l.pair \in E
      BY <1>1, <1>2, <1>3, <2>1 DEF HopSound
  <2>3. \A e \in E : \E l \in L : e = l.pair /\ Touches(l, J)
      BY <1>1, <1>2, <1>5 DEF HopSound, Touches
  <2>4. Closed(L, J)
      BY <1>5, <2>2 DEF Closed, Touches
  <2> QED
      BY <2>2, <2>3, <2>4
<1> QED
    BY <1>4, <1>5, <1>6 DEF E

(* The papers of a complete journey have the same one.                      *)
LEMMA SameJourney ==
    ASSUME NEW L, \A l \in L : Forward(l.pair), NEW p \in Papers, NEW q \in Journey(L, p),
           Cardinality(Journey(L, p)) < MAX_STOPS
    PROVE  Journey(L, q) = Journey(L, p) /\ CollectEdges(L, q) = CollectEdges(L, p)
<1> DEFINE J == Journey(L, p)
           K == Journey(L, q)
<1>1. /\ J \subseteq Papers /\ Closed(L, J) /\ q \in J
      /\ CollectEdges(L, p) = {l.pair : l \in {l \in L : Touches(l, J)}}
      /\ \A C \in SUBSET Papers : Closed(L, C) /\ p \in C => J \subseteq C
    BY JourneyPapers
<1>2. /\ q \in K /\ K \subseteq Papers
      /\ \A C \in SUBSET Papers : Closed(L, C) /\ q \in C => K \subseteq C
      /\ Cardinality(K) < MAX_STOPS =>
           /\ Closed(L, K)
           /\ CollectEdges(L, q) = {l.pair : l \in {l \in L : Touches(l, K)}}
    BY <1>1, JourneyPapers
<1>3. K \subseteq J
    BY <1>1, <1>2
<1>4. Cardinality(K) < MAX_STOPS
  <2>1. IsFiniteSet(J)
      BY <1>1, FS_Subset, ResubmissionConstants DEF ResubmissionConstants, Papers
  <2>2. IsFiniteSet(K) /\ Cardinality(K) <= Cardinality(J)
      BY <1>3, <2>1, FS_Subset
  <2>3. Cardinality(K) \in Nat /\ Cardinality(J) \in Nat /\ MAX_STOPS \in Nat
      BY <2>1, <2>2, FS_CardinalityType, ResubmissionConstants DEF ResubmissionConstants
  <2> QED
      BY <2>2, <2>3
<1> HIDE DEF J, K
<1>5. p \in K
  <2> SUFFICES ASSUME p \notin K
               PROVE  FALSE
      OBVIOUS
  <2>1. Closed(L, J \ K)
      BY <1>1, <1>2, <1>4 DEF Closed
  <2>2. p \in J
      BY JourneyPapers DEF J
  <2>3. J \subseteq J \ K
      BY <1>1, <2>1, <2>2
  <2> QED
      BY <1>1, <1>2, <2>3
<1>6. J = K
    BY <1>1, <1>2, <1>3, <1>4, <1>5
<1> QED
    BY <1>1, <1>2, <1>4, <1>6 DEF J, K

-----------------------------------------------------------------------------
(* The sort. *)

LEMMA LeastSooner ==
    ASSUME NEW R \in SUBSET Papers, R # {}
    PROVE  \E p \in R : \A q \in R : Sooner(p, q)
<1>1. \A p \in R : p \in Nat /\ PaperOf[p].year \in Nat
    BY KeysAreNumbers
<1>2. PICK a \in R : \A q \in R : PaperOf[a].year <= PaperOf[q].year
  <2> DEFINE years == {PaperOf[p].year : p \in R}
  <2>1. years \in SUBSET Nat /\ years # {}
      BY <1>1
  <2> HIDE DEF years
  <2>2. PICK y \in years : \A x \in years : y <= x
      BY <2>1, LeastNatural
  <2> QED
      BY <2>2 DEF years
<1> DEFINE first == {p \in R : PaperOf[p].year = PaperOf[a].year}
<1>3. first \in SUBSET Nat /\ first # {}
    BY <1>1
<1> HIDE DEF first
<1>4. PICK p \in first : \A x \in first : p <= x
    BY <1>3, LeastNatural
<1>5. ASSUME NEW q \in R
      PROVE  Sooner(p, q)
  <2>1. p \in R /\ PaperOf[p].year = PaperOf[a].year
      BY <1>4 DEF first
  <2>2. PaperOf[a].year \in Nat /\ PaperOf[q].year \in Nat /\ PaperOf[a].year <= PaperOf[q].year
      BY <1>1, <1>2
  <2>3. PaperOf[q].year = PaperOf[a].year => p <= q
      BY <1>4 DEF first
  <2> QED
      BY <2>1, <2>2, <2>3 DEF Sooner
<1> QED
    BY <1>4, <1>5 DEF first

LEMMA ArrangedUnfold ==
    ASSUME NEW S, NEW E, Cardinality(S) \in Nat
    PROVE  /\ Arranged(S, E)[0] = <<>>
           /\ \A n \in 1 .. Cardinality(S) : Arranged(S, E)[n] = PutNext(S, E, Arranged(S, E)[n - 1])
<1> DEFINE Solves(h, n) == h = [k \in 0 .. n |-> IF k = 0 THEN <<>> ELSE PutNext(S, E, h[k - 1])]
           bad == {n \in Nat : \A h : ~Solves(h, n)}
<1>1. bad = {}
  <2> SUFFICES ASSUME bad # {}
               PROVE  FALSE
      OBVIOUS
  <2>1. PICK m \in bad : \A n \in bad : m <= n
    <3>1. bad \in SUBSET Nat
        OBVIOUS
    <3> HIDE DEF bad
    <3> QED
        BY <3>1, LeastNatural
  <2>2. CASE m = 0
    <3> DEFINE h == [k \in 0 .. 0 |-> <<>>]
    <3>1. Solves(h, 0)
        OBVIOUS
    <3> HIDE DEF h
    <3>2. 0 \notin bad
        BY <3>1
    <3> HIDE DEF bad
    <3> QED
        BY <2>1, <2>2, <3>2
  <2>3. CASE m > 0
    <3>1. m \in Nat /\ m - 1 \in Nat /\ m - 1 \notin bad
      <4>1. m \in Nat /\ m - 1 \in Nat /\ ~(m <= m - 1)
          BY <2>3
      <4> HIDE DEF bad
      <4> QED
          BY <2>1, <4>1
    <3>2. PICK g : Solves(g, m - 1)
        BY <3>1
    <3> DEFINE h == [k \in 0 .. m |-> IF k < m THEN g[k] ELSE PutNext(S, E, g[m - 1])]
    <3>3. \A k \in 0 .. m - 1 : g[k] = IF k = 0 THEN <<>> ELSE PutNext(S, E, g[k - 1])
        BY <3>2
    <3>4. ASSUME NEW k \in 0 .. m
          PROVE  h[k] = IF k = 0 THEN <<>> ELSE PutNext(S, E, h[k - 1])
      <4>1. CASE k < m
        <5>1. k \in 0 .. m - 1 /\ h[k] = g[k] /\ (k # 0 => k - 1 \in 0 .. m /\ h[k - 1] = g[k - 1])
            BY <3>1, <4>1
        <5> QED
            BY <5>1, <3>3
      <4>2. CASE ~(k < m)
        <5>1. k = m /\ k # 0 /\ m - 1 \in 0 .. m /\ m - 1 < m
            BY <3>1, <2>3, <4>2
        <5>2. h[k] = PutNext(S, E, g[m - 1]) /\ h[m - 1] = g[m - 1]
            BY <5>1
        <5> QED
            BY <5>1, <5>2
      <4> QED
          BY <4>1, <4>2
    <3>5. Solves(h, m)
        BY <3>4
    <3> QED
        BY <2>1, <3>5
  <2> QED
      BY <2>1, <2>2, <2>3
<1>2. Cardinality(S) \in Nat
    OBVIOUS
<1>3. \E h : Solves(h, Cardinality(S))
    BY <1>1, <1>2
<1>4. Arranged(S, E) = CHOOSE h : Solves(h, Cardinality(S))
    BY DEF Arranged
<1>5. Solves(Arranged(S, E), Cardinality(S))
    BY <1>3, <1>4
<1> QED
    BY <1>2, <1>5

(* As far as it is sorted: nothing twice, no paper before one that leads to *)
(* it, and no year after a later one or one that is left.                   *)
SortSound(S, E, s, n) ==
    /\ s \in Seq(S) /\ Len(s) = n
    /\ \A i, j \in DOMAIN s : s[i] = s[j] => i = j
    /\ \A e \in E, j \in DOMAIN s : e[2] = s[j] => \E i \in DOMAIN s : i < j /\ s[i] = e[1]
    /\ \A i \in DOMAIN s, q \in S \ Range(s) : PaperOf[s[i]].year <= PaperOf[q].year
    /\ \A i, j \in DOMAIN s : i < j => PaperOf[s[i]].year <= PaperOf[s[j]].year

(* Links that go forward leave something ready, and the soonest that is     *)
(* ready is of the first year of what is left.                              *)
LEMMA NextIsReady ==
    ASSUME NEW left \in SUBSET Papers, left # {}, NEW E, \A e \in E : Forward(e)
    PROVE  LET ready == Ready(left, E)
               p == CHOOSE p \in ready : \A q \in ready : Sooner(p, q)
           IN /\ ready # {} /\ p \in left /\ \A e \in E : e[2] = p => e[1] \notin left
              /\ \A q \in left : PaperOf[p].year <= PaperOf[q].year
<1> DEFINE ready == Ready(left, E)
           p == CHOOSE p \in ready : \A q \in ready : Sooner(p, q)
<1>1. \A q \in left : VenueSortKey(q) \in Nat /\ PaperOf[q].year \in Nat
    BY KeysAreNumbers
<1>2. PICK m \in left : \A q \in left : VenueSortKey(m) <= VenueSortKey(q)
  <2> DEFINE keys == {VenueSortKey(q) : q \in left}
  <2>1. keys \in SUBSET Nat /\ keys # {}
      BY <1>1
  <2> HIDE DEF keys
  <2>2. PICK k \in keys : \A x \in keys : k <= x
      BY <2>1, LeastNatural
  <2> QED
      BY <2>2 DEF keys
<1>3. m \in ready
  <2> SUFFICES ASSUME NEW e \in E, e[2] = m, e[1] \in left
               PROVE  FALSE
      BY DEF Ready
  <2>1. VenueSortKey(e[1]) < VenueSortKey(m) /\ VenueSortKey(m) <= VenueSortKey(e[1])
      BY <1>2 DEF Forward
  <2>2. VenueSortKey(e[1]) \in Nat /\ VenueSortKey(m) \in Nat
      BY <1>1
  <2> QED
      BY <2>1, <2>2
<1>4. ready \subseteq left
    BY DEF Ready
<1>5. p \in ready /\ \A q \in ready : Sooner(p, q)
  <2>1. \E x \in ready : \A q \in ready : Sooner(x, q)
    <3> HIDE DEF ready
    <3> QED
        BY <1>3, <1>4, LeastSooner
  <2> HIDE DEF ready
  <2> QED
      BY <2>1
<1>6. \A e \in E : e[2] = p => e[1] \notin left
    BY <1>5 DEF Ready
<1> HIDE DEF p, ready
<1>7. ASSUME NEW q \in left
      PROVE  PaperOf[p].year <= PaperOf[q].year
  <2> DEFINE y(x) == PaperOf[x].year
             half(x) == IF PaperOf[x].conf = "ICLR" THEN 0 ELSE 1
  <2>1. y(p) \in Nat /\ y(m) \in Nat /\ y(q) \in Nat /\ half(m) \in {0, 1} /\ half(q) \in {0, 1}
      BY <1>1, <1>4, <1>5
  <2>2. 2 * y(m) + half(m) <= 2 * y(q) + half(q)
      BY <1>2 DEF VenueSortKey
  <2>3. y(p) <= y(m)
      BY <1>3, <1>5, <2>1 DEF Sooner
  <2> HIDE DEF y, half
  <2>4. y(p) <= y(q)
      BY <2>1, <2>2, <2>3
  <2> QED
      BY <2>4 DEF y
<1> QED
    BY <1>3, <1>4, <1>5, <1>6, <1>7 DEF p, ready

LEMMA PutNextSound ==
    ASSUME NEW S \in SUBSET Papers, NEW E, \A e \in E : Forward(e) /\ e[1] \in S /\ e[2] \in S,
           NEW n \in Nat, n < Cardinality(S), NEW s, SortSound(S, E, s, n)
    PROVE  SortSound(S, E, PutNext(S, E, s), n + 1)
<1> DEFINE left == S \ Range(s)
           ready == Ready(left, E)
           p == CHOOSE p \in ready : \A q \in ready : Sooner(p, q)
           t == Append(s, p)
<1>1. s \in Seq(S) /\ Len(s) = n /\ DOMAIN s = 1 .. n
    BY DEF SortSound
<1>2. IsFiniteSet(S) /\ Cardinality(S) \in Nat
    BY FS_Subset, FS_CardinalityType, ResubmissionConstants DEF ResubmissionConstants, Papers
<1>3. left # {}
  <2> SUFFICES ASSUME S \subseteq Range(s)
               PROVE  FALSE
      OBVIOUS
  <2>1. s \in [1 .. n -> S] /\ \A q \in S : \E i \in 1 .. n : s[i] = q
      BY <1>1 DEF Range
  <2>2. s \in Surjection(1 .. n, S)
      BY <2>1 DEF Surjection
  <2>3. IsFiniteSet(1 .. n) /\ Cardinality(1 .. n) = n
      BY FS_Interval
  <2>4. Cardinality(S) <= n
      BY <2>2, <2>3, FS_Surjection
  <2> QED
      BY <1>2, <2>4
<1>4. /\ ready # {} /\ p \in left /\ \A e \in E : e[2] = p => e[1] \notin left
      /\ \A q \in left : PaperOf[p].year <= PaperOf[q].year
  <2> HIDE DEF left
  <2>1. left \in SUBSET Papers
      BY DEF left
  <2> QED
      BY <1>3, <2>1, NextIsReady
<1>5. PutNext(S, E, s) = t
    BY <1>4 DEF PutNext
<1> HIDE DEF p, ready
<1>6. p \in S /\ \A i \in 1 .. n : s[i] # p
    BY <1>1, <1>4 DEF Range
<1>7. /\ t \in Seq(S) /\ Len(t) = n + 1 /\ DOMAIN t = 1 .. n + 1 /\ t[n + 1] = p
      /\ \A i \in 1 .. n : t[i] = s[i]
    BY <1>1, <1>6
<1>8. Range(t) = Range(s) \cup {p}
    BY <1>1, <1>7 DEF Range
<1> HIDE DEF t
<1>9. \A i \in DOMAIN t : i = n + 1 \/ i \in 1 .. n
    BY <1>7
<1>10. \A i, j \in DOMAIN t : t[i] = t[j] => i = j
    BY <1>1, <1>6, <1>7, <1>9 DEF SortSound
<1>11. ASSUME NEW e \in E, NEW j \in DOMAIN t, e[2] = t[j]
       PROVE  \E i \in DOMAIN t : i < j /\ t[i] = e[1]
  <2>1. CASE j = n + 1
    <3>1. e[1] \in Range(s)
        BY <1>4, <1>7, <1>11, <2>1
    <3>2. PICK i \in 1 .. n : s[i] = e[1]
        BY <1>1, <3>1 DEF Range
    <3> QED
        BY <1>7, <2>1, <3>2
  <2>2. CASE j \in 1 .. n
    <3>1. PICK i \in DOMAIN s : i < j /\ s[i] = e[1]
        BY <1>1, <1>7, <1>11, <2>2 DEF SortSound
    <3> QED
        BY <1>1, <1>7, <3>1
  <2> QED
      BY <1>9, <2>1, <2>2
<1>12. \A i \in DOMAIN t, q \in S \ Range(t) : PaperOf[t[i]].year <= PaperOf[q].year
    BY <1>1, <1>4, <1>7, <1>8, <1>9 DEF SortSound
<1>13. \A i, j \in DOMAIN t : i < j => PaperOf[t[i]].year <= PaperOf[t[j]].year
  <2> SUFFICES ASSUME NEW i \in DOMAIN t, NEW j \in DOMAIN t, i < j
               PROVE  PaperOf[t[i]].year <= PaperOf[t[j]].year
      OBVIOUS
  <2>1. i \in 1 .. n
      BY <1>7
  <2>2. CASE j \in 1 .. n
      BY <1>1, <1>7, <2>1, <2>2 DEF SortSound
  <2>3. CASE j = n + 1
      BY <1>1, <1>4, <1>7, <2>1, <2>3 DEF SortSound
  <2> QED
      BY <1>9, <2>2, <2>3
<1> QED
    BY <1>5, <1>7, <1>10, <1>11, <1>12, <1>13 DEF SortSound

LEMMA SortedSound ==
    ASSUME NEW S \in SUBSET Papers, NEW E, \A e \in E : Forward(e) /\ e[1] \in S /\ e[2] \in S
    PROVE  SortSound(S, E, Sorted(S, E), Cardinality(S)) /\ Range(Sorted(S, E)) = S
<1> DEFINE N == Cardinality(S)
           h == Arranged(S, E)
           Good(n) == SortSound(S, E, h[n], n)
           bad == {n \in 0 .. N : ~Good(n)}
<1>0. IsFiniteSet(S) /\ N \in Nat
    BY FS_Subset, FS_CardinalityType, ResubmissionConstants DEF ResubmissionConstants, Papers
<1>1. h[0] = <<>> /\ \A n \in 1 .. N : h[n] = PutNext(S, E, h[n - 1])
    BY <1>0, ArrangedUnfold
<1>s. Sorted(S, E) = h[N] \o Enumerate(S \ Range(h[N]), BySooner(S \ Range(h[N])))
    BY DEF Sorted
<1> HIDE DEF h, N
<1>2. Good(0)
  <2>1. <<>> \in Seq(S) /\ Len(<<>>) = 0 /\ DOMAIN <<>> = {}
      OBVIOUS
  <2> QED
      BY <1>1, <2>1 DEF SortSound
<1>3. ASSUME NEW n \in 1 .. N, Good(n - 1)
      PROVE  Good(n)
  <2>1. n - 1 \in Nat /\ n - 1 < N /\ (n - 1) + 1 = n /\ h[n] = PutNext(S, E, h[n - 1])
      BY <1>0, <1>1
  <2>2. SortSound(S, E, PutNext(S, E, h[n - 1]), (n - 1) + 1)
      BY <1>3, <2>1, PutNextSound DEF N
  <2> QED
      BY <2>1, <2>2
<1>4. bad = {}
  <2> SUFFICES ASSUME bad # {}
               PROVE  FALSE
      OBVIOUS
  <2>1. bad \in SUBSET Nat
      BY <1>0
  <2> HIDE DEF Good
  <2>2. PICK m \in bad : \A n \in bad : m <= n
    <3> HIDE DEF bad
    <3> QED
        BY <2>1, LeastNatural
  <2>3. m \in 1 .. N /\ m - 1 \in 0 .. N /\ ~(m <= m - 1) /\ ~Good(m)
      BY <1>0, <1>2, <2>2
  <2>4. Good(m - 1)
      BY <2>2, <2>3
  <2> QED
      BY <1>3, <2>3, <2>4
<1>5. SortSound(S, E, h[N], N)
    BY <1>0, <1>4
<1> DEFINE s == h[N]
<1> HIDE DEF s
<1>6. s \in Seq(S) /\ Len(s) = N /\ DOMAIN s = 1 .. N /\ \A i, j \in DOMAIN s : s[i] = s[j] => i = j
    BY <1>0, <1>5 DEF SortSound, s
<1>7. Range(s) = S
  <2>1. s \in Injection(1 .. N, S)
      BY <1>6 DEF Injection, IsInjective
  <2>2. IsFiniteSet(1 .. N) /\ Cardinality(1 .. N) = N
      BY <1>0, FS_Interval
  <2>3. s \in Surjection(1 .. N, S)
      BY <1>0, <2>1, <2>2, FS_Injection DEF N
  <2> QED
      BY <1>6, <2>3 DEF Surjection, Range
<1>8. Enumerate({}, BySooner({})) = <<>>
  <2> DEFINE none == Enumerate({}, BySooner({}))
  <2>1. Cardinality({}) = 0
      BY FS_EmptySet
  <2>2. none = [k \in 1 .. 0 |-> none[k]] /\ DOMAIN none = 1 .. 0
      BY <2>1 DEF Enumerate
  <2>3. 0 \in Nat /\ 1 .. 0 = {}
      OBVIOUS
  <2> HIDE DEF none
  <2>4. \A k \in 1 .. 0 : none[k] \in {}
      BY <2>3
  <2>5. none \in Seq({})
      BY <2>2, <2>3, <2>4, ListOf
  <2> QED
      BY <2>2, <2>3, <2>5, EmptyList DEF none
<1>9. Sorted(S, E) = s
  <2>1. S \ Range(s) = {}
      BY <1>7
  <2>2. Sorted(S, E) = s \o Enumerate({}, BySooner({}))
      BY <1>s, <2>1 DEF s
  <2> QED
      BY <1>6, <1>8, <2>2
<1> QED
    BY <1>5, <1>7, <1>9 DEF s, N

-----------------------------------------------------------------------------
LEMMA StopsAreChronological ==
    ASSUME LinksForward, NEW p \in Papers
    PROVE  Chronological(p)
<1> DEFINE E == CollectEdges(links, p)
           J == Journey(links, p)
           stops == Stops(links, p)
<1>0. \A l \in links : Forward(l.pair)
    BY DEF LinksForward
<1>1. /\ J \subseteq Papers
      /\ \A e \in E : Forward(e) /\ e[1] \in J /\ e[2] \in J
    BY <1>0, JourneyPapers
<1>2. \A q : Stops(links, q) = Sorted(Journey(links, q), CollectEdges(links, q))
    BY DEF Stops, Journey, Ends
<1>3. SortSound(J, E, stops, Cardinality(J)) /\ Range(stops) = J
    BY <1>1, <1>2, SortedSound
<1> HIDE DEF E, J, stops
<1>4. /\ stops \in Seq(J) /\ Len(stops) = Cardinality(J)
      /\ \A i, j \in DOMAIN stops : stops[i] = stops[j] => i = j
      /\ \A e \in E, j \in DOMAIN stops : e[2] = stops[j] => \E i \in DOMAIN stops : i < j /\ stops[i] = e[1]
      /\ \A i, j \in DOMAIN stops : i < j => PaperOf[stops[i]].year <= PaperOf[stops[j]].year
    BY <1>3 DEF SortSound
<1>5. \A i \in DOMAIN stops : PlaceOf(stops[i], stops) = i
    BY <1>4 DEF PlaceOf
<1>6. ASSUME NEW e \in E
      PROVE  PlaceOf(e[1], stops) < PlaceOf(e[2], stops)
  <2>1. PICK j \in DOMAIN stops : stops[j] = e[2]
      BY <1>1, <1>3 DEF Range
  <2>2. PICK i \in DOMAIN stops : i < j /\ stops[i] = e[1]
      BY <1>4, <2>1
  <2> QED
      BY <1>5, <2>1, <2>2
<1>7. ASSUME Len(stops) < MAX_STOPS, NEW i \in DOMAIN stops
      PROVE  Stops(links, stops[i]) = stops
  <2>1. stops[i] \in J /\ Cardinality(J) < MAX_STOPS
      BY <1>3, <1>4, <1>7 DEF Range
  <2>2. Journey(links, stops[i]) = J /\ CollectEdges(links, stops[i]) = E
      BY <1>0, <2>1, SameJourney DEF J, E
  <2> QED
      BY <1>2, <2>2 DEF stops, J, E
<1> QED
    BY <1>4, <1>6, <1>7 DEF Chronological, E, stops

(* Whatever the batch links, however often it is stopped and papers come in *)
(* between, every journey is told in the order things happened.             *)
THEOREM JourneysAreChronological == EnrichmentSpec => []JourneyChronological
<1>1. JourneyInv => JourneyChronological
  <2> SUFFICES ASSUME JourneyInv
               PROVE  JourneyChronological
      OBVIOUS
  <2>1. \A l \in links : Forward(l.pair)
      BY DEF JourneyInv, LinksForward
  <2>2. \A p \in UNION {{l.pair[1], l.pair[2]} : l \in links} : p \in Papers
      BY <2>1 DEF Forward
  <2> QED
      BY <2>1, <2>2, StopsAreChronological DEF JourneyInv, JourneyChronological, Forward
<1> QED
    BY <1>1, JourneyStart, JourneySteps, PTL DEF EnrichmentSpec

-----------------------------------------------------------------------------
(* A run of Enrichment.tla and the columns it leaves.                       *)

Begun == {"byArxiv", "pending", "byVenue", "link", "relink", "percentile"}

(* The checkpoint is never ahead of the cache.                              *)
HarvestInv ==
    /\ page \in 0 .. Len(Pages)
    /\ cache \subseteq UNION Range(Pages)
    /\ \A i \in 1 .. page : Pages[i] \subseteq cache
    /\ batch.at = "checkpoint" => page < Len(Pages) /\ Pages[page + 1] \subseteq cache
    /\ clean /\ batch.at = "match" => page = Len(Pages)

BatchFields == {"at", "pending", "asks", "query", "part", "failed", "base", "snapshot", "seen"}
BatchInv ==
    /\ DOMAIN batch = BatchFields
    /\ batch.at \in {"idle", "unreadable", "harvest", "checkpoint", "match"} \cup Begun
    /\ batch.at \notin Begun => batch.base = {}
    /\ batch.base \subseteq papers /\ papers \subseteq Papers
    /\ batch.query \in Nat \ {0} /\ batch.part \in Nat \ {0}
    /\ batch.asks \subseteq DOMAIN Queries
    /\ batch.pending \subseteq papers

(* What a paper has comes from its sources.                                 *)
ColumnsRight == \A p \in Papers :
    IF s2[p] = NoId THEN cites[p] = NoCount /\ arxiv[p] \in {NoId, InCache(p)}
    ELSE /\ s2[p] \in SourcesOf(p) /\ cites[p] = S2Of[s2[p]].cites
         /\ arxiv[p] \in {NoId, InCache(p), S2Of[s2[p]].arxiv}
         /\ arxiv[p] = NoId => S2Of[s2[p]].arxiv = NoId
         /\ InCache(p) = NoId => arxiv[p] = S2Of[s2[p]].arxiv

Missing(ids) == {p \in ids : s2[p] = NoId}
Searched == {"byVenue", "link", "relink", "percentile"}
BaseRight ==
    /\ batch.at \in Searched => Slices(Missing(batch.base)) \subseteq batch.asks
    /\ \A p \in batch.base :
        /\ InCache(p) # NoId => arxiv[p] # NoId
        /\ s2[p] = NoId =>
            /\ batch.at # "byArxiv" => ByArxiv(p) = NoId
            /\ batch.at = "byVenue" =>
                /\ p \in batch.pending
                /\ \A i \in batch.asks : Naming(p, i) # {} => i >= batch.query
            /\ batch.at \in {"link", "relink", "percentile"} => \A i \in batch.asks : Naming(p, i) = {}
PendingRight == batch.at = "byVenue" => \A p \in batch.pending :
    /\ s2[p] = NoId
    /\ batch.query \in DOMAIN Queries => \A j \in Naming(p, batch.query) : j >= batch.part

LinksRight ==
    /\ batch.at \in {"relink", "percentile"} => batch.base \subseteq batch.snapshot /\ batch.snapshot \subseteq papers
    /\ batch.at = "relink" => batch.seen = arxiv
    /\ batch.at = "percentile" => links = FindLinks(batch.snapshot, arxiv)

Right == clean => ColumnsRight /\ BaseRight /\ PendingRight

UninterruptedInv ==
    /\ HarvestInv /\ BatchInv /\ Right /\ LinksRight
    /\ settled => batch.at = "idle"
    /\ AsIfUninterrupted

-----------------------------------------------------------------------------
(* How a step moves the batch, field by field.                              *)

But(S) == DOMAIN batch' = BatchFields /\ \A f \in BatchFields \ S : batch'[f] = batch[f]

LEMMA StepMoves ==
    ASSUME DOMAIN batch = BatchFields, NEW from, NEW fields, Step(from, fields)
    PROVE  /\ batch.at = from /\ But(DOMAIN fields)
           /\ \A f \in DOMAIN fields \cap BatchFields : batch'[f] = fields[f]
BY DEF Step, But

LEMMA GotoMoves ==
    ASSUME DOMAIN batch = BatchFields, NEW from, NEW to, Step(from, Goto(to))
    PROVE  batch.at = from /\ batch'.at = to /\ But({"at"})
<1>1. DOMAIN Goto(to) = {"at"} /\ Goto(to)["at"] = to
    BY DEF Goto
<1> QED
    BY <1>1, StepMoves DEF BatchFields

IsIdle == /\ DOMAIN batch = BatchFields /\ batch.at = "idle" /\ batch.base = {} /\ batch.pending = {}
          /\ batch.asks = {} /\ batch.query = 1 /\ batch.part = 1

LEMMA IdleIs == /\ DOMAIN Idle = BatchFields /\ Idle.at = "idle" /\ Idle.base = {} /\ Idle.pending = {}
                /\ Idle.asks = {} /\ Idle.query = 1 /\ Idle.part = 1
BY DEF Idle, BatchFields

LEMMA ToIdle ==
    ASSUME DOMAIN batch = BatchFields, NEW from, Step(from, Idle)
    PROVE  batch.at = from /\ IsIdle'
<1>1. batch.at = from /\ DOMAIN batch' = BatchFields /\ \A f \in BatchFields : batch'[f] = Idle[f]
    BY IdleIs, StepMoves DEF But
<1> QED
    BY <1>1, IdleIs DEF IsIdle, BatchFields

(* Of the actions that move the batch, what they do to it.                  *)
LEMMA Moves ==
    ASSUME BatchInv
    PROVE  /\ StartBatch => /\ batch.at \in {"idle", "unreadable"}
                            /\ batch'.at \in {"harvest", "match", "unreadable"} /\ But({"at"})
           /\ HarvestDone => batch.at = "harvest" /\ batch'.at = "match" /\ But({"at"})
           /\ HarvestPage => batch.at = "harvest" /\ batch'.at = "checkpoint" /\ But({"at"})
           /\ SaveCheckpoint => batch.at = "checkpoint" /\ batch'.at = "harvest" /\ But({"at"})
           /\ StopInAppend => batch.at = "harvest" /\ IsIdle'
           /\ StopInSave => batch.at = "checkpoint" /\ IsIdle'
           /\ MatchArxiv => /\ batch.at = "match"
                            /\ \/ IsIdle' /\ arxiv' = arxiv
                               \/ batch'.at = "unreadable" /\ But({"at"}) /\ arxiv' = arxiv
                               \/ batch'.at = "byArxiv" /\ batch'.base = papers /\ But({"at", "base"})
           /\ EnrichByArxiv => batch.at = "byArxiv" /\ batch'.at = "pending" /\ But({"at"})
           /\ PendingByConf =>
                LET missing == {p \in papers : s2[p] = NoId}
                IN /\ batch.at = "pending" /\ batch'.at = "byVenue" /\ batch'.pending = missing
                   /\ batch'.asks = Slices(missing) /\ batch'.query = 1 /\ batch'.part = 1
                   /\ But({"at", "query", "part", "failed", "pending", "asks"})
           /\ NextQuery => /\ batch.at = "byVenue" /\ batch'.query = batch.query + 1 /\ batch'.part = 1
                           /\ But({"query", "part", "failed"})
           /\ SearchFails => /\ batch.at = "byVenue" /\ batch'.at \in {"byVenue", "link"}
                             /\ batch'.query = batch.query + 1 /\ batch'.part = 1 /\ batch'.base = {}
                             /\ But({"at", "query", "part", "failed", "base"})
           /\ EnrichedByVenue => batch.at = "byVenue" /\ batch'.at = "link" /\ But({"at"})
           /\ FetchPapers => /\ batch.at = "link" /\ batch'.at = "relink" /\ batch'.snapshot = papers
                             /\ batch'.seen = arxiv /\ But({"at", "snapshot", "seen"})
           /\ RunLinking => /\ batch.at = "relink"
                            /\ \/ IsIdle' /\ links' = links
                               \/ /\ batch'.at = "percentile" /\ But({"at"})
                                  /\ links' = FindLinks(batch.snapshot, batch.seen)
           /\ RefreshPercentiles => batch.at = "percentile" /\ IsIdle'
           /\ StopBatch => batch.at \notin {"idle", "unreadable"} /\ IsIdle'
           /\ IngestPaper => batch' = batch
<1>0. DOMAIN batch = BatchFields
    BY DEF BatchInv
<1>1. ASSUME StartBatch
      PROVE  /\ batch.at \in {"idle", "unreadable"} /\ batch'.at \in {"harvest", "match", "unreadable"}
             /\ But({"at"})
    BY <1>0, <1>1, GotoMoves DEF StartBatch
<1>2. ASSUME HarvestDone
      PROVE  batch.at = "harvest" /\ batch'.at = "match" /\ But({"at"})
    BY <1>0, <1>2, GotoMoves DEF HarvestDone
<1>3. ASSUME HarvestPage
      PROVE  batch.at = "harvest" /\ batch'.at = "checkpoint" /\ But({"at"})
    BY <1>0, <1>3, GotoMoves DEF HarvestPage
<1>4. ASSUME SaveCheckpoint
      PROVE  batch.at = "checkpoint" /\ batch'.at = "harvest" /\ But({"at"})
    BY <1>0, <1>4, GotoMoves DEF SaveCheckpoint
<1>5. ASSUME MatchArxiv
      PROVE  /\ batch.at = "match"
             /\ \/ IsIdle' /\ arxiv' = arxiv
                \/ batch'.at = "unreadable" /\ But({"at"}) /\ arxiv' = arxiv
                \/ batch'.at = "byArxiv" /\ batch'.base = papers /\ But({"at", "base"})
  <2>1. CASE Step("match", Idle) /\ UNCHANGED arxiv
      BY <1>0, <2>1, ToIdle
  <2>3. CASE Step("match", Goto("unreadable")) /\ UNCHANGED arxiv
      BY <1>0, <2>3, GotoMoves
  <2>2. CASE Step("match", [at |-> "byArxiv", base |-> papers])
    <3> DEFINE fields == [at |-> "byArxiv", base |-> papers]
    <3>1. DOMAIN fields = {"at", "base"} /\ fields["at"] = "byArxiv" /\ fields["base"] = papers
        OBVIOUS
    <3>2. Step("match", fields)
        BY <2>2
    <3> HIDE DEF fields
    <3> QED
        BY <1>0, <2>2, <3>1, <3>2, StepMoves DEF BatchFields
  <2> QED
      BY <1>5, <2>1, <2>2, <2>3 DEF MatchArxiv
<1>6. ASSUME EnrichByArxiv
      PROVE  batch.at = "byArxiv" /\ batch'.at = "pending" /\ But({"at"})
    BY <1>0, <1>6, GotoMoves DEF EnrichByArxiv
<1>7. ASSUME PendingByConf
      PROVE  LET missing == {p \in papers : s2[p] = NoId}
             IN /\ batch.at = "pending" /\ batch'.at = "byVenue" /\ batch'.pending = missing
                /\ batch'.asks = Slices(missing) /\ batch'.query = 1 /\ batch'.part = 1
                /\ But({"at", "query", "part", "failed", "pending", "asks"})
  <2> DEFINE missing == {p \in papers : s2[p] = NoId}
             fields == [at |-> "byVenue", query |-> 1, part |-> 1, failed |-> 0,
                        pending |-> missing, asks |-> Slices(missing)]
  <2>1. Step("pending", fields)
      BY <1>7 DEF PendingByConf, Ask
  <2> HIDE DEF missing
  <2>2. /\ DOMAIN fields = {"at", "query", "part", "failed", "pending", "asks"} /\ fields["at"] = "byVenue"
        /\ fields["query"] = 1 /\ fields["part"] = 1 /\ fields["pending"] = missing
        /\ fields["asks"] = Slices(missing)
      OBVIOUS
  <2> HIDE DEF fields
  <2>3. /\ batch.at = "pending" /\ batch'.at = "byVenue" /\ batch'.pending = missing
        /\ batch'.asks = Slices(missing) /\ batch'.query = 1 /\ batch'.part = 1
        /\ But({"at", "query", "part", "failed", "pending", "asks"})
      BY <1>0, <2>1, <2>2, StepMoves DEF BatchFields
  <2> QED
      BY <2>3 DEF missing
<1>8. ASSUME NextQuery
      PROVE  /\ batch.at = "byVenue" /\ batch'.query = batch.query + 1 /\ batch'.part = 1
             /\ But({"query", "part", "failed"})
  <2> DEFINE fields == [query |-> batch.query + 1, part |-> 1, failed |-> IF Asked THEN 0 ELSE batch.failed]
  <2>1. Step("byVenue", fields)
      BY <1>8 DEF NextQuery
  <2>2. DOMAIN fields = {"query", "part", "failed"} /\ fields["query"] = batch.query + 1 /\ fields["part"] = 1
      OBVIOUS
  <2> HIDE DEF fields
  <2> QED
      BY <1>0, <2>1, <2>2, StepMoves DEF BatchFields
<1>9. ASSUME SearchFails
      PROVE  /\ batch.at = "byVenue" /\ batch'.at \in {"byVenue", "link"}
             /\ batch'.query = batch.query + 1 /\ batch'.part = 1 /\ batch'.base = {}
             /\ But({"at", "query", "part", "failed", "base"})
  <2> DEFINE to == IF batch.failed + 1 >= MAX_CONSECUTIVE_FAILURES THEN "link" ELSE "byVenue"
             fields == [query |-> batch.query + 1, part |-> 1, failed |-> batch.failed + 1, at |-> to, base |-> {}]
  <2>1. Step("byVenue", fields)
      BY <1>9 DEF SearchFails
  <2>2. to \in {"link", "byVenue"}
      OBVIOUS
  <2> HIDE DEF to
  <2>3. /\ DOMAIN fields = {"query", "part", "failed", "at", "base"} /\ fields["query"] = batch.query + 1
        /\ fields["part"] = 1 /\ fields["at"] = to /\ fields["base"] = {}
      OBVIOUS
  <2> HIDE DEF fields
  <2> QED
      BY <1>0, <2>1, <2>2, <2>3, StepMoves DEF BatchFields
<1>10. ASSUME EnrichedByVenue
       PROVE  batch.at = "byVenue" /\ batch'.at = "link" /\ But({"at"})
    BY <1>0, <1>10, GotoMoves DEF EnrichedByVenue
<1>11. ASSUME FetchPapers
       PROVE  /\ batch.at = "link" /\ batch'.at = "relink" /\ batch'.snapshot = papers
              /\ batch'.seen = arxiv /\ But({"at", "snapshot", "seen"})
  <2> DEFINE fields == [at |-> "relink", snapshot |-> papers, seen |-> arxiv]
  <2>1. Step("link", fields)
      BY <1>11 DEF FetchPapers
  <2>2. /\ DOMAIN fields = {"at", "snapshot", "seen"} /\ fields["at"] = "relink"
        /\ fields["snapshot"] = papers /\ fields["seen"] = arxiv
      OBVIOUS
  <2> HIDE DEF fields
  <2> QED
      BY <1>0, <2>1, <2>2, StepMoves DEF BatchFields
<1>12. ASSUME RunLinking
       PROVE  /\ batch.at = "relink"
              /\ \/ IsIdle' /\ links' = links
                 \/ /\ batch'.at = "percentile" /\ But({"at"})
                    /\ links' = FindLinks(batch.snapshot, batch.seen)
    BY <1>0, <1>12, GotoMoves, ToIdle DEF RunLinking
<1>13. ASSUME RefreshPercentiles
       PROVE  batch.at = "percentile" /\ IsIdle'
    BY <1>0, <1>13, ToIdle DEF RefreshPercentiles
<1>14. ASSUME StopBatch
       PROVE  batch.at \notin {"idle", "unreadable"} /\ IsIdle'
    BY <1>14, IdleIs DEF StopBatch, IsIdle
<1>15. ASSUME StopInAppend
       PROVE  batch.at = "harvest" /\ IsIdle'
    BY <1>15, IdleIs DEF StopInAppend, IsIdle
<1>16. ASSUME StopInSave
       PROVE  batch.at = "checkpoint" /\ IsIdle'
    BY <1>16, IdleIs DEF StopInSave, IsIdle
<1> QED
    BY <1>1, <1>2, <1>3, <1>4, <1>5, <1>6, <1>7, <1>8, <1>9, <1>10, <1>11, <1>12, <1>13, <1>14, <1>15,
       <1>16
    DEF IngestPaper

(* The papers a page names, of those that are looked for.                   *)
Records == Query.pages[batch.part]
Hits == {p \in batch.pending : PaperOf[p].conf = Query.conf /\ Titled(p, Records) # {}}

LEMMA PageMoves ==
    ASSUME BatchInv, EnrichByVenuePage
    PROVE  /\ batch.at = "byVenue" /\ Asked /\ batch.part <= Len(Query.pages)
           /\ batch'.part = batch.part + 1 /\ batch'.pending = batch.pending \ Hits /\ But({"part", "pending"})
           /\ ApplyPapers([p \in Hits |-> Found(p, Records)])
           /\ arxiv' = [p \in Papers |-> IF p \in Hits /\ arxiv[p] = NoId
                                         THEN S2Of[Found(p, Records)].arxiv ELSE arxiv[p]]
<1> DEFINE fields == [part |-> batch.part + 1, pending |-> batch.pending \ Hits]
<1>1. /\ Asked /\ batch.part <= Len(Query.pages) /\ Step("byVenue", fields)
      /\ ApplyPapers([p \in Hits |-> Found(p, Records)])
      /\ arxiv' = [p \in Papers |-> IF p \in Hits /\ arxiv[p] = NoId
                                    THEN S2Of[Found(p, Records)].arxiv ELSE arxiv[p]]
    BY DEF EnrichByVenuePage, Hits, Records, Papers
<1> HIDE DEF Hits
<1>2. /\ DOMAIN fields = {"part", "pending"} /\ fields["part"] = batch.part + 1
      /\ fields["pending"] = batch.pending \ Hits
    OBVIOUS
<1> HIDE DEF fields
<1>3. /\ batch.at = "byVenue" /\ batch'.part = batch.part + 1 /\ batch'.pending = batch.pending \ Hits
      /\ But({"part", "pending"})
    BY <1>1, <1>2, StepMoves DEF BatchFields, BatchInv
<1> QED
    BY <1>1, <1>3

LEMMA BatchSteps == BatchInv /\ [EnrichmentNext]_enrichmentVars => BatchInv'
<1> SUFFICES ASSUME BatchInv, [EnrichmentNext]_enrichmentVars
             PROVE  BatchInv'
    OBVIOUS
<1> USE DEF columns, files, history, BatchInv, Begun
<1>1. CASE StartBatch
    BY <1>1, Moves DEF StartBatch, But, BatchFields
<1>2. CASE HarvestDone
    BY <1>2, Moves DEF HarvestDone, But, BatchFields
<1>3. CASE HarvestPage
    BY <1>3, Moves DEF HarvestPage, But, BatchFields
<1>4. CASE SaveCheckpoint
    BY <1>4, Moves DEF SaveCheckpoint, But, BatchFields
<1>5. CASE MatchArxiv
  <2>1. papers' = papers /\ batch.at = "match" /\ batch.base = {}
      BY <1>5, Moves DEF MatchArxiv
  <2>2. CASE IsIdle'
      BY <2>1, <2>2 DEF IsIdle
  <2>3. CASE batch'.at = "unreadable" /\ But({"at"})
      BY <2>1, <2>3 DEF But, BatchFields
  <2>4. CASE batch'.at = "byArxiv" /\ batch'.base = papers /\ But({"at", "base"})
      BY <2>1, <2>4 DEF But, BatchFields
  <2> QED
      BY <1>5, <2>2, <2>3, <2>4, Moves
<1>6. CASE EnrichByArxiv
    BY <1>6, Moves DEF EnrichByArxiv, But, BatchFields
<1>7. CASE PendingByConf
  <2> DEFINE missing == {p \in papers : s2[p] = NoId}
  <2>1. Slices(missing) \subseteq DOMAIN Queries /\ missing \subseteq papers /\ papers' = papers
      BY <1>7 DEF PendingByConf, Slices
  <2> QED
      BY <1>7, <2>1, Moves DEF But, BatchFields
<1>8. CASE EnrichByVenuePage
    BY <1>8, PageMoves DEF EnrichByVenuePage, But, BatchFields
<1>9. CASE NextQuery
    BY <1>9, Moves DEF NextQuery, But, BatchFields
<1>10. CASE SearchFails
    BY <1>10, Moves DEF SearchFails, But, BatchFields
<1>11. CASE EnrichedByVenue
    BY <1>11, Moves DEF EnrichedByVenue, But, BatchFields
<1>12. CASE FetchPapers
    BY <1>12, Moves DEF FetchPapers, But, BatchFields
<1>13. CASE RunLinking
    BY <1>13, Moves DEF RunLinking, But, BatchFields, IsIdle
<1>14. CASE RefreshPercentiles
    BY <1>14, Moves DEF RefreshPercentiles, IsIdle
<1>15. CASE StopBatch
    BY <1>15, Moves DEF StopBatch, IsIdle
<1>16. CASE IngestPaper
    BY <1>16, Moves DEF IngestPaper, Papers
<1>17. CASE UNCHANGED enrichmentVars
    BY <1>17 DEF enrichmentVars
<1>18. CASE StopInAppend \/ StopInSave
  <2>1. IsIdle' /\ papers' = papers
      BY <1>18, Moves DEF StopInAppend, StopInSave
  <2> QED
      BY <2>1 DEF IsIdle
<1> QED
    BY <1>1, <1>2, <1>3, <1>4, <1>5, <1>6, <1>7, <1>8, <1>9, <1>10, <1>11, <1>12, <1>13, <1>14, <1>15,
       <1>16, <1>17, <1>18
    DEF EnrichmentNext

(* What the batch does to page, cache and clean, and when.                  *)
LEMMA HarvestSteps == BatchInv /\ HarvestInv /\ [EnrichmentNext]_enrichmentVars => HarvestInv'
<1> SUFFICES ASSUME BatchInv, HarvestInv, [EnrichmentNext]_enrichmentVars
             PROVE  HarvestInv'
    OBVIOUS
<1> USE DEF columns, files, history
<1>0. Len(Pages) \in Nat /\ \A i \in 1 .. Len(Pages) : Pages[i] \subseteq UNION Range(Pages)
    BY SourcesKnown DEF SourcesKnown, Range
<1>a. ASSUME page' = page, cache' = cache, clean' = clean, batch'.at \notin {"checkpoint", "match"}
      PROVE  HarvestInv'
    BY <1>a DEF HarvestInv
<1>1. CASE StartBatch
  <2>1. page' = page /\ cache' = cache /\ (batch'.at = "match" /\ clean' => page = Len(Pages))
    <3>0. PICK from : \/ Step(from, Goto("harvest")) \/ Step(from, Goto("unreadable"))
                      \/ Step(from, Goto("match")) /\ clean' = (clean /\ page = Len(Pages))
        BY <1>1 DEF StartBatch
    <3>1. CASE Step(from, Goto("harvest")) \/ Step(from, Goto("unreadable"))
      <4>1. batch'.at # "match"
        <5>1. DOMAIN batch = BatchFields
            BY DEF BatchInv
        <5>2. ASSUME Step(from, Goto("harvest"))
              PROVE  batch'.at = "harvest"
            BY <5>1, <5>2, GotoMoves
        <5>3. ASSUME Step(from, Goto("unreadable"))
              PROVE  batch'.at = "unreadable"
            BY <5>1, <5>3, GotoMoves
        <5> QED
            BY <3>1, <5>2, <5>3
      <4> QED
          BY <1>1, <4>1 DEF StartBatch
    <3>2. CASE clean' = (clean /\ page = Len(Pages))
        BY <1>1, <3>2 DEF StartBatch
    <3> QED
        BY <3>0, <3>1, <3>2
  <2>2. batch'.at # "checkpoint"
      BY <1>1, Moves
  <2> QED
      BY <2>1, <2>2 DEF HarvestInv
<1>2. CASE HarvestDone
  <2>1. page = Len(Pages) /\ page' = page /\ cache' = cache /\ batch'.at = "match"
      BY <1>2, Moves DEF HarvestDone
  <2> QED
      BY <2>1 DEF HarvestInv
<1>3. CASE HarvestPage
  <2>1. page < Len(Pages) /\ page' = page /\ cache' = cache \cup Pages[page + 1] /\ batch'.at = "checkpoint"
      BY <1>3, Moves DEF HarvestPage
  <2>2. page + 1 \in 1 .. Len(Pages)
      BY <1>0, <2>1 DEF HarvestInv
  <2> QED
      BY <1>0, <2>1, <2>2 DEF HarvestInv
<1>4. CASE SaveCheckpoint
  <2>1. page' = page + 1 /\ cache' = cache /\ batch.at = "checkpoint" /\ batch'.at = "harvest"
      BY <1>4, Moves DEF SaveCheckpoint
  <2>2. page' \in 0 .. Len(Pages)
      BY <1>0, <2>1 DEF HarvestInv
  <2>3. \A i \in 1 .. page' : i = page + 1 \/ i \in 1 .. page
      BY <1>0, <2>1 DEF HarvestInv
  <2> QED
      BY <2>1, <2>2, <2>3 DEF HarvestInv
<1>5. CASE MatchArxiv
    BY <1>a, <1>5, Moves DEF MatchArxiv, IsIdle
<1>6. CASE EnrichByArxiv
    BY <1>a, <1>6, Moves DEF EnrichByArxiv
<1>7. CASE PendingByConf
    BY <1>a, <1>7, Moves DEF PendingByConf
<1>8. CASE EnrichByVenuePage
  <2>1. batch'.at = "byVenue"
      BY <1>8, PageMoves DEF But, BatchFields
  <2> QED
      BY <1>a, <1>8, <2>1 DEF EnrichByVenuePage
<1>9. CASE NextQuery
  <2>1. batch'.at = "byVenue"
      BY <1>9, Moves DEF But, BatchFields
  <2> QED
      BY <1>a, <1>9, <2>1 DEF NextQuery
<1>10. CASE SearchFails
    BY <1>a, <1>10, Moves DEF SearchFails
<1>11. CASE EnrichedByVenue
    BY <1>a, <1>11, Moves DEF EnrichedByVenue
<1>12. CASE FetchPapers
    BY <1>a, <1>12, Moves DEF FetchPapers
<1>13. CASE RunLinking
    BY <1>a, <1>13, Moves DEF RunLinking, IsIdle
<1>14. CASE RefreshPercentiles
    BY <1>a, <1>14, Moves DEF RefreshPercentiles, IsIdle
<1>15. CASE StopBatch
    BY <1>a, <1>15, Moves DEF StopBatch, IsIdle
<1>16. CASE IngestPaper
    BY <1>16, Moves DEF IngestPaper, HarvestInv
<1>17. CASE UNCHANGED enrichmentVars
    BY <1>17 DEF enrichmentVars, HarvestInv
<1>18. CASE StopInSave
    BY <1>a, <1>18, Moves DEF StopInSave, IsIdle
<1>19. CASE StopInAppend
  <2>1. page' = page /\ clean' = clean /\ batch'.at = "idle" /\ page < Len(Pages)
      BY <1>19, Moves DEF StopInAppend, IsIdle
  <2>2. page + 1 \in 1 .. Len(Pages)
      BY <1>0, <2>1 DEF HarvestInv
  <2>3. cache \subseteq cache' /\ cache' \subseteq cache \cup Pages[page + 1]
      BY <1>19 DEF StopInAppend
  <2> QED
      BY <1>0, <2>1, <2>2, <2>3 DEF HarvestInv
<1> QED
    BY <1>1, <1>2, <1>3, <1>4, <1>5, <1>6, <1>7, <1>8, <1>9, <1>10, <1>11, <1>12, <1>13, <1>14, <1>15,
       <1>16, <1>17, <1>18, <1>19
    DEF EnrichmentNext

-----------------------------------------------------------------------------
(* What the sources say.                                                    *)

LEMMA MinIs ==
    ASSUME NEW S \in SUBSET Nat, S # {}
    PROVE  /\ Min(S) \in S /\ \A x \in S : Min(S) <= x
           /\ \A m \in S : (\A x \in S : m <= x) => m = Min(S)
<1>1. PICK m \in S : \A x \in S : m <= x
    BY LeastNatural
<1>2. Min(S) \in S /\ \A x \in S : Min(S) <= x
    BY <1>1 DEF Min
<1>3. ASSUME NEW n \in S, \A x \in S : n <= x
      PROVE  n = Min(S)
  <2>1. n <= Min(S) /\ Min(S) <= n /\ n \in Nat /\ Min(S) \in Nat
      BY <1>2, <1>3
  <2> HIDE DEF Min
  <2> QED
      BY <2>1
<1> QED
    BY <1>2, <1>3

LEMMA QueriesAre ==
    /\ DOMAIN Queries = 1 .. Len(Queries) /\ Len(Queries) \in Nat
    /\ \A i \in DOMAIN Queries :
        /\ Queries[i].year \in Nat
        /\ DOMAIN Queries[i].pages = 1 .. Len(Queries[i].pages) /\ Len(Queries[i].pages) \in Nat
        /\ \A j \in DOMAIN Queries[i].pages :
            /\ DOMAIN Queries[i].pages[j] \subseteq Nat
            /\ \A k \in DOMAIN Queries[i].pages[j] : Queries[i].pages[j][k] \in DOMAIN S2Of
    /\ NoId \notin DOMAIN S2Of
<1> DEFINE Search == [conf : STRING, year : Nat, pages : Seq(Seq(DOMAIN S2Of))]
<1>a. Queries \in Seq(Search)
    BY SourcesKnown DEF SourcesKnown
<1>b. \A q \in Search : q.year \in Nat /\ q.pages \in Seq(Seq(DOMAIN S2Of))
    OBVIOUS
<1> HIDE DEF Search
<1>1. /\ DOMAIN Queries = 1 .. Len(Queries) /\ Len(Queries) \in Nat
      /\ \A i \in DOMAIN Queries : Queries[i].year \in Nat /\ Queries[i].pages \in Seq(Seq(DOMAIN S2Of))
    BY <1>a, <1>b
<1>2. ASSUME NEW i \in DOMAIN Queries
      PROVE  /\ DOMAIN Queries[i].pages = 1 .. Len(Queries[i].pages) /\ Len(Queries[i].pages) \in Nat
             /\ \A j \in DOMAIN Queries[i].pages : Queries[i].pages[j] \in Seq(DOMAIN S2Of)
    BY <1>1
<1>3. \A s \in Seq(DOMAIN S2Of) : DOMAIN s \subseteq Nat /\ \A k \in DOMAIN s : s[k] \in DOMAIN S2Of
    OBVIOUS
<1> QED
    BY <1>1, <1>2, <1>3, SourcesKnown DEF SourcesKnown

LEMMA PagesNaming ==
    ASSUME NEW p, NEW i \in DOMAIN Queries
    PROVE  Naming(p, i) \subseteq 1 .. Len(Queries[i].pages) /\ Naming(p, i) \in SUBSET Nat
<1>1. Naming(p, i) \subseteq DOMAIN Queries[i].pages
    BY DEF Naming
<1> QED
    BY <1>1, QueriesAre

(* The first record that a page has of a paper.                             *)
LEMMA FoundIs ==
    ASSUME NEW p, NEW i \in DOMAIN Queries, NEW j \in Naming(p, i)
    PROVE  Found(p, Queries[i].pages[j]) \in DOMAIN S2Of
<1> DEFINE records == Queries[i].pages[j]
<1>1. /\ DOMAIN records \in SUBSET Nat /\ \A k \in DOMAIN records : records[k] \in DOMAIN S2Of
      /\ Titled(p, records) # {}
    BY QueriesAre DEF Naming
<1> HIDE DEF records
<1>2. Titled(p, records) \subseteq DOMAIN records
    BY DEF Titled
<1>3. Min(Titled(p, records)) \in DOMAIN records
    BY <1>1, <1>2, MinIs
<1>4. Found(p, records) \in DOMAIN S2Of
    BY <1>1, <1>3 DEF Found
<1> QED
    BY <1>4 DEF records

(* The record of the first page that names a paper, and that of its arXiv   *)
(* id, are among those of its sources.                                      *)
LEMMA NamedIsSource ==
    ASSUME NEW p, NEW i \in DOMAIN Queries, NEW j \in Naming(p, i), \A k \in Naming(p, i) : j <= k
    PROVE  Found(p, Queries[i].pages[j]) \in SourcesOf(p) /\ Found(p, Queries[i].pages[j]) # NoId
<1>1. j = Min(Naming(p, i)) /\ Naming(p, i) # {}
    BY PagesNaming, MinIs
<1>2. Found(p, Queries[i].pages[j]) = NamedBy(p, i)
    BY <1>1 DEF NamedBy
<1>3. Found(p, Queries[i].pages[j]) # NoId
    BY FoundIs, QueriesAre
<1> QED
    BY <1>1, <1>2, <1>3 DEF SourcesOf

LEMMA SlicesGrow ==
    ASSUME NEW S, NEW T, S \subseteq T
    PROVE  Slices(S) \subseteq Slices(T) /\ Slices(S) \subseteq DOMAIN Queries
BY DEF Slices

(* Of a paper that is complete and on which the sources agree, the columns  *)
(* are those of an undisturbed run.                                         *)
LEMMA AgreedIsUndisturbed ==
    ASSUME NEW p \in papers, p \in Papers, Complete(p), SourcesAgreeOn(p)
    PROVE  [s2 |-> s2[p], arxiv |-> arxiv[p], cites |-> cites[p]] = Undisturbed(p)
<1> DEFINE naming == {i \in DOMAIN Queries : Naming(p, i) # {}}
           r == IF ByArxiv(p) # NoId THEN ByArxiv(p) ELSE ByVenue(p)
           missing == {q \in papers : s2[q] = NoId}
<1>1. CASE s2[p] = NoId
  <2>1. ByArxiv(p) = NoId /\ \A i \in Slices(missing) : Naming(p, i) = {}
      BY <1>1 DEF Complete
  <2>2. \A i \in DOMAIN Queries : Naming(p, i) = {}
    <3> SUFFICES ASSUME NEW i \in DOMAIN Queries, Naming(p, i) # {}
                 PROVE  FALSE
        OBVIOUS
    <3>1. PaperOf[p].conf = Queries[i].conf
        BY DEF Naming
    <3>2. PaperOf[p].year - 1 <= Queries[i].year /\ Queries[i].year <= PaperOf[p].year + 1
        BY DEF SourcesAgreeOn
    <3>3. p \in missing
        BY <1>1
    <3> HIDE DEF missing
    <3>4. i \in Slices(missing)
        BY <3>1, <3>2, <3>3 DEF Slices
    <3> QED
        BY <2>1, <3>4
  <2>3. ByVenue(p) = NoId
      BY <2>2 DEF ByVenue
  <2>4. arxiv[p] = InCache(p) /\ cites[p] = NoCount
      BY <1>1 DEF Complete
  <2> QED
      BY <1>1, <2>1, <2>3, <2>4 DEF Undisturbed
<1>2. CASE s2[p] # NoId
  <2>1. s2[p] \in SourcesOf(p) /\ cites[p] = S2Of[s2[p]].cites
      BY <1>2 DEF Complete
  <2>2. r = s2[p]
    <3>1. CASE ByArxiv(p) # NoId
      <4>1. ByArxiv(p) \in SourcesOf(p)
          BY <3>1 DEF SourcesOf
      <4> QED
          BY <2>1, <3>1, <4>1 DEF SourcesAgreeOn
    <3>2. CASE ByArxiv(p) = NoId
      <4>1. PICK i \in naming : s2[p] = NamedBy(p, i)
          BY <2>1, <3>2 DEF SourcesOf
      <4>2. naming # {} /\ naming \in SUBSET Nat
          BY <4>1, QueriesAre
      <4>3. Min(naming) \in naming
          BY <4>2, MinIs
      <4>4. ByVenue(p) = NamedBy(p, Min(naming))
          BY <4>2 DEF ByVenue
      <4>5. \A k \in naming : NamedBy(p, k) # NoId
        <5> TAKE k \in naming
        <5>1. Naming(p, k) # {} /\ Naming(p, k) \in SUBSET Nat
            BY PagesNaming
        <5>2. Min(Naming(p, k)) \in Naming(p, k) /\ \A x \in Naming(p, k) : Min(Naming(p, k)) <= x
            BY <5>1, MinIs
        <5> QED
            BY <5>2, NamedIsSource DEF NamedBy
      <4>6. ByVenue(p) \in SourcesOf(p)
          BY <4>3, <4>4, <4>5 DEF SourcesOf
      <4> QED
          BY <2>1, <3>2, <4>6 DEF SourcesAgreeOn
    <3> QED
        BY <3>1, <3>2
  <2>3. arxiv[p] \in {InCache(p), S2Of[s2[p]].arxiv} /\ (arxiv[p] = NoId => InCache(p) = NoId /\ S2Of[s2[p]].arxiv = NoId)
      BY <1>2 DEF Complete
  <2>4. InCache(p) # NoId => S2Of[s2[p]].arxiv \in {NoId, InCache(p)}
      BY <2>1 DEF SourcesAgreeOn
  <2>5. arxiv[p] = IF InCache(p) = NoId /\ r # NoId THEN S2Of[r].arxiv ELSE InCache(p)
      BY <1>2, <2>2, <2>3, <2>4
  <2> QED
      BY <1>2, <2>1, <2>2, <2>5 DEF Undisturbed
<1> QED
    BY <1>1, <1>2

-----------------------------------------------------------------------------
(* The columns. *)

LEMMA LinksSteps == BatchInv /\ LinksRight /\ [EnrichmentNext]_enrichmentVars => LinksRight'
<1> SUFFICES ASSUME BatchInv, LinksRight, [EnrichmentNext]_enrichmentVars
             PROVE  LinksRight'
    OBVIOUS
<1> USE DEF columns, files, history
<1>a. ASSUME batch'.at \notin {"relink", "percentile"}
      PROVE  LinksRight'
    BY <1>a DEF LinksRight
<1>1. CASE StartBatch \/ HarvestDone \/ HarvestPage \/ SaveCheckpoint \/ StopInAppend \/ StopInSave
    BY <1>a, <1>1, Moves DEF IsIdle
<1>2. CASE MatchArxiv \/ EnrichByArxiv \/ PendingByConf
    BY <1>a, <1>2, Moves DEF IsIdle
<1>3. CASE EnrichByVenuePage \/ NextQuery
  <2>1. batch'.at = "byVenue"
      BY <1>3, Moves, PageMoves DEF But, BatchFields
  <2> QED
      BY <1>a, <2>1
<1>4. CASE SearchFails \/ EnrichedByVenue
    BY <1>a, <1>4, Moves
<1>5. CASE FetchPapers
    BY <1>5, Moves DEF FetchPapers, LinksRight, BatchInv, But, BatchFields
<1>6. CASE RunLinking
  <2>1. CASE IsIdle'
      BY <1>a, <2>1 DEF IsIdle
  <2>2. CASE /\ batch.at = "relink" /\ batch'.at = "percentile" /\ But({"at"})
             /\ links' = FindLinks(batch.snapshot, batch.seen)
      BY <1>6, <2>2 DEF RunLinking, LinksRight, But, BatchFields
  <2> QED
      BY <1>6, <2>1, <2>2, Moves
<1>7. CASE RefreshPercentiles \/ StopBatch
    BY <1>a, <1>7, Moves DEF IsIdle
<1>8. CASE IngestPaper
    BY <1>8, Moves DEF IngestPaper, LinksRight
<1>9. CASE UNCHANGED enrichmentVars
    BY <1>9 DEF enrichmentVars, LinksRight
<1> QED
    BY <1>1, <1>2, <1>3, <1>4, <1>5, <1>6, <1>7, <1>8, <1>9 DEF EnrichmentNext

(* A match from the whole harvest.                                          *)
LEMMA MatchRight ==
    ASSUME BatchInv, HarvestInv, ColumnsRight, clean, MatchArxiv
    PROVE  ColumnsRight' /\ BaseRight'
<1> USE DEF columns, files, history
<1>1. s2' = s2 /\ cites' = cites
    BY DEF MatchArxiv
<1>2. CASE batch'.base = {} /\ batch'.at \notin Searched /\ arxiv' = arxiv
    BY <1>1, <1>2 DEF ColumnsRight, BaseRight
<1>3. CASE batch.at = "match" /\ batch'.at = "byArxiv" /\ batch'.base = papers
  <2>1. cache = UNION Range(Pages)
    <3>1. page = Len(Pages)
        BY <1>3 DEF HarvestInv
    <3>2. \A i \in DOMAIN Pages : Pages[i] \subseteq cache
        BY <3>1, SourcesKnown DEF HarvestInv, SourcesKnown
    <3>3. UNION Range(Pages) \subseteq cache
        BY <3>2 DEF Range
    <3> QED
        BY <3>3 DEF HarvestInv
  <2>2. arxiv' = [p \in Papers |-> IF p \in papers /\ arxiv[p] = NoId THEN InCache(p) ELSE arxiv[p]]
    <3>1. ~(batch'.at = "idle") /\ ~(batch'.at = "unreadable")
        BY <1>3
    <3>2. ~Step("match", Idle)
        BY <3>1, ToIdle DEF BatchInv, IsIdle
    <3>3. ~Step("match", Goto("unreadable"))
        BY <3>1, GotoMoves DEF BatchInv
    <3> QED
        BY <2>1, <3>2, <3>3 DEF MatchArxiv, InCache, Papers
  <2>3. ASSUME NEW p \in Papers
        PROVE  arxiv'[p] = IF p \in papers /\ arxiv[p] = NoId THEN InCache(p) ELSE arxiv[p]
      BY <2>2
  <2>4. ColumnsRight'
      BY <1>1, <2>3 DEF ColumnsRight
  <2>5. BaseRight'
      BY <1>1, <1>3, <2>3 DEF BaseRight, BatchInv, Searched
  <2> QED
      BY <2>4, <2>5
<1>4. batch.at = "match" => batch.base = {}
    BY DEF BatchInv, Begun
<1> QED
    BY <1>2, <1>3, <1>4, Moves DEF IsIdle, But, BatchFields, Searched

(* The records of the arXiv ids.                                            *)
LEMMA ByArxivRight ==
    ASSUME BatchInv, ColumnsRight, BaseRight, EnrichByArxiv
    PROVE  ColumnsRight' /\ BaseRight'
<1> USE DEF columns, files, history
<1> DEFINE T == {p \in papers : arxiv[p] # NoId /\ s2[p] = NoId /\ S2ByArxiv[arxiv[p]] # NoId}
<1>1. /\ arxiv' = arxiv /\ batch'.base = batch.base /\ batch'.at = "pending"
      /\ ApplyPapers([p \in T |-> S2ByArxiv[arxiv[p]]])
    BY Moves DEF EnrichByArxiv, But, BatchFields
<1>2. \A p \in Papers : /\ s2'[p] = IF p \in T THEN S2ByArxiv[arxiv[p]] ELSE s2[p]
                        /\ cites'[p] = IF p \in T THEN S2Of[S2ByArxiv[arxiv[p]]].cites ELSE cites[p]
    BY <1>1 DEF ApplyPapers, Papers
<1>3. ASSUME NEW p \in Papers, p \in T
      PROVE  /\ s2'[p] # NoId /\ s2'[p] \in SourcesOf(p) /\ cites'[p] = S2Of[s2'[p]].cites
             /\ arxiv'[p] = InCache(p) /\ InCache(p) # NoId
  <2>1. arxiv[p] = InCache(p) /\ InCache(p) # NoId
      BY <1>3 DEF ColumnsRight
  <2>2. ByArxiv(p) = S2ByArxiv[arxiv[p]] /\ ByArxiv(p) # NoId
      BY <1>3, <2>1 DEF ByArxiv
  <2>3. s2'[p] = ByArxiv(p) /\ cites'[p] = S2Of[ByArxiv(p)].cites
      BY <1>2, <1>3, <2>2
  <2> QED
      BY <1>1, <2>1, <2>2, <2>3 DEF SourcesOf
<1>4. ASSUME NEW p \in Papers, p \notin T
      PROVE  s2'[p] = s2[p] /\ cites'[p] = cites[p]
    BY <1>2, <1>4
<1>5. ASSUME NEW p \in batch.base, s2'[p] = NoId
      PROVE  ByArxiv(p) = NoId
  <2>1. p \in papers /\ p \in Papers /\ p \notin T /\ s2[p] = NoId
      BY <1>3, <1>4, <1>5 DEF BatchInv
  <2>2. arxiv[p] = NoId \/ S2ByArxiv[arxiv[p]] = NoId
      BY <2>1
  <2>3. InCache(p) # NoId => arxiv[p] = InCache(p)
      BY <2>1 DEF BaseRight, ColumnsRight
  <2> QED
      BY <2>2, <2>3 DEF ByArxiv
<1> HIDE DEF T
<1>6. ColumnsRight'
    BY <1>1, <1>3, <1>4 DEF ColumnsRight
<1>7. BaseRight'
    BY <1>1, <1>5 DEF BaseRight, Searched
<1> QED
    BY <1>6, <1>7

(* What is asked of the venues.                                             *)
LEMMA AskRight ==
    ASSUME BatchInv, BaseRight, PendingByConf
    PROVE  BaseRight' /\ PendingRight'
<1> DEFINE missing == {p \in papers : s2[p] = NoId}
<1>1. /\ arxiv' = arxiv /\ s2' = s2 /\ batch.at = "pending" /\ batch'.at = "byVenue"
      /\ batch'.pending = missing /\ batch'.asks = Slices(missing) /\ batch'.query = 1 /\ batch'.part = 1
      /\ batch'.base = batch.base
    BY Moves DEF PendingByConf, columns, But, BatchFields
<1>2. Missing(batch.base) \subseteq missing
    BY DEF Missing, BatchInv
<1>3. \A p \in missing : s2[p] = NoId
    OBVIOUS
<1>4. \A p \in missing : 1 \in DOMAIN Queries => \A j \in Naming(p, 1) : j >= 1
    BY PagesNaming
<1>5. \A p \in batch.base : s2[p] = NoId => p \in missing
    BY DEF BatchInv
<1> HIDE DEF missing
<1>6. Slices(Missing(batch.base)) \subseteq Slices(missing) /\ \A i \in Slices(missing) : i >= 1
    BY <1>2, SlicesGrow, QueriesAre
<1>7. Missing(batch.base)' = Missing(batch.base) /\ Slices(Missing(batch.base))' = Slices(Missing(batch.base))
    BY <1>1 DEF Missing, Slices
<1>8. BaseRight'
    BY <1>1, <1>5, <1>6, <1>7 DEF BaseRight
<1>9. PendingRight'
    BY <1>1, <1>3, <1>4 DEF PendingRight
<1> QED
    BY <1>8, <1>9

(* A page of a search. *)
LEMMA PageRight ==
    ASSUME BatchInv, ColumnsRight, BaseRight, PendingRight, EnrichByVenuePage
    PROVE  ColumnsRight' /\ BaseRight' /\ PendingRight'
<1> DEFINE i == batch.query
           j == batch.part
<1>1. /\ batch.at = "byVenue" /\ i \in batch.asks /\ j <= Len(Queries[i].pages)
      /\ batch'.part = j + 1 /\ batch'.pending = batch.pending \ Hits /\ But({"part", "pending"})
      /\ ApplyPapers([p \in Hits |-> Found(p, Records)])
      /\ arxiv' = [p \in Papers |-> IF p \in Hits /\ arxiv[p] = NoId
                                    THEN S2Of[Found(p, Records)].arxiv ELSE arxiv[p]]
    BY PageMoves DEF Asked, Query
<1>2. /\ batch'.at = "byVenue" /\ batch'.query = i /\ batch'.asks = batch.asks /\ batch'.base = batch.base
    BY <1>1 DEF But, BatchFields
<1>3. i \in DOMAIN Queries /\ j \in DOMAIN Queries[i].pages /\ j \in Nat
    BY <1>1, QueriesAre DEF BatchInv
<1>4. \A p \in batch.pending : p \in Papers /\ s2[p] = NoId /\ \A k \in Naming(p, i) : k >= j
    BY <1>1, <1>3 DEF PendingRight, BatchInv
<1>5. \A p \in batch.pending : p \in Hits <=> j \in Naming(p, i)
    BY <1>3 DEF Hits, Naming, Query, Records
<1>6. Hits \subseteq batch.pending
    BY DEF Hits
<1>7. \A p \in Papers : /\ s2'[p] = IF p \in Hits THEN Found(p, Records) ELSE s2[p]
                        /\ cites'[p] = IF p \in Hits THEN S2Of[Found(p, Records)].cites ELSE cites[p]
    BY <1>1 DEF ApplyPapers, Papers
<1>8. \A p \in Papers : arxiv'[p] = IF p \in Hits /\ arxiv[p] = NoId
                                    THEN S2Of[Found(p, Records)].arxiv ELSE arxiv[p]
    BY <1>1
<1>9. ASSUME NEW p \in Papers, p \in Hits
      PROVE  /\ s2[p] = NoId /\ s2'[p] # NoId /\ s2'[p] \in SourcesOf(p) /\ cites'[p] = S2Of[s2'[p]].cites
             /\ arxiv[p] \in {NoId, InCache(p)}
             /\ arxiv'[p] = IF arxiv[p] = NoId THEN S2Of[s2'[p]].arxiv ELSE arxiv[p]
  <2> DEFINE r == Found(p, Records)
  <2>1. p \in batch.pending /\ j \in Naming(p, i) /\ \A k \in Naming(p, i) : j <= k
    <3>1. \A k \in Naming(p, i) : k \in Nat
        BY <1>3, PagesNaming
    <3> QED
        BY <1>3, <1>4, <1>5, <1>6, <1>9, <3>1
  <2>2. r \in SourcesOf(p) /\ r # NoId
      BY <1>3, <2>1, NamedIsSource DEF Records, Query
  <2>3. s2[p] = NoId /\ arxiv[p] \in {NoId, InCache(p)}
      BY <1>4, <2>1 DEF ColumnsRight
  <2>4. /\ s2'[p] = r /\ cites'[p] = S2Of[r].cites
        /\ arxiv'[p] = IF arxiv[p] = NoId THEN S2Of[r].arxiv ELSE arxiv[p]
      BY <1>7, <1>8, <1>9
  <2> HIDE DEF r
  <2> QED
      BY <2>2, <2>3, <2>4
<1>10. ASSUME NEW p \in Papers, p \notin Hits
       PROVE  s2'[p] = s2[p] /\ cites'[p] = cites[p] /\ arxiv'[p] = arxiv[p]
    BY <1>7, <1>8, <1>10
<1> HIDE DEF i, j
<1>11. ColumnsRight'
    BY <1>9, <1>10 DEF ColumnsRight
<1>12. BaseRight'
  <2>0. \A p \in batch.base : p \in Papers
      BY DEF BatchInv
  <2>1. Missing(batch.base)' \subseteq Missing(batch.base)
      BY <1>2, <1>9, <1>10, <2>0 DEF Missing
  <2>2. Slices(Missing(batch.base)') \subseteq batch.asks
      BY <1>1, <2>1, SlicesGrow DEF BaseRight, Searched
  <2>3. Slices(Missing(batch.base))' = Slices(Missing(batch.base)')
      BY DEF Slices
  <2>4. ASSUME NEW p \in batch.base
        PROVE  InCache(p) # NoId => arxiv'[p] # NoId
      BY <1>9, <1>10, <2>0 DEF BaseRight
  <2>5. ASSUME NEW p \in batch.base, s2'[p] = NoId
        PROVE  /\ ByArxiv(p) = NoId /\ p \in batch'.pending
               /\ \A q \in batch.asks : Naming(p, q) # {} => q >= batch.query
    <3>1. p \notin Hits /\ s2[p] = NoId
        BY <1>9, <1>10, <2>0, <2>5
    <3> QED
        BY <1>1, <3>1 DEF BaseRight
  <2> QED
      BY <1>2, <2>2, <2>3, <2>4, <2>5 DEF BaseRight, i
<1>13. PendingRight'
  <2> SUFFICES ASSUME NEW p \in batch.pending \ Hits
               PROVE  s2'[p] = NoId /\ \A k \in Naming(p, i) : k >= j + 1
      BY <1>1, <1>2 DEF PendingRight
  <2>1. s2'[p] = NoId
      BY <1>4, <1>10
  <2>2. ASSUME NEW k \in Naming(p, i)
        PROVE  k >= j + 1
    <3>1. k \in Nat /\ k >= j /\ k # j
        BY <1>3, <1>4, <1>5, PagesNaming
    <3> QED
        BY <1>3, <3>1
  <2> QED
      BY <2>1, <2>2
<1> QED
    BY <1>11, <1>12, <1>13

(* The next search, and the last.                                           *)
LEMMA SearchesRight ==
    ASSUME BatchInv, BaseRight, PendingRight, NextQuery \/ EnrichedByVenue
    PROVE  BaseRight' /\ PendingRight'
<1>1. /\ arxiv' = arxiv /\ s2' = s2 /\ batch.at = "byVenue" /\ batch'.base = batch.base
      /\ batch'.pending = batch.pending /\ batch'.asks = batch.asks
    BY Moves DEF NextQuery, EnrichedByVenue, columns, But, BatchFields
<1>2. batch.query \in Nat /\ batch.query >= 1 /\ batch.part \in Nat /\ batch.asks \subseteq DOMAIN Queries
    BY DEF BatchInv
<1>m. /\ Slices(Missing(batch.base))' = Slices(Missing(batch.base))
      /\ Slices(Missing(batch.base)) \subseteq batch.asks
    BY <1>1 DEF Missing, Slices, BaseRight, Searched
<1>3. CASE NextQuery
  <2>1. /\ batch'.at = "byVenue" /\ batch'.query = batch.query + 1 /\ batch'.part = 1
        /\ Asked => batch.part > Len(Query.pages)
      BY <1>3, Moves DEF NextQuery, But, BatchFields
  <2>2. ASSUME NEW p \in batch.base, s2[p] = NoId, NEW i \in batch.asks, Naming(p, i) # {}
        PROVE  i >= batch.query + 1
    <3>1. p \in batch.pending /\ i >= batch.query /\ i \in DOMAIN Queries
        BY <1>1, <1>2, <2>2 DEF BaseRight
    <3>2. ASSUME i = batch.query
          PROVE  FALSE
      <4>1. batch.part > Len(Queries[i].pages)
          BY <2>1, <2>2, <3>2 DEF Asked, Query
      <4>2. PICK j \in Naming(p, i) : j >= batch.part
          BY <1>1, <2>2, <3>1, <3>2 DEF PendingRight
      <4>3. j \in 1 .. Len(Queries[i].pages) /\ Len(Queries[i].pages) \in Nat
          BY <3>1, PagesNaming, QueriesAre
      <4> QED
          BY <1>2, <4>1, <4>2, <4>3
    <3>3. i \in Nat
        BY <3>1, QueriesAre
    <3> QED
        BY <1>2, <3>1, <3>2, <3>3
  <2>3. BaseRight'
    <3> SUFFICES ASSUME NEW p \in batch.base
                 PROVE  /\ InCache(p) # NoId => arxiv[p] # NoId
                        /\ s2[p] = NoId =>
                            /\ ByArxiv(p) = NoId /\ p \in batch.pending
                            /\ \A i \in batch.asks : Naming(p, i) # {} => i >= batch.query + 1
        BY <1>1, <1>m, <2>1 DEF BaseRight
    <3> QED
        BY <1>1, <2>2 DEF BaseRight
  <2>4. \A p \in batch.pending : s2[p] = NoId
      BY <1>1 DEF PendingRight
  <2>5. ASSUME NEW p, batch.query + 1 \in DOMAIN Queries, NEW j \in Naming(p, batch.query + 1)
        PROVE  j >= 1
      BY <2>5, PagesNaming, QueriesAre
  <2>6. PendingRight'
      BY <1>1, <2>1, <2>4, <2>5 DEF PendingRight
  <2> QED
      BY <2>3, <2>6
<1>4. CASE EnrichedByVenue
  <2>1. batch.query > Len(Queries) /\ batch'.at = "link"
      BY <1>4, Moves DEF EnrichedByVenue
  <2>2. ASSUME NEW p \in batch.base
        PROVE  /\ InCache(p) # NoId => arxiv[p] # NoId
               /\ s2[p] = NoId => ByArxiv(p) = NoId /\ \A i \in batch.asks : Naming(p, i) = {}
    <3>1. /\ InCache(p) # NoId => arxiv[p] # NoId
          /\ s2[p] = NoId => ByArxiv(p) = NoId /\ \A i \in batch.asks : Naming(p, i) # {} => i >= batch.query
        BY <1>1, <2>2 DEF BaseRight
    <3>2. \A i \in batch.asks : ~(i >= batch.query)
        BY <1>2, <2>1, QueriesAre
    <3> QED
        BY <3>1, <3>2
  <2> QED
      BY <1>1, <1>m, <2>1, <2>2 DEF BaseRight, PendingRight
<1> QED
    BY <1>3, <1>4

LEMMA RightSteps == BatchInv /\ HarvestInv /\ Right /\ [EnrichmentNext]_enrichmentVars => Right'
<1> SUFFICES ASSUME BatchInv, HarvestInv, Right, [EnrichmentNext]_enrichmentVars, clean'
             PROVE  ColumnsRight' /\ BaseRight' /\ PendingRight'
    BY DEF Right
<1> USE DEF columns, files, history
<1>0. clean
    BY DEF EnrichmentNext, StartBatch, HarvestDone, HarvestPage, SaveCheckpoint, StopInAppend, StopInSave,
           MatchArxiv, EnrichByArxiv, PendingByConf, Ask, EnrichByVenuePage, NextQuery, SearchFails, EnrichedByVenue, FetchPapers,
           RunLinking, RefreshPercentiles, StopBatch, IngestPaper, enrichmentVars
<1>r. ColumnsRight /\ BaseRight /\ PendingRight
    BY <1>0 DEF Right
<1>a. ASSUME arxiv' = arxiv, s2' = s2, cites' = cites
      PROVE  ColumnsRight'
    BY <1>a, <1>r DEF ColumnsRight
<1>e. \A S : S = {} => Slices(S) = {}
    BY DEF Slices
<1>b. ASSUME batch'.base = {}
      PROVE  BaseRight'
  <2>1. Missing(batch.base)' = {}
      BY <1>b DEF Missing
  <2>2. Slices(Missing(batch.base))' = Slices(Missing(batch.base)')
      BY DEF Slices
  <2>3. Slices(Missing(batch.base))' = {}
      BY <1>e, <2>1, <2>2
  <2> QED
      BY <1>b, <2>3 DEF BaseRight
<1>s. ASSUME s2' = s2, batch'.base = batch.base
      PROVE  Slices(Missing(batch.base))' = Slices(Missing(batch.base))
    BY <1>s DEF Slices, Missing
<1>c. ASSUME batch'.at # "byVenue"
      PROVE  PendingRight'
    BY <1>c DEF PendingRight
<1>1. CASE StartBatch \/ HarvestDone \/ HarvestPage \/ SaveCheckpoint
  <2>1. arxiv' = arxiv /\ s2' = s2 /\ cites' = cites
      BY <1>1 DEF StartBatch, HarvestDone, HarvestPage, SaveCheckpoint
  <2>2. batch'.base = {} /\ batch'.at # "byVenue"
    <3>1. /\ batch.at \in {"idle", "unreadable", "harvest", "checkpoint"}
          /\ batch'.at \in {"harvest", "checkpoint", "match", "unreadable"} /\ But({"at"})
        BY <1>1, Moves
    <3> QED
        BY <3>1 DEF BatchInv, Begun, But, BatchFields
  <2> QED
      BY <1>a, <1>b, <1>c, <2>1, <2>2
<1>2. CASE MatchArxiv
  <2>1. batch'.at # "byVenue"
      BY <1>2, Moves DEF IsIdle
  <2> QED
      BY <1>0, <1>2, <1>c, <1>r, <2>1, MatchRight
<1>3. CASE EnrichByArxiv
    BY <1>3, <1>c, <1>r, Moves, ByArxivRight
<1>4. CASE PendingByConf
    BY <1>4, <1>a, <1>r, AskRight DEF PendingByConf
<1>5. CASE EnrichByVenuePage
    BY <1>5, <1>r, PageRight
<1>6. CASE NextQuery \/ EnrichedByVenue
    BY <1>6, <1>a, <1>r, SearchesRight DEF NextQuery, EnrichedByVenue
<1>7. CASE SearchFails
  <2>1. /\ arxiv' = arxiv /\ s2' = s2 /\ cites' = cites /\ batch.at = "byVenue"
        /\ batch'.base = {} /\ batch'.query = batch.query + 1 /\ batch'.part = 1 /\ batch'.pending = batch.pending
      BY <1>7, Moves DEF SearchFails, But, BatchFields
  <2>2. \A p \in batch.pending : s2[p] = NoId
      BY <1>r, <2>1 DEF PendingRight
  <2>3. ASSUME NEW p, batch.query + 1 \in DOMAIN Queries, NEW j \in Naming(p, batch.query + 1)
        PROVE  j >= 1
      BY <2>3, PagesNaming, QueriesAre
  <2>4. PendingRight'
      BY <2>1, <2>2, <2>3 DEF PendingRight
  <2> QED
      BY <1>a, <1>b, <2>1, <2>4
<1>8. CASE FetchPapers \/ (RunLinking /\ ~IsIdle')
  <2>1. /\ arxiv' = arxiv /\ s2' = s2 /\ cites' = cites
        /\ batch.at \in {"link", "relink"} /\ batch'.at \in {"relink", "percentile"} /\ batch'.base = batch.base
    <3>1. CASE FetchPapers
        BY <3>1, Moves DEF FetchPapers, But, BatchFields
    <3>2. CASE RunLinking /\ ~IsIdle'
        BY <3>2, Moves DEF RunLinking, But, BatchFields
    <3> QED
        BY <1>8, <3>1, <3>2
  <2>3. batch'.asks = batch.asks
      BY <1>8, Moves DEF But, BatchFields
  <2>2. BaseRight'
      BY <1>r, <1>s, <2>1, <2>3 DEF BaseRight, Searched
  <2> QED
      BY <1>a, <1>c, <2>1, <2>2
<1>9. CASE (RunLinking /\ IsIdle') \/ RefreshPercentiles \/ StopBatch \/ StopInAppend \/ StopInSave
  <2>1. arxiv' = arxiv /\ s2' = s2 /\ cites' = cites
      BY <1>9 DEF RunLinking, RefreshPercentiles, StopBatch, StopInAppend, StopInSave
  <2>2. batch'.base = {} /\ batch'.at # "byVenue"
      BY <1>9, Moves DEF IsIdle
  <2> QED
      BY <1>a, <1>b, <1>c, <2>1, <2>2
<1>10. CASE IngestPaper \/ UNCHANGED enrichmentVars
  <2>1. arxiv' = arxiv /\ s2' = s2 /\ cites' = cites /\ batch' = batch
      BY <1>10, Moves DEF IngestPaper, enrichmentVars
  <2> QED
      BY <1>a, <1>r, <1>s, <2>1 DEF BaseRight, PendingRight
<1> QED
    BY <1>1, <1>2, <1>3, <1>4, <1>5, <1>6, <1>7, <1>8, <1>9, <1>10 DEF EnrichmentNext

LEMMA SettledSteps ==
    ASSUME UninterruptedInv, [EnrichmentNext]_enrichmentVars
    PROVE  (settled => batch.at = "idle")' /\ AsIfUninterrupted'
<1> USE DEF columns, files, history
<1>i. BatchInv /\ Right /\ LinksRight /\ (settled => batch.at = "idle") /\ AsIfUninterrupted
    BY DEF UninterruptedInv
<1>1. CASE StartBatch \/ IngestPaper
    BY <1>1 DEF StartBatch, IngestPaper, AsIfUninterrupted
<1>2. CASE UNCHANGED enrichmentVars
  <2>1. (\A p \in papers : Complete(p))' <=> \A p \in papers : Complete(p)
      BY <1>2 DEF enrichmentVars, Complete, Slices
  <2>2. AsIfUninterrupted' <=> AsIfUninterrupted
      BY <1>2, <2>1 DEF enrichmentVars, AsIfUninterrupted
  <2> QED
      BY <1>i, <1>2, <2>2 DEF enrichmentVars
<1>3. CASE RefreshPercentiles
  <2>1. /\ settled' = (batch.base = papers) /\ pct' = Percentile(papers, cites) /\ clean' = clean
        /\ papers' = papers /\ arxiv' = arxiv /\ s2' = s2 /\ cites' = cites /\ links' = links
        /\ batch.at = "percentile" /\ batch'.at = "idle"
      BY <1>3, <1>i, Moves DEF RefreshPercentiles, IsIdle
  <2>2. ASSUME settled', clean
        PROVE  /\ \A p \in papers : Complete(p)
               /\ links = FindLinks(papers, arxiv)
    <3>1. batch.base = papers /\ ColumnsRight /\ BaseRight
        BY <1>i, <2>1, <2>2 DEF Right
    <3>2. links = FindLinks(papers, arxiv)
      <4>1. batch.snapshot = papers /\ links = FindLinks(batch.snapshot, arxiv)
          BY <1>i, <2>1, <3>1 DEF LinksRight
      <4> QED
          BY <4>1
    <3>3. ASSUME NEW p \in papers
          PROVE  Complete(p)
      <4>1. p \in Papers /\ (InCache(p) # NoId => arxiv[p] # NoId)
          BY <1>i, <3>1 DEF BatchInv, BaseRight
      <4>2. Slices({q \in papers : s2[q] = NoId}) \subseteq batch.asks
          BY <2>1, <3>1 DEF BaseRight, Missing, Searched
      <4>3. s2[p] = NoId => ByArxiv(p) = NoId /\ \A i \in batch.asks : Naming(p, i) = {}
          BY <2>1, <3>1 DEF BaseRight
      <4> QED
          BY <3>1, <4>1, <4>2, <4>3 DEF ColumnsRight, Complete
    <3> QED
        BY <3>2, <3>3
  <2>3. \A p \in papers : p \in Papers
      BY <1>i DEF BatchInv
  <2>4. (\A p \in papers : Complete(p))' <=> \A p \in papers : Complete(p)
      BY <2>1 DEF Complete, Slices
  <2>5. ASSUME settled', clean
        PROVE  \A p \in papers : SourcesAgreeOn(p) =>
                    [s2 |-> s2[p], arxiv |-> arxiv[p], cites |-> cites[p]] = Undisturbed(p)
      BY <2>2, <2>3, <2>5, AgreedIsUndisturbed
  <2> QED
      BY <2>1, <2>2, <2>4, <2>5 DEF AsIfUninterrupted
<1>4. CASE /\ ~(StartBatch \/ IngestPaper \/ RefreshPercentiles) /\ EnrichmentNext
  <2>1. batch.at # "idle" /\ settled' = settled
    <3>1. settled' = settled
        BY <1>4 DEF EnrichmentNext, HarvestDone, HarvestPage, SaveCheckpoint, StopInAppend, StopInSave,
               MatchArxiv, EnrichByArxiv,
               PendingByConf, EnrichByVenuePage, NextQuery, SearchFails, EnrichedByVenue, FetchPapers,
               RunLinking, StopBatch
    <3>2. batch.at # "idle"
        BY <1>i, <1>4, Moves, PageMoves DEF EnrichmentNext
    <3> QED
        BY <3>1, <3>2
  <2>2. ~settled'
      BY <1>i, <2>1
  <2> QED
      BY <2>2 DEF AsIfUninterrupted
<1> QED
    BY <1>1, <1>2, <1>3, <1>4

LEMMA UninterruptedStart == EnrichmentInit => UninterruptedInv
<1> SUFFICES ASSUME EnrichmentInit
             PROVE  UninterruptedInv
    OBVIOUS
<1>1. IsIdle /\ papers = FirstPapers /\ cache = {} /\ page = 0 /\ settled = FALSE
    BY IdleIs DEF EnrichmentInit, IsIdle
<1>2. HarvestInv
  <2>1. Len(Pages) \in Nat
      BY SourcesKnown DEF SourcesKnown
  <2> QED
      BY <1>1, <2>1 DEF HarvestInv, IsIdle
<1>3. BatchInv
    BY <1>1, FirstPapersKnown DEF BatchInv, IsIdle, FirstPapersKnown, Papers, Begun
<1>4. \A p \in Papers : s2[p] = NoId /\ arxiv[p] = NoId /\ cites[p] = NoCount
    BY DEF EnrichmentInit, Papers
<1>5. Right
    BY <1>1, <1>4 DEF Right, ColumnsRight, BaseRight, PendingRight, IsIdle, Searched
<1>6. LinksRight
    BY <1>1 DEF LinksRight, IsIdle
<1> QED
    BY <1>1, <1>2, <1>3, <1>5, <1>6 DEF UninterruptedInv, IsIdle, AsIfUninterrupted

(* For any corpus, however it grows, any harvest and any searches, wherever *)
(* runs stop, also inside a write to a file, and searches fail: a run that  *)
(* ends with no search given up and no paper added leaves every paper       *)
(* complete, an undisputed one as one undisturbed run would leave it.       *)
THEOREM EnrichmentIsComplete == EnrichmentSpec => []AsIfUninterrupted
<1>1. UninterruptedInv /\ [EnrichmentNext]_enrichmentVars => UninterruptedInv'
  <2> SUFFICES ASSUME UninterruptedInv, [EnrichmentNext]_enrichmentVars
               PROVE  UninterruptedInv'
      OBVIOUS
  <2>1. HarvestInv /\ BatchInv /\ Right /\ LinksRight
      BY DEF UninterruptedInv
  <2> QED
      BY <2>1, HarvestSteps, BatchSteps, RightSteps, LinksSteps, SettledSteps DEF UninterruptedInv
<1>2. UninterruptedInv => AsIfUninterrupted
    BY DEF UninterruptedInv
<1> QED
    BY <1>1, <1>2, UninterruptedStart, PTL DEF EnrichmentSpec
=============================================================================
