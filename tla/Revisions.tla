----------------------------- MODULE Revisions ------------------------------
(* The revision history of a paper: OpenReview edits, which are partial     *)
(* patches, folded into revisions, the body diffs attached where the PDF    *)
(* was replaced, and the table paper_body_diffs that keeps the result for   *)
(* thirty days, under concurrent calls of the revisions endpoint and of the *)
(* count that the report shows.                                             *)
EXTENDS Integers, SequencesExt, Lists

CONSTANTS
    Reader,         \* calls of get_paper_revisions_with_body or of the count
    Patch,          \* edits: functions from some fields to a value or Deleted
    Suffix,         \* invitation suffixes: sets of the needles they contain
    Garbled,        \* files whose text cannot be extracted
    Deleted,
    MaxEdits, MaxFailures

None == 0
Unknown == -1       \* no edit has carried the field yet
ASSUME RevisionsConstants ==
    \A p \in Patch : /\ DOMAIN p \subseteq {"title", "pdf"}
                     /\ \A f \in DOMAIN p : p[f] \notin {None, Unknown}

VARIABLES
    edits,          \* what OpenReview has, oldest first
    bodyCache,      \* paper_body_diffs: no row or one [payload, fresh]
    reading,        \* the calls: [at, answer, count]
    outages         \* failures so far
revisionVars == <<edits, bodyCache, reading, outages>>

TRACKED == <<"title", "pdf">>
KINDS == <<[needle |-> "Camera_Ready_Revision", kind |-> "camera_ready"],
           [needle |-> "Rebuttal_Revision", kind |-> "rebuttal"],
           [needle |-> "Revision", kind |-> "revision"],
           [needle |-> "Submission", kind |-> "submission"]>>
Classify(suffix) == LET hits == SelectSeq(KINDS, LAMBDA k : k.needle \in suffix)
                    IN IF hits = <<>> THEN "other" ELSE hits[1].kind

-----------------------------------------------------------------------------
(* build_revisions. An edit is known by its place. *)

Unwrap(v) == IF v = Deleted THEN None ELSE v
NullAs(v) == IF v = Unknown THEN None ELSE v

FileChange(before, after, beforeSrc, afterSrc) ==
    [field |-> "pdf", before |-> before, after |-> after,
     beforeUrl |-> IF before # None THEN beforeSrc ELSE None,
     afterUrl |-> IF after # None THEN afterSrc ELSE None]

DiffFields(prev, cur, prevSrc, curSrc) ==
    LET Changed(f) == NullAs(prev[f]) # NullAs(cur[f]) /\ prev[f] # Unknown
        Change(f) == IF f = "pdf" THEN FileChange(NullAs(prev[f]), NullAs(cur[f]), prevSrc, curSrc)
                     ELSE [field |-> f, before |-> prev[f], after |-> cur[f]]
        changed == Kept(TRACKED, {i \in DOMAIN TRACKED : Changed(TRACKED[i])})
    IN [i \in DOMAIN changed |-> Change(changed[i])]

(* Variant: the links of an edit's own id and the one before it. *)
ApplyWithNeighbours(st, edit) ==
    LET val == [f \in DOMAIN st.val |-> IF f \in DOMAIN edit.patch THEN Unwrap(edit.patch[f]) ELSE st.val[f]]
        i == Len(st.out) + 1
    IN [val |-> val, src |-> i,
        out |-> Append(st.out, [kind |-> Classify(edit.suffix), baseline |-> i = 1,
                    changes |-> IF i = 1 THEN <<>> ELSE DiffFields(st.val, val, i - 1, i)])]

Apply(st, edit) ==
    LET val == [f \in DOMAIN st.val |-> IF f \in DOMAIN edit.patch THEN Unwrap(edit.patch[f]) ELSE st.val[f]]
        i == Len(st.out) + 1
        src == IF "pdf" \in DOMAIN edit.patch /\ val["pdf"] # None THEN i ELSE st.src
    IN [val |-> val, src |-> src,
        out |-> Append(st.out, [kind |-> Classify(edit.suffix), baseline |-> i = 1,
                    changes |-> IF i = 1 THEN <<>> ELSE DiffFields(st.val, val, st.src, src)])]

(* The state of the loop after n edits. *)
NothingYet == [val |-> [f \in {"title", "pdf"} |-> Unknown], src |-> None, out |-> <<>>]
History(es) ==
    LET after[n \in 0 .. Len(es)] == IF n = 0 THEN NothingYet ELSE Apply(after[n - 1], es[n])
    IN after
BuildRevisions(es) == History(es)[Len(es)].out

Replaced(revisions) == {r \in DOMAIN revisions :
    \E i \in DOMAIN revisions[r].changes : revisions[r].changes[i].field = "pdf"}
CountBodyRevisions(revisions) == Cardinality(Replaced(revisions))

-----------------------------------------------------------------------------
(* attach_body_diffs, given the links whose PDF was read. *)

PdfUrls(revisions) ==
    LET files == UNION {{c \in ToSet(revisions[r].changes) : c.field = "pdf"} : r \in DOMAIN revisions}
    IN (UNION {{c.beforeUrl, c.afterUrl} : c \in files}) \ {None}

Body(c) == [field |-> "body", before |-> c.before, after |-> c.after]
WithBody(changes, read) == Flat([i \in DOMAIN changes |->
    IF changes[i].field = "pdf" /\ {changes[i].beforeUrl, changes[i].afterUrl} \subseteq read
    THEN <<changes[i], Body(changes[i])>> ELSE <<changes[i]>>])

(* The first version is shown as it is, next to the baseline. *)
BaselineBody(revisions, read) ==
    LET changes == Flat([r \in DOMAIN revisions |-> revisions[r].changes])
        shown == Kept(changes, {k \in DOMAIN changes :
                                 changes[k].field = "pdf" /\ changes[k].beforeUrl \in read})
    IN IF shown = <<>> THEN <<>> ELSE <<[field |-> "body", before |-> None, after |-> shown[1].before]>>

AttachBodyDiffs(revisions, read) == [r \in DOMAIN revisions |->
    [revisions[r] EXCEPT !.changes = WithBody(@, read) \o
        IF r = 1 THEN BaselineBody(revisions, read) ELSE <<>>]]

-----------------------------------------------------------------------------
NoAnswer == [supported |-> FALSE, revisions |-> <<>>]
Waiting == [at |-> "new", answer |-> NoAnswer, count |-> Unknown]
RevisionsInit ==
    /\ edits = <<>> /\ bodyCache = {} /\ outages = 0
    /\ reading = [c \in Reader |-> Waiting]

Advance(c, from, to, answer) ==
    /\ reading[c].at = from
    /\ reading' = [reading EXCEPT ![c].at = to, ![c].answer = answer]
Counted(c, count) ==
    /\ reading[c].at = "new"
    /\ reading' = [reading EXCEPT ![c].at = "done", ![c].count = count]
Fails == outages < MaxFailures /\ outages' = outages + 1

(* A hit that is fresh ends the call. A cache that cannot be read or parsed *)
(* is a miss: the SELECT has its own cursor.                                *)
LoadBodyCache(c) ==
    /\ \E refresh \in BOOLEAN :
         \/ /\ ~refresh
            /\ \E row \in bodyCache : row.fresh /\ Advance(c, "new", "done", row.payload)
            /\ UNCHANGED outages
         \/ /\ refresh \/ \A row \in bodyCache : ~row.fresh
            /\ Advance(c, "new", "edits", NoAnswer)
            /\ UNCHANGED outages
         \/ /\ ~refresh /\ bodyCache # {}
            /\ Advance(c, "new", "edits", NoAnswer) /\ Fails
    /\ UNCHANGED <<edits, bodyCache>>

(* get_note_edits: what OpenReview has, or a failure that is only reported. *)
(* A venue of the old API has no history to see, ever: the same answer.     *)
GetPaperRevisions(c) ==
    /\ \/ /\ UNCHANGED outages
          /\ Advance(c, "edits", IF edits = <<>> THEN "store" ELSE "pdfs",
                     [supported |-> TRUE, revisions |-> BuildRevisions(edits)])
       \/ Fails /\ Advance(c, "edits", "store", NoAnswer)
    /\ UNCHANGED <<edits, bodyCache>>

(* None when the history cannot be seen, a number when it can.              *)
GetBodyRevisionCount(c) ==
    /\ \/ /\ edits # <<>> /\ UNCHANGED outages
          /\ Counted(c, CountBodyRevisions(BuildRevisions(edits)))
       \/ /\ edits = <<>> /\ UNCHANGED outages
          /\ Counted(c, Unknown)
       \/ Fails /\ Counted(c, Unknown)
    /\ UNCHANGED <<edits, bodyCache>>

FileOf(e) == edits[e].patch["pdf"]

(* Every PDF once; a download that fails leaves its diffs out, an           *)
(* extractor that raises ends the call.                                     *)
FetchVersions(c) ==
    /\ \E lost \in SUBSET PdfUrls(reading[c].answer.revisions) :
         /\ IF lost = {} THEN UNCHANGED outages ELSE Fails
         /\ LET readable == {u \in PdfUrls(reading[c].answer.revisions) \ lost : FileOf(u) \notin Garbled}
            IN Advance(c, "pdfs", "store",
                 [reading[c].answer EXCEPT !.revisions = AttachBodyDiffs(@, readable)])
    /\ UNCHANGED <<edits, bodyCache>>
ExtractRaises(c) ==
    /\ Advance(c, "pdfs", "failed", reading[c].answer) /\ Fails
    /\ UNCHANGED <<edits, bodyCache>>

(* A result without a history is not kept; an INSERT that fails is logged.  *)
StoreBodyCache(c) ==
    /\ Advance(c, "store", "done", reading[c].answer)
    /\ \/ /\ reading[c].answer.supported
          /\ bodyCache' = {[payload |-> reading[c].answer, fresh |-> TRUE]} /\ UNCHANGED outages
       \/ ~reading[c].answer.supported /\ UNCHANGED <<bodyCache, outages>>
       \/ reading[c].answer.supported /\ Fails /\ UNCHANGED bodyCache
    /\ UNCHANGED edits

(* STALE_AFTER passes. *)
BodyCacheAges ==
    /\ \E row \in bodyCache : row.fresh /\ bodyCache' = {[row EXCEPT !.fresh = FALSE]}
    /\ UNCHANGED <<edits, reading, outages>>
Publish ==
    /\ Len(edits) < MaxEdits
    /\ \E patch \in Patch, suffix \in Suffix : edits' = Append(edits, [patch |-> patch, suffix |-> suffix])
    /\ UNCHANGED <<bodyCache, reading, outages>>

RevisionsNext == \/ BodyCacheAges \/ Publish
                 \/ \E c \in Reader :
                      \/ LoadBodyCache(c) \/ GetPaperRevisions(c) \/ GetBodyRevisionCount(c)
                      \/ FetchVersions(c) \/ ExtractRaises(c) \/ StoreBodyCache(c)
RevisionsSpec == RevisionsInit /\ [][RevisionsNext]_revisionVars

-----------------------------------------------------------------------------
Answers == {reading[c].answer : c \in Reader}
           \cup {row.payload : row \in bodyCache}
PdfChanges(revisions) ==
    LET changes == Flat([r \in DOMAIN revisions |-> revisions[r].changes])
    IN Kept(changes, {k \in DOMAIN changes : changes[k].field = "pdf"})

Opens(url, file) ==
    IF file = None THEN url = None
    ELSE url # None /\ "pdf" \in DOMAIN edits[url].patch /\ FileOf(url) = file

(* A body diff is between the two files that one replacement of its revision *)
(* links to; the text shown next to the baseline is a file that was replaced *)
(* later.                                                                    *)
Between(b, c) == /\ c.field = "pdf" /\ None \notin {c.beforeUrl, c.afterUrl}
                 /\ b.before = c.before /\ b.after = c.after
FirstText(b, c) == /\ c.field = "pdf" /\ c.beforeUrl # None
                   /\ b.before = None /\ b.after = c.before
BodiesOfFiles(revisions) ==
    \A r \in DOMAIN revisions : \A i \in DOMAIN revisions[r].changes :
        revisions[r].changes[i].field = "body" =>
          \/ \E j \in DOMAIN revisions[r].changes :
                Between(revisions[r].changes[i], revisions[r].changes[j])
          \/ r = 1 /\ \E q \in DOMAIN revisions : \E j \in DOMAIN revisions[q].changes :
                FirstText(revisions[r].changes[i], revisions[q].changes[j])

(* A link opens the very file it stands for, although a patch of the title  *)
(* may lie between, a file may be taken away and put back, and only the     *)
(* edit that carried the file serves it; the files of a history form a      *)
(* chain: what one replacement left is what the next one found; and a body  *)
(* diff tells of the files behind the links it stands next to.              *)
FileLinksMatch == \A a \in Answers :
    /\ LET cs == PdfChanges(a.revisions)
       IN \A i \in DOMAIN cs : /\ Opens(cs[i].beforeUrl, cs[i].before)
                               /\ Opens(cs[i].afterUrl, cs[i].after)
                               /\ i > 1 => cs[i].before = cs[i - 1].after
    /\ BodiesOfFiles(a.revisions)

(* The comment above the store: a temporary failure is not kept for thirty  *)
(* days. Of a cached history every replacement of a readable file by a      *)
(* readable file has its body diff.                                         *)
OutageNotCached == \A row \in bodyCache :
    \A r \in DOMAIN row.payload.revisions :
      LET cs == row.payload.revisions[r].changes
      IN \A i \in DOMAIN cs :
           cs[i].field = "pdf" /\ {cs[i].before, cs[i].after} \cap (Garbled \cup {None}) = {}
             => i < Len(cs) /\ cs[i + 1].field = "body"
=============================================================================
