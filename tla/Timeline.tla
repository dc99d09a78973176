------------------------------ MODULE Timeline ------------------------------
(* The forum of a paper and the timeline made of it (query/timeline.py).    *)
(* The forum grows while it is read; the API lists its notes in any order.  *)
(* Texts and scores are left out; a note is known by the order of posting.  *)
EXTENDS Lists, SequencesExt

CONSTANTS
    Posting,        \* what may be posted: [kinds, role]
    MaxNotes, MaxAuthorEdits,
    MaxClock

VARIABLES
    clock,          \* milliseconds; several things happen in one
    forum,          \* the notes: [kinds, role, posted, modified]
    authorEdits,    \* times of the edits of the submission, the first its baseline
    fetched,        \* the notes a call has got, as [note, n], or <<>>
    timeline        \* the events of the last call, or <<>>

timelineVars == <<clock, forum, authorEdits, fetched, timeline>>

-----------------------------------------------------------------------------
KIND_ORDER == <<"review", "review_update", "rebuttal", "comment", "author_revision",
                "meta_review", "decision">>
KindRank(kind) == CHOOSE i \in DOMAIN KIND_ORDER : KIND_ORDER[i] = kind
Event(kind, source, at) == [kind |-> kind, source |-> source, at |-> at]

CommentEvent(note, n) ==
    Event(IF note.role = "author" THEN "rebuttal" ELSE "comment", n, note.posted)

(* A review that was touched after its posting has two events; where there  *)
(* is a Decision in a note that is a Meta_Review too, it is the decision.   *)
EventsOf(note, n) ==
    IF note.kinds \cap {"Submission", "Blind_Submission"} # {} THEN <<>>
    ELSE IF "Official_Review" \in note.kinds THEN
        IF note.modified > note.posted
        THEN <<Event("review", n, note.posted), Event("review_update", n, note.modified)>>
        ELSE <<Event("review", n, note.posted)>>
    ELSE IF note.kinds \cap {"Meta_Review", "Decision"} # {} THEN
        <<Event(IF "Decision" \in note.kinds THEN "decision" ELSE "meta_review", n, note.posted)>>
    ELSE IF note.kinds \cap {"Official_Comment", "Rebuttal"} # {} THEN <<CommentEvent(note, n)>>
    ELSE <<>>

(* Variant: by time alone, ties as the API lists them.                      *)
OrderedByTime(events) ==
    [k \in DOMAIN events |-> events[Enumerate(DOMAIN events, {p \in (DOMAIN events) \X (DOMAIN events) :
            \/ events[p[1]].at < events[p[2]].at
            \/ events[p[1]].at = events[p[2]].at /\ p[1] < p[2]})[k]]]

(* The key of the sort, which is stable.                                    *)
SortsFirst(events, i, j) ==
    \/ events[i].at < events[j].at
    \/ /\ events[i].at = events[j].at
       /\ \/ KindRank(events[i].kind) < KindRank(events[j].kind)
          \/ KindRank(events[i].kind) = KindRank(events[j].kind) /\ i < j
SortOrder(events) == {p \in (DOMAIN events) \X (DOMAIN events) : SortsFirst(events, p[1], p[2])}
Ordered(events) ==
    [k \in DOMAIN events |-> events[Enumerate(DOMAIN events, SortOrder(events))[k]]]

BuildTimeline(replies, revisions) ==
    Ordered(Flat([i \in DOMAIN replies |-> EventsOf(replies[i].note, replies[i].n)])
           \o [e \in DOMAIN revisions |-> Event("author_revision", e, revisions[e])])

-----------------------------------------------------------------------------
TimelineInit ==
    /\ clock = 1
    /\ forum = <<[kinds |-> {"Submission"}, role |-> "author", posted |-> 1, modified |-> 1]>>
    /\ authorEdits = <<>> /\ fetched = <<>> /\ timeline = <<>>

Tick ==
    /\ clock < MaxClock
    /\ clock' = clock + 1
    /\ UNCHANGED <<forum, authorEdits, fetched, timeline>>
Post ==
    /\ Len(forum) < MaxNotes
    /\ \E p \in Posting : forum' = Append(forum, [kinds |-> p.kinds, role |-> p.role,
                                                  posted |-> clock, modified |-> clock])
    /\ UNCHANGED <<clock, authorEdits, fetched, timeline>>
EditNote(n) ==
    /\ forum[n].modified < clock
    /\ forum' = [forum EXCEPT ![n].modified = clock]
    /\ UNCHANGED <<clock, authorEdits, fetched, timeline>>
AuthorEdits ==
    /\ Len(authorEdits) < MaxAuthorEdits
    /\ authorEdits' = Append(authorEdits, clock)
    /\ UNCHANGED <<clock, forum, fetched, timeline>>
(* _fetch_timeline asks twice: for the notes, in whatever order, and then   *)
(* for the edits, which may be newer.                                       *)
GetForumReplies ==
    /\ fetched = <<>>
    /\ \E order \in SetToSeqs(DOMAIN forum) :
         fetched' = [i \in DOMAIN order |-> [note |-> forum[order[i]], n |-> order[i]]]
    /\ UNCHANGED <<clock, forum, authorEdits, timeline>>
GetNoteEdits ==
    /\ fetched # <<>>
    /\ timeline' = BuildTimeline(fetched, authorEdits)
    /\ fetched' = <<>>
    /\ UNCHANGED <<clock, forum, authorEdits>>

TimelineNext ==
    \/ Tick \/ Post \/ AuthorEdits \/ GetForumReplies \/ GetNoteEdits
    \/ \E n \in DOMAIN forum : EditNote(n)

TimelineSpec == TimelineInit /\ [][TimelineNext]_timelineVars

-----------------------------------------------------------------------------
(* The comment on _KIND_ORDER: cause is never shown after effect. However   *)
(* the API lists the notes, an answer of the authors stands after every     *)
(* review it may answer, a decision after every review, comment and edit of *)
(* its moment, an update after its review; nothing is told twice or moves   *)
(* against the clock; and the last edit of the authors is never told before *)
(* an earlier one, so that the baseline is the first of them.               *)
TimelineTellsInOrder ==
    \A i, j \in DOMAIN timeline : i < j =>
        LET e == timeline[i]
            f == timeline[j]
        IN /\ e # f
           /\ e.at <= f.at
           /\ f.kind = "review" => e.at < f.at \/ e.kind = "review"
           /\ e.kind \in {"decision", "meta_review"} => e.at < f.at \/ f.kind \in {"decision", "meta_review"}
           /\ f.kind = "review" => ~(e.kind = "review_update" /\ e.source = f.source)
           /\ e.kind = "author_revision" /\ f.kind = "author_revision" => e.source < f.source
=============================================================================
