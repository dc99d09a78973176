------------------------------- MODULE StoryCache -------------------------------
(***************************************************************************)
(* The review story of one paper and its cache row in paper_stories:       *)
(* get_paper_story of paper_assistant/query/story.py, called concurrently  *)
(* by GET /api/papers/{paper_id}/story and by users of the package.        *)
(*                                                                         *)
(* The corpus and OpenReview, from which a story is made, are a version    *)
(* number that grows.  What matters of a story is that version, whether an *)
(* LLM wrote the narrative, and whether OpenReview could be asked.         *)
(***************************************************************************)
EXTENDS Naturals

CONSTANTS
    Call,               \* the calls of get_paper_story
    NoStory,            \* no cache row, no answer
    MaxVersion          \* bound: how often the sources change

ASSUME StoryConstants == MaxVersion \in Nat

VARIABLES
    cached,             \* the cached story, or NoStory
    old,                \* built_at is more than STALE_AFTER ago
    version,            \* of the corpus and of OpenReview
    pc,                 \* where each call stands
    wantLlm,            \* use_llm, resolved against the configuration
    refresh,            \* the parameter of the call
    draft,              \* the story a call is making
    answer,             \* what it returned
    \* History, read by the properties alone:
    floor,              \* version when the call began
    behind,             \* calls that looked before the present row was stored
    misread             \* calls that could not read the payload of the row

callVars == <<pc, wantLlm, refresh, draft, answer>>
storyVars == <<cached, old, version, callVars, floor, behind, misread>>

Story == [llm : BOOLEAN, supported : BOOLEAN, version : 0..MaxVersion]

Pc == {"idle", "lookup", "reviews", "aborted", "timeline", "narrative", "store",
       "returned", "raised"}

StoryTypeOK ==
    /\ cached \in Story \cup {NoStory}
    /\ old \in BOOLEAN
    /\ version \in 0..MaxVersion
    /\ pc \in [Call -> Pc]
    /\ wantLlm \in [Call -> BOOLEAN]
    /\ refresh \in [Call -> BOOLEAN]
    /\ draft \in [Call -> Story]
    /\ answer \in [Call -> Story \cup {NoStory}]
    /\ floor \in [Call -> 0..MaxVersion]
    /\ behind \subseteq Call
    /\ misread \subseteq Call

NoDraft == [llm |-> FALSE, supported |-> FALSE, version |-> 0]

StoryInit ==
    /\ cached = NoStory
    /\ old = FALSE
    /\ version = 0
    /\ pc = [c \in Call |-> "idle"]
    /\ wantLlm = [c \in Call |-> FALSE]
    /\ refresh = [c \in Call |-> FALSE]
    /\ draft = [c \in Call |-> NoDraft]
    /\ answer = [c \in Call |-> NoStory]
    /\ floor = [c \in Call |-> 0]
    /\ behind = {} /\ misread = {}

Proceed(c, to) == pc' = [pc EXCEPT ![c] = to]

Return(c, story) ==
    /\ answer' = [answer EXCEPT ![c] = story]
    /\ Proceed(c, "returned")

--------------------------------------------------------------------------------
\* Variant: refresh is not passed on.
BeginIgnoringRefresh(c, want, again) ==
    /\ pc[c] = "idle"
    /\ wantLlm' = [wantLlm EXCEPT ![c] = want]
    /\ refresh' = [refresh EXCEPT ![c] = again]
    /\ floor' = [floor EXCEPT ![c] = version]
    /\ Proceed(c, "lookup")
    /\ UNCHANGED <<cached, old, version, draft, answer, behind, misread>>

\* The paper row is there (papers are never deleted; for an unknown id the call returns
\* None and has no effect).  A lost connection raises and has no effect either; refresh skips the cache.
Begin(c, want, again) ==
    /\ pc[c] = "idle"
    /\ wantLlm' = [wantLlm EXCEPT ![c] = want]
    /\ refresh' = [refresh EXCEPT ![c] = again]
    /\ floor' = [floor EXCEPT ![c] = version]
    /\ Proceed(c, IF again THEN "reviews" ELSE "lookup")
    /\ UNCHANGED <<cached, old, version, draft, answer, behind, misread>>

\* Variants: a stub serves an LLM call; only the kind of narrative serves that is wanted.
UsableAnyNarrative(want) == cached # NoStory /\ ~old
UsableSameNarrative(want) == cached # NoStory /\ ~old /\ cached.llm = want

\* _load_cache: a fresh story, unless an LLM is wanted and a stub is cached.
Usable(want) ==
    /\ cached # NoStory
    /\ ~old
    /\ want => cached.llm

\* The SELECT of the cache row.  A payload that another version of the code stored may
\* fail the validation and counts as a miss.  So does an error of the SELECT, but
\* Postgres has aborted the transaction of the shared cursor.
Look(c, usable) ==
    /\ pc[c] = "lookup"
    /\ \/ /\ usable
          /\ Return(c, cached)
          /\ UNCHANGED misread
       \/ /\ usable
          /\ Proceed(c, "reviews")
          /\ misread' = misread \cup {c}
          /\ UNCHANGED answer
       \/ /\ ~usable
          /\ Proceed(c, "reviews")
          /\ UNCHANGED <<answer, misread>>
       \/ /\ Proceed(c, "aborted")
          /\ UNCHANGED <<answer, misread>>
    /\ UNCHANGED <<cached, old, version, wantLlm, refresh, draft, floor, behind>>

\* Variant: a call takes only the kind of narrative it would make itself.
LookupSameNarrative(c) == Look(c, UsableSameNarrative(wantLlm[c]))
Lookup(c) == Look(c, Usable(wantLlm[c]))

\* _db_reviews and the points, on the same cursor; then the journey.
Reviews(c) ==
    /\ pc[c] = "reviews"
    /\ draft' = [draft EXCEPT ![c] = [NoDraft EXCEPT !.version = version]]
    /\ Proceed(c, "timeline")
    /\ UNCHANGED <<cached, old, version, wantLlm, refresh, answer, floor, behind, misread>>

\* In an aborted transaction they raise InFailedSqlTransaction.
ReviewsAborted(c) ==
    /\ pc[c] = "aborted"
    /\ Proceed(c, "raised")
    /\ UNCHANGED <<cached, old, version, wantLlm, refresh, draft, answer, floor, behind, misread>>

\* _fetch_timeline: OpenReview answers, or fails and the story says so.
Timeline(c) ==
    /\ pc[c] = "timeline"
    /\ \E ok \in BOOLEAN : draft' = [draft EXCEPT ![c].supported = ok]
    /\ Proceed(c, "narrative")
    /\ UNCHANGED <<cached, old, version, wantLlm, refresh, answer, floor, behind, misread>>

\* build_narrative: without an LLM, or when the LLM fails, the stub.
Narrative(c) ==
    /\ pc[c] = "narrative"
    /\ \E written \in BOOLEAN :
          /\ written => wantLlm[c]
          /\ draft' = [draft EXCEPT ![c].llm = written]
    /\ Proceed(c, "store")
    /\ UNCHANGED <<cached, old, version, wantLlm, refresh, answer, floor, behind, misread>>

\* The other calls that are making a story of their own.
Making(c) == {d \in Call \ {c} : pc[d] \in {"reviews", "timeline", "narrative", "store"}}

\* Variant: the story is cached whatever OpenReview did.
StoreAlways(c) ==
    /\ pc[c] = "store"
    /\ cached' = draft[c]
    /\ old' = FALSE
    /\ behind' = behind \cup Making(c)
    /\ Return(c, draft[c])
    /\ UNCHANGED <<version, wantLlm, refresh, draft, floor, misread>>

\* _store_cache: the upsert overwrites whatever is cached by now.  A failing one loses
\* the cache entry and not the answer.
StoreCache(c) ==
    \/ /\ cached' = draft[c]
       /\ old' = FALSE
       /\ behind' = behind \cup Making(c)
    \/ UNCHANGED <<cached, old, behind>>

\* A story OpenReview had no part in is returned and not cached.
Store(c) ==
    /\ pc[c] = "store"
    /\ \/ draft[c].supported /\ StoreCache(c)
       \/ ~draft[c].supported /\ UNCHANGED <<cached, old, behind>>
    /\ Return(c, draft[c])
    /\ UNCHANGED <<version, wantLlm, refresh, draft, floor, misread>>

--------------------------------------------------------------------------------
\* A review is collected, an author answers, an edit appears.
SourcesChange ==
    /\ version < MaxVersion
    /\ version' = version + 1
    /\ UNCHANGED <<cached, old, callVars, floor, behind, misread>>

\* STALE_AFTER passes.
CacheAges ==
    /\ cached # NoStory /\ ~old
    /\ old' = TRUE
    /\ UNCHANGED <<cached, version, callVars, floor, behind, misread>>

CallStep(c) ==
    \/ \E want, again \in BOOLEAN : Begin(c, want, again)
    \/ Lookup(c) \/ Reviews(c) \/ ReviewsAborted(c) \/ Timeline(c) \/ Narrative(c)
    \/ Store(c)

StoryNext == (\E c \in Call : CallStep(c)) \/ SourcesChange \/ CacheAges

StorySpec == StoryInit /\ [][StoryNext]_storyVars

--------------------------------------------------------------------------------
(* Properties.                                                             *)

Replied == {c \in Call : pc[c] = "returned"}

\* An outage of OpenReview is not pinned for STALE_AFTER: a reply without a timeline
\* is always one the call made itself, however the calls interleave.
OutageNotPinned == cached # NoStory => cached.supported

\* A call that asks for an LLM and gets a stub has tried the LLM itself: a stub that
\* another call cached is never passed on to it.
StubOnlyFromOwnAttempt ==
    \A c \in Replied : wantLlm[c] /\ ~answer[c].llm => answer[c] = draft[c]

\* A refreshed story is made from sources no older than the call, even when other
\* calls store older ones meanwhile.
RefreshIsCurrent ==
    \A c \in Replied : refresh[c] => answer[c].version >= floor[c]

\* Work that others have done is thrown away only in a race: a call overwrites a row it
\* would have been served from, an LLM story by a stub or a newer story by an older one,
\* only if it was told to refresh, if that row was stored after it had looked, or if it
\* could not read the payload.
OverwritesOnlyUnseen ==
    [][\A c \in Call :
          /\ pc[c] = "store" /\ pc'[c] = "returned" /\ cached' # cached
          /\ cached # NoStory /\ ~old /\ (wantLlm[c] => cached.llm)
          => refresh[c] \/ c \in behind \/ c \in misread]_storyVars
================================================================================
