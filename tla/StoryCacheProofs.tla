---------------------------- MODULE StoryCacheProofs ----------------------------
(***************************************************************************)
(* The invariants of StoryCache.tla for any number of concurrent calls and *)
(* of changes of the sources.                                              *)
(***************************************************************************)
EXTENDS StoryCache, TLAPS

--------------------------------------------------------------------------------
(* The inductive invariant.                                                *)

\* A call that refreshes never reads the cached, and what it makes is made after it
\* began: the version of its draft lies between its floor and the present.
RefreshReadsSources ==
    \A c \in Call :
        /\ floor[c] <= version
        /\ refresh[c] => pc[c] \notin {"lookup", "aborted"}
        /\ pc[c] \in {"timeline", "narrative", "store"} => draft[c].version >= floor[c]

\* What a call that is making a story had looked at would not have served it, unless
\* the row is a later one or was not readable.
MakesWhatIsMissing ==
    \A c \in Call :
        pc[c] \in {"reviews", "timeline", "narrative", "store"} /\ c \notin behind
        /\ c \notin misread /\ ~refresh[c] => ~Usable(wantLlm[c])

IInv ==
    /\ StoryTypeOK
    /\ OutageNotPinned
    /\ StubOnlyFromOwnAttempt
    /\ RefreshIsCurrent
    /\ RefreshReadsSources
    /\ MakesWhatIsMissing

LEMMA InitIInv == StoryInit => IInv
<1> SUFFICES ASSUME StoryInit PROVE IInv
    OBVIOUS
<1> USE DEF StoryInit
<1>1. StoryTypeOK
    <2>1. 0 \in 0..MaxVersion
        BY StoryConstants DEF StoryConstants
    <2>2. NoDraft \in Story
        BY <2>1 DEF NoDraft, Story
    <2>3. pc \in [Call -> Pc]
        BY DEF Pc
    <2> QED
        BY <2>1, <2>2, <2>3 DEF StoryTypeOK
<1>2. Replied = {}
    BY DEF Replied
<1>3. RefreshReadsSources
    <2>1. \A c \in Call : pc[c] = "idle" /\ floor[c] = 0 /\ version = 0
        OBVIOUS
    <2>2. \A c \in Call : floor[c] <= version
        <3>1. 0 <= 0
            OBVIOUS
        <3> QED
            BY <2>1, <3>1, Zenon
    <2>3. \A c \in Call : pc[c] \notin {"lookup", "aborted", "timeline", "narrative", "store"}
        BY <2>1
    <2> QED
        BY <2>2, <2>3, Zenon DEF RefreshReadsSources
<1>4. MakesWhatIsMissing
    BY DEF MakesWhatIsMissing
<1> QED
    BY <1>1, <1>2, <1>3, <1>4 DEF IInv, OutageNotPinned, StubOnlyFromOwnAttempt, RefreshIsCurrent

\* The steps of a call up to its reply from the cached.
LEMMA LookupStepIInv ==
    ASSUME IInv, NEW c \in Call,
           \/ \E want, again \in BOOLEAN : Begin(c, want, again)
           \/ Lookup(c)
    PROVE  IInv'
<1> USE DEF IInv, Proceed
<1>1. ASSUME NEW want \in BOOLEAN, NEW again \in BOOLEAN, Begin(c, want, again)
      PROVE  IInv'
    <2> USE <1>1 DEF Begin
    <2>1. StoryTypeOK'
        BY DEF StoryTypeOK, Pc
    <2>2. OutageNotPinned'
        BY DEF OutageNotPinned
    <2>3. StubOnlyFromOwnAttempt' /\ RefreshIsCurrent'
        BY DEF StubOnlyFromOwnAttempt, RefreshIsCurrent, Replied, StoryTypeOK
    <2>4. RefreshReadsSources'
        BY DEF RefreshReadsSources, StoryTypeOK
    <2>5. MakesWhatIsMissing'
        BY DEF MakesWhatIsMissing, StoryTypeOK, Usable
    <2> QED
        BY <2>1, <2>2, <2>3, <2>4, <2>5
<1>2. CASE Lookup(c)
    <2> USE <1>2 DEF Lookup, Look, Return
    <2>1. StoryTypeOK'
        BY DEF StoryTypeOK, Pc
    <2>2. OutageNotPinned'
        BY DEF OutageNotPinned
    <2>3. StubOnlyFromOwnAttempt'
        BY DEF StubOnlyFromOwnAttempt, Usable, Replied, StoryTypeOK
    <2>4. RefreshIsCurrent'
        BY DEF RefreshIsCurrent, RefreshReadsSources, Replied, StoryTypeOK
    <2>5. RefreshReadsSources'
        BY DEF RefreshReadsSources, StoryTypeOK
    <2>6. MakesWhatIsMissing'
        BY DEF MakesWhatIsMissing, StoryTypeOK, Usable
    <2> QED
        BY <2>1, <2>2, <2>3, <2>4, <2>5, <2>6
<1> QED
    BY <1>1, <1>2

\* The steps that make a draft, and the one that fails.
LEMMA DraftStepIInv ==
    ASSUME IInv, NEW c \in Call,
           Reviews(c) \/ ReviewsAborted(c) \/ Timeline(c) \/ Narrative(c)
    PROVE  IInv'
<1> USE DEF IInv, Proceed
<1>1. CASE Reviews(c)
    <2> USE <1>1 DEF Reviews
    <2>1. StoryTypeOK'
        BY DEF StoryTypeOK, Pc, Story, NoDraft
    <2>2. OutageNotPinned' /\ StubOnlyFromOwnAttempt' /\ RefreshIsCurrent'
        BY DEF OutageNotPinned, StubOnlyFromOwnAttempt, RefreshIsCurrent, Replied, StoryTypeOK
    <2>3. RefreshReadsSources'
        BY DEF RefreshReadsSources, StoryTypeOK, NoDraft
    <2>4. MakesWhatIsMissing'
        BY DEF MakesWhatIsMissing, StoryTypeOK, Usable
    <2> QED
        BY <2>1, <2>2, <2>3, <2>4
<1>2. CASE ReviewsAborted(c)
    <2> USE <1>2 DEF ReviewsAborted
    <2>1. StoryTypeOK'
        BY DEF StoryTypeOK, Pc
    <2>2. OutageNotPinned' /\ StubOnlyFromOwnAttempt' /\ RefreshIsCurrent'
        BY DEF OutageNotPinned, StubOnlyFromOwnAttempt, RefreshIsCurrent, Replied, StoryTypeOK
    <2>3. RefreshReadsSources'
        BY DEF RefreshReadsSources, StoryTypeOK
    <2>4. MakesWhatIsMissing'
        BY DEF MakesWhatIsMissing, StoryTypeOK, Usable
    <2> QED
        BY <2>1, <2>2, <2>3, <2>4
<1>3. CASE Timeline(c)
    <2> USE <1>3 DEF Timeline
    <2>1. StoryTypeOK'
        BY DEF StoryTypeOK, Pc, Story
    <2>2. OutageNotPinned' /\ StubOnlyFromOwnAttempt' /\ RefreshIsCurrent'
        BY DEF OutageNotPinned, StubOnlyFromOwnAttempt, RefreshIsCurrent, Replied, StoryTypeOK
    <2>3. RefreshReadsSources'
        BY DEF RefreshReadsSources, StoryTypeOK, Story
    <2>4. MakesWhatIsMissing'
        BY DEF MakesWhatIsMissing, StoryTypeOK, Usable
    <2> QED
        BY <2>1, <2>2, <2>3, <2>4
<1>4. CASE Narrative(c)
    <2> USE <1>4 DEF Narrative
    <2>1. StoryTypeOK'
        BY DEF StoryTypeOK, Pc, Story
    <2>2. OutageNotPinned' /\ StubOnlyFromOwnAttempt' /\ RefreshIsCurrent'
        BY DEF OutageNotPinned, StubOnlyFromOwnAttempt, RefreshIsCurrent, Replied, StoryTypeOK
    <2>3. RefreshReadsSources'
        BY DEF RefreshReadsSources, StoryTypeOK, Story
    <2>4. MakesWhatIsMissing'
        BY DEF MakesWhatIsMissing, StoryTypeOK, Usable
    <2> QED
        BY <2>1, <2>2, <2>3, <2>4
<1> QED
    BY <1>1, <1>2, <1>3, <1>4

\* The reply with a draft, and what becomes of the cache row.
LEMMA StoreIInv ==
    ASSUME IInv, NEW c \in Call, Store(c)
    PROVE  IInv'
<1> USE DEF IInv, Proceed, Store, StoreCache, Making, Return
<1>1. StoryTypeOK'
    <2>1. cached' \in {cached, draft[c]} /\ old' \in {old, FALSE}
        OBVIOUS
    <2>2. draft[c] \in Story
        BY DEF StoryTypeOK
    <2>3. cached' \in Story \cup {NoStory} /\ old' \in BOOLEAN
        BY <2>1, <2>2 DEF StoryTypeOK
    <2>4. pc' \in [Call -> Pc] /\ answer' \in [Call -> Story \cup {NoStory}]
        BY <2>2 DEF StoryTypeOK, Pc
    <2> QED
        BY <2>3, <2>4 DEF StoryTypeOK
<1>2. OutageNotPinned'
    BY DEF OutageNotPinned
<1>3. StubOnlyFromOwnAttempt'
    BY DEF StubOnlyFromOwnAttempt, Replied, StoryTypeOK
<1>4. RefreshIsCurrent'
    BY DEF RefreshIsCurrent, RefreshReadsSources, Replied, StoryTypeOK
<1>5. RefreshReadsSources'
    BY DEF RefreshReadsSources, StoryTypeOK
<1>6. MakesWhatIsMissing'
    BY DEF MakesWhatIsMissing, StoryTypeOK, Usable
<1> QED
    BY <1>1, <1>2, <1>3, <1>4, <1>5, <1>6

\* The sources move on, the cache ages, or nothing happens.
LEMMA EnvironmentIInv ==
    ASSUME IInv, SourcesChange \/ CacheAges \/ UNCHANGED storyVars
    PROVE  IInv'
<1> USE DEF IInv, callVars
<1>1. StoryTypeOK'
    <2>1. CASE SourcesChange
        <3>1. version' \in 0..MaxVersion
            BY <2>1, StoryConstants DEF StoryConstants, SourcesChange, StoryTypeOK
        <3> QED
            BY <2>1, <3>1 DEF SourcesChange, StoryTypeOK
    <2>2. CASE CacheAges \/ UNCHANGED storyVars
        BY <2>2 DEF StoryTypeOK, CacheAges, storyVars
    <2> QED
        BY <2>1, <2>2
<1>2. OutageNotPinned' /\ StubOnlyFromOwnAttempt' /\ RefreshIsCurrent'
    BY DEF OutageNotPinned, StubOnlyFromOwnAttempt, RefreshIsCurrent, Replied,
        SourcesChange, CacheAges, storyVars
<1>3. RefreshReadsSources'
    BY DEF RefreshReadsSources, StoryTypeOK, SourcesChange, CacheAges, storyVars
<1>4. MakesWhatIsMissing'
    BY DEF MakesWhatIsMissing, Usable, SourcesChange, CacheAges, storyVars
<1> QED
    BY <1>1, <1>2, <1>3, <1>4

LEMMA Inductive == IInv /\ [StoryNext]_storyVars => IInv'
    BY LookupStepIInv, DraftStepIInv, StoreIInv, EnvironmentIInv DEF StoryNext, CallStep

\* Every reachable state satisfies the inductive invariant.
THEOREM Invariance == StorySpec => []IInv
    BY InitIInv, Inductive, PTL DEF StorySpec

--------------------------------------------------------------------------------
(* What the invariant gives: the properties TLC checks on small instances. *)

\* Every variable keeps its type, the cache row included.
THEOREM TypeCorrect == StorySpec => []StoryTypeOK
    BY Invariance, PTL DEF IInv

\* No story made while OpenReview could not be asked is ever cached.
THEOREM OutageNeverPinned == StorySpec => []OutageNotPinned
    BY Invariance, PTL DEF IInv

\* A call that wanted an LLM is answered with a stub only after its own attempt.
THEOREM StubsAreOwn == StorySpec => []StubOnlyFromOwnAttempt
    BY Invariance, PTL DEF IInv

\* A refresh is answered from sources at least as new as the call, in any race.
THEOREM RefreshedStoriesCurrent == StorySpec => []RefreshIsCurrent
    BY Invariance, PTL DEF IInv

\* However the calls interleave, a story that would have served a call is overwritten by
\* it only if it was told to refresh, the row is later than its look, or not readable.
THEOREM OverwritesAreUnseen == StorySpec => OverwritesOnlyUnseen
<1>1. IInv =>
        \A c \in Call :
          /\ pc[c] = "store" /\ pc'[c] = "returned" /\ cached' # cached
          /\ cached # NoStory /\ ~old /\ (wantLlm[c] => cached.llm)
          => refresh[c] \/ c \in behind \/ c \in misread
    BY DEF IInv, MakesWhatIsMissing, Usable
<1> QED
    BY <1>1, Invariance, PTL DEF OverwritesOnlyUnseen
================================================================================
