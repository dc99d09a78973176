------------------------------ MODULE Pipeline ------------------------------
(* The analysis pipeline of paper_assistant: calls of analyze() in several  *)
(* threads, the cache of compiled graphs with its lock and its shared       *)
(* embedder, and the five nodes input -> retrieval -> llm_rerank ->         *)
(* review_fetch -> synthesis with what each of them may get from the        *)
(* corpus, the embedder and the LLM, or fail with. A node is one step: the  *)
(* calls share nothing but the cache. A paper is a number; a similarity is  *)
(* in hundredths; a text is the sequence of its citation blocks.            *)
EXTENDS Lists, SequencesExt

CONSTANTS
    Call,           \* calls of analyze()
    Warmup,         \* calls of warmup(), which stop once they have a graph
    Paper,          \* the corpus
    Invented,       \* paper ids the LLM may make up
    Found,          \* what hybrid_search may return: sequences of hits
    Reply,          \* selections the LLM may answer: sequences of paper ids
    Draft,          \* summaries the LLM may write: sequences of blocks of labels
    PointsOf,       \* weakness points of a paper in the order of the query
    HasMetaReview,  \* papers with a meta-review
    Preference,     \* onboarding answers
    Default,        \* SearchPreferences(), everything balanced
    RERANK_LIMIT, MAX_POINTS_PER_PAPER, MAX_META_REVIEWS,
    TOP_K,          \* similarities the confidence looks at
    STRONG, MODERATE,
    MaxFailures     \* bound on the builds and nodes that raise

VARIABLES
    graphs,     \* _graphs: use_llm -> the embedder bound to the graph, or None
    embedder,   \* _embedder
    lock,       \* the thread in _build_lock, or None
    loads,      \* embedders constructed so far
    failures,
    at,         \* where each call is
    run,        \* its arguments and the PipelineState it fills
    events      \* the progress events it sent

None == 0
pipelineVars == <<graphs, embedder, lock, loads, failures, at, run, events>>

Thread == Call \cup Warmup
STEPS == <<"prepare", "extract", "retrieval", "rerank", "review_fetch", "synthesis">>
Hit == [id : Paper, rank : Nat, cosine : Nat]       \* rank None: full text only
Label == {"E", "M"} \X (Nat \ {0})

(* The search returns a paper once, and its vector ranks count the hits of  *)
(* one query.                                                               *)
ASSUME PipelineConstants ==
    /\ None \notin Thread
    /\ Found \subseteq Seq(Hit)
    /\ \A hits \in Found : \A i, j \in DOMAIN hits :
         /\ hits[i].id = hits[j].id => i = j
         /\ hits[i].rank = hits[j].rank => i = j \/ hits[i].rank = None
    /\ Paper \cap Invented = {} /\ Reply \subseteq Seq(Paper \cup Invented)
    /\ Draft \subseteq Seq(Seq(Label))
    /\ \A p \in Paper : PointsOf[p] \in Seq(Nat)
    /\ {RERANK_LIMIT, MAX_POINTS_PER_PAPER, MAX_META_REVIEWS, TOP_K, STRONG, MODERATE} \subseteq Nat
    /\ MODERATE <= STRONG

Started(step) == [step |-> step, done |-> FALSE]
Ended(step) == [step |-> step, done |-> TRUE]

(* A callback that raises is logged by notify() and changes nothing else.   *)
Emit(t, es) == events' = [events EXCEPT ![t] = @ \o es]

-----------------------------------------------------------------------------
(* The helpers of the nodes. *)

Cut(s, n) == SubSeq(s, 1, IF Len(s) < n THEN Len(s) ELSE n)

(* Variant: the similarities in the order of the result. *)
RankedAsReturned(hits) == Kept(hits, {i \in DOMAIN hits : hits[i].rank # None})
(* Only hits of the vector search carry a similarity, and the result is     *)
(* not in their order.                                                      *)
Ranked(hits) ==
    LET vectored == {h \in Range(hits) : h.rank # None}
    IN Enumerate(vectored, {p \in vectored \X vectored : p[1].rank < p[2].rank})
Level(cosines) ==
    LET usable == Cut(cosines, TOP_K)
        Reaches(mean) == usable # <<>> /\ Total(usable, DOMAIN usable) >= mean * Len(usable)
    IN CASE Reaches(STRONG)                       -> "strong"
         [] Reaches(MODERATE) /\ ~Reaches(STRONG) -> "moderate"
         [] OTHER                                 -> "weak"
ConfidenceFrom(hits) == LET ranked == Ranked(hits) IN Level([i \in DOMAIN ranked |-> ranked[i].cosine])

Ids(hits) == [i \in DOMAIN hits |-> hits[i].id]
FirstPlaces(s) == {i \in DOMAIN s : \A j \in 1 .. i - 1 : s[j] # s[i]}

StubSelections(hits) == Cut(Ids(hits), RERANK_LIMIT)
(* Variants: ids that were not among the hits; a paper selected twice. *)
ValidatedSelectionsUnknown(raw, hits) == Cut(Kept(raw, FirstPlaces(raw)), RERANK_LIMIT)
ValidatedSelectionsTwice(raw, hits) ==
    Cut(Kept(raw, {i \in DOMAIN raw : raw[i] \in Range(Ids(hits))}), RERANK_LIMIT)
ValidatedSelections(raw, hits) ==
    Cut(Kept(raw, {i \in FirstPlaces(raw) : raw[i] \in Range(Ids(hits))}), RERANK_LIMIT)

(* E1, E2 ... over all selected papers, then M1 ... *)
BuildEvidence(selected) ==
    LET points == Flat([i \in DOMAIN selected |->
                    [j \in 1 .. Len(Cut(PointsOf[selected[i]], MAX_POINTS_PER_PAPER)) |-> selected[i]]])
        metas == Cut(Kept(selected, {i \in DOMAIN selected : selected[i] \in HasMetaReview}), MAX_META_REVIEWS)
    IN [i \in DOMAIN points |-> [label |-> <<"E", i>>, paper |-> points[i]]]
       \o [i \in DOMAIN metas |-> [label |-> <<"M", i>>, paper |-> metas[i]]]
LabelsOf(evidence) == {evidence[i].label : i \in DOMAIN evidence}

(* Unknown labels go, and blocks that lose their last label with them. *)
ValidateCitations(text, evidence) ==
    LET blocks == [i \in DOMAIN text |->
                     Kept(text[i], {j \in DOMAIN text[i] : text[i][j] \in LabelsOf(evidence)})]
    IN Kept(blocks, {i \in DOMAIN blocks : blocks[i] # <<>>})

StubDraft(selected, evidence) ==
    [i \in DOMAIN selected |->
        LET own == Kept(evidence, {j \in DOMAIN evidence :
                            evidence[j].paper = selected[i] /\ evidence[j].label[1] = "E"})
        IN [j \in DOMAIN own |-> own[j].label]]

PreferencesOf(t) == IF run[t].preferences = None THEN Default ELSE run[t].preferences

-----------------------------------------------------------------------------
NoRun == [useLlm |-> FALSE, pdf |-> FALSE, abstract |-> FALSE, preferences |-> None,
          model |-> None, hits |-> <<>>, level |-> "weak", selections |-> <<>>, selected |-> <<>>,
          evidence |-> <<>>, text |-> <<>>, asked |-> {}, applied |-> {}, usedLlm |-> FALSE]

PipelineInit ==
    /\ graphs = [b \in BOOLEAN |-> None]
    /\ embedder = None /\ lock = None /\ loads = 0 /\ failures = 0
    /\ at = [t \in Thread |-> "new"]
    /\ run = [t \in Thread |-> NoRun]
    /\ events = [t \in Thread |-> <<>>]

Set(t, state) == run' = [run EXCEPT ![t] = state]
Goto(t, place) == at' = [at EXCEPT ![t] = place]
cacheVars == <<graphs, embedder, lock, loads>>

(* analyze() up to the graph; use_llm = None has become the setting. *)
Begin(t) ==
    /\ at[t] = "new"
    /\ \E useLlm, pdf, abstract \in BOOLEAN, preferences \in Preference \cup {None} :
         /\ t \in Warmup => pdf /\ abstract /\ preferences = None
         /\ Set(t, [run[t] EXCEPT !.useLlm = useLlm, !.pdf = pdf, !.abstract = abstract,
                               !.preferences = preferences])
    /\ Emit(t, IF t \in Call THEN <<Started("prepare")>> ELSE <<>>)
    /\ Goto(t, "lookup")
    /\ UNCHANGED <<cacheVars, failures>>

HaveGraph(t) ==
    IF t \in Call THEN Goto(t, "input") /\ Emit(t, <<Ended("prepare")>>)
    ELSE Goto(t, "done") /\ UNCHANGED events

(* The look without the lock, and the one with it. *)
Lookup(t) ==
    /\ at[t] = "lookup"
    /\ IF graphs[run[t].useLlm] # None THEN HaveGraph(t) ELSE Goto(t, "wait") /\ UNCHANGED events
    /\ UNCHANGED <<cacheVars, failures, run>>

(* Variant: no lock around the second look and the build. *)
AcquireUnlocked(t) ==
    /\ at[t] = "wait"
    /\ Goto(t, "build")
    /\ UNCHANGED <<cacheVars, failures, run, events>>

Acquire(t) ==
    /\ at[t] = "wait"
    /\ lock = None
    /\ IF graphs[run[t].useLlm] # None
       THEN HaveGraph(t) /\ UNCHANGED lock
       ELSE Goto(t, "build") /\ lock' = t /\ UNCHANGED events
    /\ UNCHANGED <<graphs, embedder, loads, failures, run>>

(* build(): the model is loaded unless one is kept; its thread still owns   *)
(* it when the client of the LLM is made.                                   *)
LoadModel(t) ==
    /\ at[t] = "build"
    /\ loads' = IF embedder = None THEN loads + 1 ELSE loads
    /\ run' = [run EXCEPT ![t].model = IF embedder = None THEN loads + 1 ELSE embedder]
    /\ Goto(t, "bind")
    /\ UNCHANGED <<graphs, embedder, lock, failures, events>>

StoreGraph(t) ==
    /\ at[t] = "bind"
    /\ embedder' = run[t].model
    /\ graphs' = [graphs EXCEPT ![run[t].useLlm] = run[t].model]
    /\ lock' = None
    /\ Set(t, [run[t] EXCEPT !.model = None])
    /\ HaveGraph(t)
    /\ UNCHANGED <<loads, failures>>

(* Variant: the lock is lost with the exception. *)
BuildFailsLocked(t) ==
    /\ at[t] \in {"build", "bind"}
    /\ failures < MaxFailures
    /\ failures' = failures + 1
    /\ Goto(t, "failed")
    /\ Set(t, [run[t] EXCEPT !.model = None])
    /\ UNCHANGED <<cacheVars, events>>

(* Neither load nor client: the with statement gives the lock back, and a   *)
(* model this thread had loaded is not kept.                                *)
BuildFails(t) ==
    /\ at[t] \in {"build", "bind"}
    /\ failures < MaxFailures
    /\ failures' = failures + 1
    /\ lock' = None
    /\ Goto(t, "failed")
    /\ Set(t, [run[t] EXCEPT !.model = None])
    /\ UNCHANGED <<graphs, embedder, loads, events>>

-----------------------------------------------------------------------------
Input(t) ==
    /\ at[t] = "input"
    /\ LET extract == run[t].pdf /\ ~run[t].abstract
       IN /\ Emit(t, IF extract THEN <<Started("extract"), Ended("extract")>> ELSE <<>>)
          /\ Set(t, [run[t] EXCEPT !.asked = IF extract /\ run[t].useLlm THEN {"extract"} ELSE {}])
    /\ Goto(t, "retrieval")
    /\ UNCHANGED <<cacheVars, failures>>

Retrieve(t) ==
    /\ at[t] = "retrieval"
    /\ \E hits \in Found :
         Set(t, [run[t] EXCEPT !.hits = hits, !.level = ConfidenceFrom(hits),
                               !.applied = {PreferencesOf(t)}])
    /\ Emit(t, <<Started("retrieval"), Ended("retrieval")>>)
    /\ Goto(t, "rerank")
    /\ UNCHANGED <<cacheVars, failures>>

(* Nothing found, or nothing to rely on: no selection and no call. *)
Refuses(t) == run[t].hits = <<>> \/ run[t].level = "weak"

Reranks(t) == ~Refuses(t) /\ run[t].useLlm /\ run[t].pdf

(* A reply cut at max_tokens or not JSON is {}: no selections. *)
Rerank(t) ==
    /\ at[t] = "rerank"
    /\ CASE Refuses(t) -> Set(t, [run[t] EXCEPT !.selections = <<>>])
         [] ~Refuses(t) /\ ~Reranks(t) -> Set(t, [run[t] EXCEPT !.selections = StubSelections(run[t].hits)])
         [] Reranks(t) -> \E raw \in Reply :
                Set(t, [run[t] EXCEPT !.selections = ValidatedSelections(raw, run[t].hits),
                                      !.asked = @ \cup {"rerank"},
                                      !.applied = @ \cup {PreferencesOf(t)}])
    /\ Emit(t, <<Started("rerank"), Ended("rerank")>>)
    /\ Goto(t, "review_fetch")
    /\ UNCHANGED <<cacheVars, failures>>

(* Papers may have left the corpus since the search. *)
ReviewFetch(t) ==
    /\ at[t] = "review_fetch"
    /\ \E there \in SUBSET Paper :
         /\ run[t].selections = <<>> => there = {}
         /\ LET found == {i \in DOMAIN run[t].selections : run[t].selections[i] \in there}
            IN Set(t, [run[t] EXCEPT !.selected = Kept(run[t].selections, found)])
    /\ Emit(t, IF run[t].selections = <<>> THEN <<>>
               ELSE <<Started("review_fetch"), Ended("review_fetch")>>)
    /\ Goto(t, "synthesis")
    /\ UNCHANGED <<cacheVars, failures>>

Synthesize(t) ==
    /\ at[t] = "synthesis"
    /\ \E evidence \in {BuildEvidence(run[t].selected)} :
         LET selected == run[t].selected
             Report(text, asked) ==
                 Set(t, [run[t] EXCEPT !.evidence = evidence, !.text = ValidateCitations(text, evidence),
                                       !.asked = @ \cup asked, !.usedLlm = run[t].useLlm,
                                       !.applied = @ \cup {PreferencesOf(t)}])
         IN CASE selected = <<>> -> Report(<<>>, {})
              [] selected # <<>> /\ ~run[t].useLlm -> Report(StubDraft(selected, evidence), {})
              [] selected # <<>> /\ run[t].useLlm ->
                   \E text \in Draft : Report(text, {"synthesis"})
    /\ Emit(t, <<Started("synthesis"), Ended("synthesis")>>)
    /\ Goto(t, "done")
    /\ UNCHANGED <<cacheVars, failures>>

(* The PDF, the embedder, a statement or the LLM raises inside a node. *)
NodeFails(t) ==
    /\ at[t] \in {"input", "retrieval", "rerank", "review_fetch", "synthesis"}
    /\ at[t] = "input" => run[t].pdf /\ ~run[t].abstract
    /\ at[t] = "rerank" => Reranks(t)
    /\ at[t] = "review_fetch" => run[t].selections # <<>>
    /\ at[t] = "synthesis" => run[t].selected # <<>> /\ run[t].useLlm
    /\ failures < MaxFailures
    /\ failures' = failures + 1
    /\ Emit(t, <<Started(IF at[t] = "input" THEN "extract" ELSE at[t])>>)
    /\ Goto(t, "failed")
    /\ UNCHANGED <<cacheVars, run>>

CallStep(t) ==
    \/ Begin(t) \/ Lookup(t) \/ Acquire(t) \/ LoadModel(t) \/ StoreGraph(t) \/ BuildFails(t)
    \/ Input(t) \/ Retrieve(t) \/ Rerank(t) \/ ReviewFetch(t) \/ Synthesize(t) \/ NodeFails(t)

PipelineNext == \E t \in Thread : CallStep(t)

(* A thread that can move does; loads and replies end, if only by raising. *)
PipelineSpec == PipelineInit /\ [][PipelineNext]_pipelineVars
                /\ \A t \in Thread : WF_pipelineVars(CallStep(t))

-----------------------------------------------------------------------------
Finished(t) == t \in Call /\ at[t] = "done"

(* The report of a call is of one piece: what it selects was found, once    *)
(* each and within the limit; its evidence is from the selected papers,     *)
(* labelled without repetition; and its text cites only that evidence, so   *)
(* that every claim can be traced; nothing is left of a search that cannot  *)
(* be relied on; and every node applied the same preferences, the caller's. *)
ReportGrounded == \A t \in Call : at[t] = "done" =>
    LET r == run[t]
    IN /\ Range(r.selected) \subseteq Range(Ids(r.hits)) \ Invented
       /\ Len(r.selected) <= RERANK_LIMIT
       /\ \A i, j \in DOMAIN r.selected : r.selected[i] = r.selected[j] => i = j
       /\ \A i \in DOMAIN r.evidence : Contains(r.selected, r.evidence[i].paper)
       /\ \A i, j \in DOMAIN r.evidence : r.evidence[i].label = r.evidence[j].label => i = j
       /\ \A i \in DOMAIN r.text : r.text[i] # <<>> /\ Range(r.text[i]) \subseteq LabelsOf(r.evidence)
       /\ r.level = "weak" => r.selected = <<>> /\ r.evidence = <<>> /\ r.text = <<>>
       /\ r.applied = {IF r.preferences = None THEN Default ELSE r.preferences}

(* Money is spent only where it helps: with use_llm off no stage asks the   *)
(* LLM, no selection is asked of it unless the TOP_K nearest hits are near  *)
(* enough on average and there is a PDF to compare, and no summary unless   *)
(* a paper was selected.                                                    *)
SpendsOnlyOnReliable == \A t \in Call :
    LET r == run[t]
        Near == {h \in Range(r.hits) : h.rank # None
                    /\ Cardinality({g \in Range(r.hits) : g.rank # None /\ g.rank < h.rank}) < TOP_K}
    IN /\ r.asked # {} => r.useLlm
       /\ "rerank" \in r.asked => r.pdf /\ Near # {} /\
            Total([h \in Near |-> h.cosine], Near) >= MODERATE * Cardinality(Near)
       /\ "synthesis" \in r.asked => r.selected # <<>>

(* However the first calls overlap, both graphs share one embedder, and it  *)
(* is loaded again only when a build that had loaded it failed.             *)
OneEmbedder ==
    /\ \A b \in BOOLEAN : graphs[b] \in {None, embedder}
    /\ loads <= 1 + failures

(* Every call ends, with a report or an error, whatever fails in it or in   *)
(* the thread that holds the lock.                                          *)
AnalysesEnd == \A t \in Thread : <>(at[t] \in {"done", "failed"})
=============================================================================
