--------------------------- MODULE PipelineProofs ---------------------------
(* The cache of graphs and the reports of Pipeline.tla, for any number of   *)
(* calls and of warm-ups, any corpus and any answers of the search and the  *)
(* LLM; and at the end the batch of Ingest.tla, which fills that corpus.    *)
EXTENDS Pipeline, Ingest, ListLemmas

-----------------------------------------------------------------------------
(* The inductive invariant. *)

(* What the cache and the builders are made of. *)
CacheTypeOK ==
    /\ graphs \in [BOOLEAN -> Nat] /\ embedder \in Nat
    /\ lock \in Thread \cup {None}
    /\ loads \in Nat /\ failures \in Nat
    /\ at = [t \in Thread |-> at[t]]
    /\ run = [t \in Thread |-> run[t]]
    /\ \A t \in Thread :
         /\ {"useLlm", "model"} \subseteq DOMAIN run[t]
         /\ run[t].useLlm \in BOOLEAN
         /\ run[t].model \in Nat

(* Only the thread in the lock builds. *)
BuildersLock == \A t \in Thread : at[t] \in {"build", "bind"} => lock = t

(* A thread about to bind holds a model, which is the shared one if there   *)
(* is one already: nobody can have stored another in the meantime.          *)
BindsTheShared == \A t \in Thread : at[t] = "bind" =>
    /\ run[t].model # None
    /\ embedder # None => run[t].model = embedder

(* A load has led to the shared embedder, to a thread about to share it, or *)
(* to a failure.                                                            *)
LoadsAccounted ==
    /\ loads <= failures + 1
    /\ embedder = None /\ (\A t \in Thread : at[t] # "bind") => loads <= failures

CacheInv ==
    /\ CacheTypeOK
    /\ BuildersLock
    /\ BindsTheShared
    /\ LoadsAccounted
    /\ OneEmbedder

-----------------------------------------------------------------------------
LEMMA InitCacheInv == PipelineInit => CacheInv
<1> SUFFICES ASSUME PipelineInit PROVE CacheInv
    OBVIOUS
<1> USE DEF PipelineInit
<1>1. CacheTypeOK
    <2>1. \A t \in Thread : run[t] = NoRun
        OBVIOUS
    <2>2. /\ {"useLlm", "model"} \subseteq DOMAIN NoRun
          /\ NoRun.useLlm \in BOOLEAN /\ NoRun.model \in Nat
        BY DEF NoRun, None
    <2>3. run = [t \in Thread |-> run[t]]
        BY <2>1
    <2>4. at = [t \in Thread |-> at[t]] /\ graphs \in [BOOLEAN -> Nat]
        BY DEF None
    <2> QED
        BY <2>1, <2>2, <2>3, <2>4 DEF CacheTypeOK, None
<1>2. \A t \in Thread : at[t] \notin {"build", "bind"}
    OBVIOUS
<1> QED
    BY <1>1, <1>2 DEF CacheInv, BuildersLock, BindsTheShared, LoadsAccounted, OneEmbedder, None

(* A step that touches neither the cache nor the models in hand, and moves  *)
(* a thread between places outside the build, or to a failure.              *)
LEMMA OutsideCacheInv ==
    ASSUME CacheInv, NEW t \in Thread, UNCHANGED cacheVars,
           failures' \in Nat, failures' >= failures,
           NEW place, place \notin {"build", "bind"}, Goto(t, place),
           at[t] \notin {"build", "bind"},
           run' = [s \in Thread |-> run'[s]],
           \A s \in Thread : /\ {"useLlm", "model"} \subseteq DOMAIN run'[s]
                             /\ run'[s].useLlm \in BOOLEAN
                             /\ run'[s].model = run[s].model
    PROVE  CacheInv'
<1> USE DEF CacheInv, cacheVars
<1>1. \A s \in Thread \ {t} : at'[s] = at[s]
    BY DEF Goto, CacheTypeOK
<1>2. at'[t] = place /\ at' = [s \in Thread |-> at'[s]]
    BY DEF Goto, CacheTypeOK
<1>3. CacheTypeOK'
    BY <1>2 DEF CacheTypeOK
<1>4. BuildersLock'
    BY <1>1, <1>2 DEF BuildersLock
<1>5. BindsTheShared'
    BY <1>1, <1>2 DEF BindsTheShared
<1>6. LoadsAccounted'
    <2>1. (\A s \in Thread : at'[s] # "bind") => \A s \in Thread : at[s] # "bind"
        BY <1>1, <1>2
    <2> QED
        BY <2>1 DEF LoadsAccounted, CacheTypeOK
<1>7. OneEmbedder'
    BY DEF OneEmbedder, CacheTypeOK
<1> QED
    BY <1>3, <1>4, <1>5, <1>6, <1>7

(* The same for a step that puts a new state of its run.                    *)
LEMMA FillsCacheInv ==
    ASSUME CacheInv, NEW t \in Thread, UNCHANGED cacheVars,
           failures' \in Nat, failures' >= failures,
           NEW place, place \notin {"build", "bind"}, Goto(t, place),
           at[t] \notin {"build", "bind"},
           NEW state, Set(t, state), {"useLlm", "model"} \subseteq DOMAIN state,
           state.model = run[t].model, state.useLlm \in BOOLEAN
    PROVE  CacheInv'
<1>1. /\ run' = [s \in Thread |-> run'[s]] /\ run'[t] = state
      /\ \A s \in Thread \ {t} : run'[s] = run[s]
    BY DEF CacheInv, CacheTypeOK, Set
<1>2. \A s \in Thread : /\ {"useLlm", "model"} \subseteq DOMAIN run'[s]
                        /\ run'[s].useLlm \in BOOLEAN
                        /\ run'[s].model = run[s].model
    BY <1>1 DEF CacheInv, CacheTypeOK
<1> QED
    BY <1>1, <1>2, OutsideCacheInv

-----------------------------------------------------------------------------
(* The way to the graph. *)

LEMMA HaveGraphPlaces ==
    ASSUME NEW t \in Thread, HaveGraph(t)
    PROVE  \E place \in {"input", "done"} : Goto(t, place)
BY DEF HaveGraph

LEMMA LookupCacheInv ==
    ASSUME CacheInv, NEW t \in Thread, Begin(t) \/ Lookup(t)
    PROVE  CacheInv'
<1>0. UNCHANGED <<cacheVars, failures>>
    BY Zenon DEF Begin, Lookup
<1>1. failures' \in Nat /\ failures' >= failures /\ UNCHANGED cacheVars
    BY <1>0 DEF CacheInv, CacheTypeOK
<1>2. CASE Begin(t)
    <2>1. PICK useLlm, pdf, abstract \in BOOLEAN, preferences \in Preference \cup {None} :
            Set(t, [run[t] EXCEPT !.useLlm = useLlm, !.pdf = pdf, !.abstract = abstract,
                                  !.preferences = preferences])
        BY <1>2, Zenon DEF Begin
    <2>2. at[t] = "new" /\ Goto(t, "lookup")
        BY <1>2 DEF Begin
    <2> DEFINE state == [run[t] EXCEPT !.useLlm = useLlm, !.pdf = pdf, !.abstract = abstract,
                                       !.preferences = preferences]
    <2>3. /\ {"useLlm", "model"} \subseteq DOMAIN state
          /\ state.model = run[t].model /\ state.useLlm \in BOOLEAN
        BY DEF CacheInv, CacheTypeOK
    <2>4. Set(t, state)
        BY <2>1
    <2> HIDE DEF state
    <2> QED
        BY <1>1, <2>2, <2>3, <2>4, FillsCacheInv
<1>3. CASE Lookup(t)
    <2>1. at[t] = "lookup" /\ run' = run
        BY <1>3 DEF Lookup
    <2>2. PICK place \in {"input", "done", "wait"} : Goto(t, place)
        BY <1>3, HaveGraphPlaces DEF Lookup
    <2>3. /\ run' = [s \in Thread |-> run'[s]]
          /\ \A s \in Thread : /\ {"useLlm", "model"} \subseteq DOMAIN run'[s]
                                /\ run'[s].useLlm \in BOOLEAN
                                /\ run'[s].model = run[s].model
        BY <2>1 DEF CacheInv, CacheTypeOK
    <2> QED
        BY <1>1, <2>1, <2>2, <2>3, OutsideCacheInv
<1> QED
    BY <1>2, <1>3

LEMMA AcquireCacheInv ==
    ASSUME CacheInv, NEW t \in Thread, Acquire(t)
    PROVE  CacheInv'
<1>1. at[t] = "wait" /\ lock = None /\ UNCHANGED <<graphs, embedder, loads, failures, run>>
    BY DEF Acquire
<1>2. CASE HaveGraph(t) /\ UNCHANGED lock
    <2>1. PICK place \in {"input", "done"} : Goto(t, place)
        BY <1>2, HaveGraphPlaces
    <2>2. /\ run' = [s \in Thread |-> run'[s]]
          /\ \A s \in Thread : /\ {"useLlm", "model"} \subseteq DOMAIN run'[s]
                                /\ run'[s].useLlm \in BOOLEAN
                                /\ run'[s].model = run[s].model
        BY <1>1 DEF CacheInv, CacheTypeOK
    <2>3. failures' \in Nat /\ failures' >= failures /\ UNCHANGED cacheVars
        BY <1>1, <1>2 DEF CacheInv, CacheTypeOK, cacheVars
    <2> QED
        BY <1>1, <2>1, <2>2, <2>3, OutsideCacheInv
<1>3. CASE Goto(t, "build") /\ lock' = t
    <2>1. /\ at' = [s \in Thread |-> at'[s]] /\ at'[t] = "build"
          /\ \A s \in Thread \ {t} : at'[s] = at[s]
        BY <1>3 DEF CacheInv, CacheTypeOK, Goto
    <2>2. \A s \in Thread : at[s] \notin {"build", "bind"}
        BY <1>1, PipelineConstants DEF CacheInv, BuildersLock, PipelineConstants
    <2>3. CacheTypeOK'
        BY <1>1, <1>3, <2>1 DEF CacheInv, CacheTypeOK
    <2>4. BuildersLock'
        BY <1>3, <2>1, <2>2 DEF BuildersLock
    <2>5. BindsTheShared'
        BY <2>1, <2>2 DEF BindsTheShared
    <2>6. LoadsAccounted'
        BY <1>1, <2>2 DEF CacheInv, LoadsAccounted
    <2>7. OneEmbedder'
        BY <1>1 DEF CacheInv, OneEmbedder
    <2> QED
        BY <2>3, <2>4, <2>5, <2>6, <2>7 DEF CacheInv
<1> QED
    BY <1>2, <1>3 DEF Acquire

LEMMA LoadModelCacheInv ==
    ASSUME CacheInv, NEW t \in Thread, LoadModel(t)
    PROVE  CacheInv'
<1>1. at[t] = "build" /\ lock = t /\ UNCHANGED <<graphs, embedder, lock, failures>>
    BY DEF LoadModel, CacheInv, BuildersLock
<1>2. \A s \in Thread \ {t} : at[s] \notin {"build", "bind"}
    BY <1>1 DEF CacheInv, BuildersLock
<1>3. /\ at' = [s \in Thread |-> at'[s]] /\ at'[t] = "bind"
      /\ \A s \in Thread \ {t} : at'[s] = at[s]
    BY DEF LoadModel, CacheInv, CacheTypeOK, Goto
<1> DEFINE model == IF embedder = None THEN loads + 1 ELSE embedder
<1>4. /\ run' = [s \in Thread |-> run'[s]]
      /\ \A s \in Thread \ {t} : run'[s] = run[s]
      /\ DOMAIN run'[t] = DOMAIN run[t]
      /\ run'[t].model = model /\ run'[t].useLlm = run[t].useLlm
    BY DEF LoadModel, CacheInv, CacheTypeOK
<1>5. model \in Nat /\ model # None /\ (embedder # None => model = embedder)
    BY DEF CacheInv, CacheTypeOK, None
<1> HIDE DEF model
<1>6. loads' = IF embedder = None THEN loads + 1 ELSE loads
    BY DEF LoadModel
<1>7. CacheTypeOK'
    BY <1>1, <1>3, <1>4, <1>5, <1>6 DEF CacheInv, CacheTypeOK
<1>8. BuildersLock'
    BY <1>1, <1>2, <1>3 DEF BuildersLock
<1>9. BindsTheShared'
    BY <1>1, <1>2, <1>3, <1>4, <1>5 DEF BindsTheShared
<1>10. LoadsAccounted' /\ OneEmbedder'
    <2>1. \A s \in Thread : at[s] # "bind"
        BY <1>1, <1>2
    <2>2. loads' <= failures + 1
        BY <1>6, <2>1 DEF CacheInv, LoadsAccounted, CacheTypeOK
    <2> QED
        BY <1>1, <1>3, <2>2 DEF CacheInv, LoadsAccounted, OneEmbedder, CacheTypeOK
<1> QED
    BY <1>7, <1>8, <1>9, <1>10 DEF CacheInv

(* What is left when the only builder has given the lock back.              *)
LEMMA BuilderLeaves ==
    ASSUME CacheInv, NEW t \in Thread, at[t] \in {"build", "bind"},
           NEW place, place \notin {"build", "bind"}, Goto(t, place), lock' = None,
           Set(t, [run[t] EXCEPT !.model = None]),
           UNCHANGED loads, failures' \in Nat, embedder' \in Nat,
           graphs' \in [BOOLEAN -> Nat],
           loads <= failures' + 1, embedder' = None => loads <= failures',
           OneEmbedder'
    PROVE  CacheInv'
<1>1. \A s \in Thread \ {t} : at[s] \notin {"build", "bind"}
    BY DEF CacheInv, BuildersLock
<1>2. /\ at' = [s \in Thread |-> at'[s]] /\ at'[t] = place
      /\ \A s \in Thread \ {t} : at'[s] = at[s]
    BY DEF CacheInv, CacheTypeOK, Goto
<1>3. \A s \in Thread : at'[s] \notin {"build", "bind"}
    BY <1>1, <1>2
<1>4. /\ run' = [s \in Thread |-> run'[s]]
      /\ \A s \in Thread \ {t} : run'[s] = run[s]
      /\ DOMAIN run'[t] = DOMAIN run[t]
    BY DEF CacheInv, CacheTypeOK, Set
<1>5. run'[t].model = None /\ run'[t].useLlm = run[t].useLlm
    BY DEF CacheInv, CacheTypeOK, Set
<1>6. CacheTypeOK'
    BY <1>2, <1>4, <1>5 DEF CacheInv, CacheTypeOK, None
<1>7. BuildersLock' /\ BindsTheShared' /\ LoadsAccounted'
    BY <1>3 DEF BuildersLock, BindsTheShared, LoadsAccounted
<1> QED
    BY <1>6, <1>7 DEF CacheInv

LEMMA StoreGraphCacheInv ==
    ASSUME CacheInv, NEW t \in Thread, StoreGraph(t)
    PROVE  CacheInv'
<1>1. /\ at[t] = "bind" /\ UNCHANGED <<loads, failures>> /\ lock' = None
      /\ embedder' = run[t].model /\ Set(t, [run[t] EXCEPT !.model = None])
      /\ graphs' = [graphs EXCEPT ![run[t].useLlm] = run[t].model]
    BY DEF StoreGraph
<1>2. PICK place \in {"input", "done"} : Goto(t, place)
    BY HaveGraphPlaces DEF StoreGraph
<1>3. run[t].model # None /\ (embedder # None => run[t].model = embedder)
    BY <1>1 DEF CacheInv, BindsTheShared
<1>4. graphs' \in [BOOLEAN -> Nat] /\ embedder' \in Nat
    BY <1>1 DEF CacheInv, CacheTypeOK
<1>5. \A b \in BOOLEAN : graphs'[b] \in {None, embedder'}
    <2>1. \A b \in BOOLEAN : graphs[b] \in {None, embedder}
        BY DEF CacheInv, OneEmbedder
    <2>2. \A b \in BOOLEAN : graphs'[b] \in {graphs[b], run[t].model}
        BY <1>1 DEF CacheInv, CacheTypeOK
    <2> QED
        BY <1>1, <1>3, <2>1, <2>2
<1>6. loads <= failures + 1
    BY DEF CacheInv, LoadsAccounted
<1>7. OneEmbedder'
    BY <1>1, <1>5, <1>6 DEF OneEmbedder, CacheInv, CacheTypeOK
<1>8. failures' \in Nat
    BY <1>1 DEF CacheInv, CacheTypeOK
<1> QED
    BY <1>1, <1>2, <1>3, <1>4, <1>6, <1>7, <1>8, BuilderLeaves

LEMMA BuildFailsCacheInv ==
    ASSUME CacheInv, NEW t \in Thread, BuildFails(t)
    PROVE  CacheInv'
<1>1. /\ at[t] \in {"build", "bind"} /\ failures' = failures + 1 /\ lock' = None
      /\ Goto(t, "failed") /\ Set(t, [run[t] EXCEPT !.model = None])
      /\ UNCHANGED <<graphs, embedder, loads>>
    BY DEF BuildFails
<1>2. failures \in Nat /\ loads \in Nat /\ embedder' \in Nat /\ graphs' \in [BOOLEAN -> Nat]
    BY <1>1 DEF CacheInv, CacheTypeOK
<1>3. loads <= failures'
    BY <1>1, <1>2 DEF CacheInv, LoadsAccounted
<1>4. OneEmbedder'
    BY <1>1, <1>2, <1>3 DEF CacheInv, OneEmbedder
<1>5. failures' \in Nat /\ loads <= failures' + 1
    BY <1>1, <1>2, <1>3
<1> QED
    BY <1>1, <1>2, <1>3, <1>4, <1>5, BuilderLeaves

-----------------------------------------------------------------------------
(* The nodes. *)

LEMMA NodeCacheInv ==
    ASSUME CacheInv, NEW t \in Thread,
           Input(t) \/ Retrieve(t) \/ Rerank(t) \/ ReviewFetch(t) \/ Synthesize(t)
    PROVE  CacheInv'
<1>1. /\ UNCHANGED cacheVars /\ UNCHANGED failures
      /\ at[t] \in {"input", "retrieval", "rerank", "review_fetch", "synthesis"}
    BY DEF Input, Retrieve, Rerank, ReviewFetch, Synthesize
<1>2. PICK place \in {"retrieval", "rerank", "review_fetch", "synthesis", "done"} : Goto(t, place)
    BY DEF Input, Retrieve, Rerank, ReviewFetch, Synthesize
<1>3. failures' \in Nat /\ failures' >= failures
    BY <1>1 DEF CacheInv, CacheTypeOK
<1>4. SUFFICES \E state : /\ Set(t, state)
                          /\ DOMAIN state = DOMAIN run[t]
                          /\ state.model = run[t].model /\ state.useLlm = run[t].useLlm
    BY <1>1, <1>2, <1>3, FillsCacheInv DEF CacheInv, CacheTypeOK
<1>5. CASE Input(t)
    <2>1. PICK asked : Set(t, [run[t] EXCEPT !.asked = asked])
        BY <1>5 DEF Input
    <2> WITNESS [run[t] EXCEPT !.asked = asked]
    <2> QED
        BY <2>1 DEF CacheInv, CacheTypeOK
<1>6. CASE Retrieve(t)
    <2>1. PICK hits, level, applied :
            Set(t, [run[t] EXCEPT !.hits = hits, !.level = level, !.applied = applied])
        BY <1>6, Zenon DEF Retrieve
    <2> WITNESS [run[t] EXCEPT !.hits = hits, !.level = level, !.applied = applied]
    <2> QED
        BY <2>1 DEF CacheInv, CacheTypeOK
<1>7. CASE Rerank(t)
    <2>1. CASE \E selections : Set(t, [run[t] EXCEPT !.selections = selections])
        <3>1. PICK selections : Set(t, [run[t] EXCEPT !.selections = selections])
            BY <2>1
        <3> WITNESS [run[t] EXCEPT !.selections = selections]
        <3> QED
            BY <3>1 DEF CacheInv, CacheTypeOK
    <2>2. CASE \E selections, asked, applied :
                Set(t, [run[t] EXCEPT !.selections = selections, !.asked = asked, !.applied = applied])
        <3>1. PICK selections, asked, applied :
                Set(t, [run[t] EXCEPT !.selections = selections, !.asked = asked, !.applied = applied])
            BY <2>2
        <3> WITNESS [run[t] EXCEPT !.selections = selections, !.asked = asked, !.applied = applied]
        <3> QED
            BY <3>1 DEF CacheInv, CacheTypeOK
    <2> QED
        BY <1>7, <2>1, <2>2, Zenon DEF Rerank, Reranks
<1>8. CASE ReviewFetch(t)
    <2>1. PICK selected : Set(t, [run[t] EXCEPT !.selected = selected])
        BY <1>8, Zenon DEF ReviewFetch
    <2> WITNESS [run[t] EXCEPT !.selected = selected]
    <2> QED
        BY <2>1 DEF CacheInv, CacheTypeOK
<1>9. CASE Synthesize(t)
    <2>1. PICK evidence, text, asked, usedLlm, applied :
            Set(t, [run[t] EXCEPT !.evidence = evidence, !.text = text, !.asked = asked,
                                  !.usedLlm = usedLlm, !.applied = applied])
        BY <1>9, Zenon DEF Synthesize
    <2> WITNESS [run[t] EXCEPT !.evidence = evidence, !.text = text, !.asked = asked,
                               !.usedLlm = usedLlm, !.applied = applied]
    <2> QED
        BY <2>1 DEF CacheInv, CacheTypeOK
<1> QED
    BY <1>5, <1>6, <1>7, <1>8, <1>9

LEMMA NodeFailsCacheInv ==
    ASSUME CacheInv, NEW t \in Thread, NodeFails(t)
    PROVE  CacheInv'
<1>1. /\ UNCHANGED cacheVars /\ failures' = failures + 1 /\ run' = run
      /\ at[t] \notin {"build", "bind"} /\ Goto(t, "failed")
    BY DEF NodeFails
<1>2. failures' \in Nat /\ failures' >= failures
    BY <1>1 DEF CacheInv, CacheTypeOK
<1>3. /\ run' = [s \in Thread |-> run'[s]]
      /\ \A s \in Thread : /\ {"useLlm", "model"} \subseteq DOMAIN run'[s]
                            /\ run'[s].useLlm \in BOOLEAN
                            /\ run'[s].model = run[s].model
    BY <1>1 DEF CacheInv, CacheTypeOK
<1> QED
    BY <1>1, <1>2, <1>3, OutsideCacheInv

-----------------------------------------------------------------------------
LEMMA NextCacheInv == CacheInv /\ [PipelineNext]_pipelineVars => CacheInv'
<1> SUFFICES ASSUME CacheInv, [PipelineNext]_pipelineVars PROVE CacheInv'
    OBVIOUS
<1>1. CASE UNCHANGED pipelineVars
    BY <1>1 DEF pipelineVars, CacheInv, CacheTypeOK, BuildersLock, BindsTheShared, LoadsAccounted, OneEmbedder
<1>2. ASSUME NEW t \in Thread, CallStep(t) PROVE CacheInv'
    BY <1>2, LookupCacheInv, AcquireCacheInv, LoadModelCacheInv, StoreGraphCacheInv, BuildFailsCacheInv, NodeCacheInv,
       NodeFailsCacheInv DEF CallStep
<1> QED
    BY <1>1, <1>2 DEF PipelineNext

(* Every reachable state of the pipeline satisfies the inductive invariant. *)
THEOREM CacheInvariance == PipelineSpec => []CacheInv
BY InitCacheInv, NextCacheInv, PTL DEF PipelineSpec

(* The double-checked construction under _build_lock gives both graphs one  *)
(* embedder, and loads it once and once more for each failure at most, with *)
(* any number of threads.                                                   *)
THEOREM OneSharedEmbedder == PipelineSpec => []OneEmbedder
<1>1. CacheInv => OneEmbedder
    BY DEF CacheInv
<1> QED
    BY <1>1, CacheInvariance, PTL

(* Only one thread at a time is inside the build.                           *)
THEOREM OneBuilder ==
    PipelineSpec => [](\A s, t \in Thread :
        at[s] \in {"build", "bind"} /\ at[t] \in {"build", "bind"} => s = t)
<1>1. CacheInv => \A s, t \in Thread :
        at[s] \in {"build", "bind"} /\ at[t] \in {"build", "bind"} => s = t
    BY DEF CacheInv, BuildersLock
<1> QED
    BY <1>1, CacheInvariance, PTL
-----------------------------------------------------------------------------
(* What the helpers of the nodes return. *)

LEMMA CutProperties ==
    ASSUME NEW T, NEW s \in Seq(T), NEW n \in Nat
    PROVE  /\ Cut(s, n) \in Seq(T) /\ Len(Cut(s, n)) <= n
           /\ Len(Cut(s, n)) = IF Len(s) < n THEN Len(s) ELSE n
           /\ \A i \in DOMAIN Cut(s, n) : i \in DOMAIN s /\ Cut(s, n)[i] = s[i]
<1> DEFINE m == IF Len(s) < n THEN Len(s) ELSE n
<1>1. Len(s) \in Nat /\ m \in Nat /\ m <= n /\ m <= Len(s)
    OBVIOUS
<1>2. \A i \in 1 .. m : i \in DOMAIN s
    BY <1>1
<1>3. Cut(s, n) = SubSeq(s, 1, m)
    BY DEF Cut
<1> HIDE DEF m
<1>4. SubSeq(s, 1, m) \in Seq(T) /\ Len(SubSeq(s, 1, m)) = m /\ \A i \in 1 .. m : SubSeq(s, 1, m)[i] = s[i]
    BY <1>1, <1>2
<1>5. DOMAIN SubSeq(s, 1, m) = 1 .. m
    BY <1>1, <1>4
<1> QED
    BY <1>1, <1>2, <1>3, <1>4, <1>5 DEF m

LEMMA FoundTyped ==
    ASSUME NEW hits \in Found
    PROVE  /\ hits \in Seq(Hit) /\ Ids(hits) \in Seq(Paper) /\ Len(Ids(hits)) = Len(hits)
           /\ \A i \in DOMAIN hits : Ids(hits)[i] = hits[i].id
           /\ \A i, j \in DOMAIN hits : hits[i].id = hits[j].id => i = j
           /\ \A i, j \in DOMAIN hits : hits[i].rank = hits[j].rank => i = j \/ hits[i].rank = None
<1>1. hits \in Seq(Hit) /\ DOMAIN hits = 1 .. Len(hits) /\ Len(hits) \in Nat
    BY PipelineConstants DEF PipelineConstants
<1>4. \A i \in DOMAIN hits : hits[i] \in Hit
    BY <1>1
<1>2. \A i \in DOMAIN hits : hits[i].id \in Paper
    BY <1>4 DEF Hit
<1>3. Ids(hits) \in Seq(Paper) /\ Len(Ids(hits)) = Len(hits) /\ \A i \in DOMAIN hits : Ids(hits)[i] = hits[i].id
    BY <1>1, <1>2 DEF Ids
<1> QED
    BY <1>1, <1>3, PipelineConstants DEF PipelineConstants

(* What a selection must be, whoever made it. *)
SelectionSound(papers, hits) ==
    /\ papers \in Seq(Paper) /\ Range(papers) \subseteq Range(Ids(hits))
    /\ Len(papers) <= RERANK_LIMIT
    /\ \A i, j \in DOMAIN papers : papers[i] = papers[j] => i = j

LEMMA StubSelectionSound ==
    ASSUME NEW hits \in Found
    PROVE  SelectionSound(StubSelections(hits), hits)
<1>1. RERANK_LIMIT \in Nat
    BY PipelineConstants DEF PipelineConstants
<1> DEFINE cut == StubSelections(hits)
<1>2. /\ cut \in Seq(Paper) /\ Len(cut) <= RERANK_LIMIT
      /\ \A i \in DOMAIN cut : i \in DOMAIN Ids(hits) /\ cut[i] = Ids(hits)[i]
    BY <1>1, FoundTyped, CutProperties DEF StubSelections
<1>3. \A i, j \in DOMAIN Ids(hits) : Ids(hits)[i] = Ids(hits)[j] => i = j
    BY FoundTyped
<1> HIDE DEF cut
<1> QED
    BY <1>2, <1>3 DEF SelectionSound, Range, cut

(* The places kept of a sound selection are one. *)
LEMMA KeptSelectionSound ==
    ASSUME NEW papers, NEW hits, SelectionSound(papers, hits), NEW K \in SUBSET DOMAIN papers
    PROVE  SelectionSound(Kept(papers, K), hits)
<1> DEFINE kept == Kept(papers, K)
<1>1. /\ papers \in Seq(Paper) /\ RERANK_LIMIT \in Nat
      /\ \A i, j \in DOMAIN papers : papers[i] = papers[j] => i = j
    BY PipelineConstants DEF SelectionSound, PipelineConstants
<1>2. kept \in Seq(Paper) /\ Len(kept) <= Len(papers)
    BY <1>1, KeptProperties
<1>3. PICK p \in [DOMAIN kept -> K] :
        /\ \A i \in DOMAIN kept : kept[i] = papers[p[i]]
        /\ \A i, j \in DOMAIN kept : i < j => p[i] < p[j]
    BY <1>1, KeptProperties
<1> HIDE DEF kept
<1>4. \A i \in DOMAIN kept : p[i] \in DOMAIN papers
    OBVIOUS
<1>5. \A i, j \in DOMAIN kept : kept[i] = kept[j] => i = j
    <2> TAKE i, j \in DOMAIN kept
    <2> HAVE kept[i] = kept[j]
    <2>1. p[i] = p[j] /\ p[i] \in Nat
        BY <1>1, <1>3, <1>4
    <2>2. i \in Nat /\ j \in Nat
        BY <1>2
    <2> QED
        BY <1>3, <2>1, <2>2
<1>6. Range(kept) \subseteq Range(papers)
    BY <1>3, <1>4 DEF Range
<1>7. Len(kept) <= RERANK_LIMIT
    BY <1>1, <1>2 DEF SelectionSound
<1> QED
    BY <1>2, <1>5, <1>6, <1>7 DEF SelectionSound, kept

LEMMA ValidatedSelectionSound ==
    ASSUME NEW raw \in Reply, NEW hits \in Found
    PROVE  SelectionSound(ValidatedSelections(raw, hits), hits)
<1> DEFINE K == {i \in FirstPlaces(raw) : raw[i] \in Range(Ids(hits))}
           kept == Kept(raw, K)
           cut == Cut(kept, RERANK_LIMIT)
<1>1. RERANK_LIMIT \in Nat /\ raw \in Seq(Paper \cup Invented)
    BY PipelineConstants DEF PipelineConstants
<1>2. K \in SUBSET DOMAIN raw /\ \A i \in K : raw[i] \in Range(Ids(hits))
    BY DEF FirstPlaces
<1>3. \A i, j \in K : raw[i] = raw[j] => i = j
    BY <1>1 DEF FirstPlaces
<1> HIDE DEF K
<1>4. kept \in Seq(Paper \cup Invented)
    BY <1>1, <1>2, KeptProperties
<1>5. PICK p \in [DOMAIN kept -> K] :
        /\ \A i \in DOMAIN kept : kept[i] = raw[p[i]]
        /\ \A i, j \in DOMAIN kept : i < j => p[i] < p[j]
    BY <1>1, <1>2, KeptProperties
<1> HIDE DEF kept
<1>6. /\ cut \in Seq(Paper \cup Invented) /\ Len(cut) <= RERANK_LIMIT
      /\ \A i \in DOMAIN cut : i \in DOMAIN kept /\ cut[i] = kept[i]
    BY <1>1, <1>4, CutProperties
<1> HIDE DEF cut
<1>7. \A i \in DOMAIN cut : p[i] \in K /\ cut[i] = raw[p[i]] /\ cut[i] \in Range(Ids(hits))
    BY <1>2, <1>5, <1>6
<1>8. \A i, j \in DOMAIN cut : cut[i] = cut[j] => i = j
    <2> TAKE i, j \in DOMAIN cut
    <2> HAVE cut[i] = cut[j]
    <2>1. p[i] = p[j] /\ p[i] \in Nat
        BY <1>1, <1>2, <1>3, <1>7
    <2>2. i \in Nat /\ j \in Nat /\ i \in DOMAIN kept /\ j \in DOMAIN kept
        BY <1>6
    <2> QED
        BY <1>5, <2>1, <2>2
<1>9. cut \in Seq(Paper)
    <2>1. \A b \in Range(Ids(hits)) : b \in Paper
        BY FoundTyped DEF Range
    <2>2. \A i \in 1 .. Len(cut) : cut[i] \in Paper
        BY <1>6, <1>7, <2>1
    <2> QED
        BY <1>6, <2>2
<1> QED
    BY <1>6, <1>7, <1>8, <1>9 DEF SelectionSound, Range, ValidatedSelections, cut, kept, K

(* The evidence of a selection: of its papers, no label twice.              *)
Evidence == [label : Label, paper : Paper]
EvidenceSound(evidence, selected) ==
    /\ evidence \in Seq(Evidence)
    /\ \A i \in DOMAIN evidence : evidence[i].paper \in Range(selected)
    /\ \A i, j \in DOMAIN evidence : evidence[i].label = evidence[j].label => i = j

LEMMA BuildEvidenceSound ==
    ASSUME NEW selected \in Seq(Paper)
    PROVE  EvidenceSound(BuildEvidence(selected), selected)
<1> DEFINE own == [i \in DOMAIN selected |->
                    [j \in 1 .. Len(Cut(PointsOf[selected[i]], MAX_POINTS_PER_PAPER)) |-> selected[i]]]
           points == Flat(own)
           K == {i \in DOMAIN selected : selected[i] \in HasMetaReview}
           kept == Kept(selected, K)
           metas == Cut(kept, MAX_META_REVIEWS)
           es == [i \in DOMAIN points |-> [label |-> <<"E", i>>, paper |-> points[i]]]
           ms == [i \in DOMAIN metas |-> [label |-> <<"M", i>>, paper |-> metas[i]]]
<1>1. /\ MAX_POINTS_PER_PAPER \in Nat /\ MAX_META_REVIEWS \in Nat
      /\ \A p \in Paper : PointsOf[p] \in Seq(Nat)
    BY PipelineConstants DEF PipelineConstants
<1>2. selected \in Seq(Range(selected)) /\ Range(selected) \subseteq Paper
    BY DEF Range
<1> DEFINE R == Range(selected)
<1> HIDE DEF R
<1>3. own \in Seq(Seq(R))
    <2>1. \A i \in DOMAIN selected : Len(Cut(PointsOf[selected[i]], MAX_POINTS_PER_PAPER)) \in Nat
        BY <1>1, CutProperties
    <2>2. \A i \in DOMAIN selected : own[i] \in Seq(R)
        BY <1>2, <2>1 DEF R
    <2>3. DOMAIN own = 1 .. Len(selected) /\ Len(selected) \in Nat /\ own = [i \in DOMAIN own |-> own[i]]
        OBVIOUS
    <2> HIDE DEF own
    <2> QED
        BY <2>2, <2>3
<1> HIDE DEF own
<1>4. points \in Seq(R)
    BY <1>3, FlatProperties
<1>5. K \in SUBSET DOMAIN selected
    OBVIOUS
<1> HIDE DEF K
<1>6. kept \in Seq(R)
    BY <1>2, <1>5, KeptProperties DEF R
<1>7. metas \in Seq(R)
    BY <1>1, <1>6, CutProperties
<1> HIDE DEF points, metas
<1>8. R \subseteq Paper
    BY <1>2 DEF R
<1> DEFINE Item == [label : Label, paper : R]
<1>9. es \in Seq(Item) /\ Len(es) = Len(points)
      /\ \A i \in DOMAIN es : es[i].label = <<"E", i>>
    <2>1. \A i \in DOMAIN points : [label |-> <<"E", i>>, paper |-> points[i]] \in Item
        BY <1>4 DEF Label
    <2> HIDE DEF Item
    <2> QED
        BY <1>4, <2>1
<1>10. ms \in Seq(Item) /\ Len(ms) = Len(metas)
      /\ \A i \in DOMAIN ms : ms[i].label = <<"M", i>>
    <2>1. \A i \in DOMAIN metas : [label |-> <<"M", i>>, paper |-> metas[i]] \in Item
        BY <1>7 DEF Label
    <2> HIDE DEF Item
    <2> QED
        BY <1>7, <2>1
<1>11. BuildEvidence(selected) = es \o ms
    BY DEF BuildEvidence, points, metas, own, K
<1> HIDE DEF es, ms
<1> DEFINE ev == es \o ms
<1>12. /\ ev \in Seq(Item) /\ Len(ev) = Len(es) + Len(ms)
       /\ Len(es) \in Nat /\ Len(ms) \in Nat
       /\ \A i \in DOMAIN ev : i \in Nat /\ ev[i] \in Item
       /\ \A i \in DOMAIN ev : i <= Len(es) => i \in DOMAIN es /\ ev[i] = es[i]
       /\ \A i \in DOMAIN ev : ~(i <= Len(es)) => i - Len(es) \in DOMAIN ms /\ ev[i] = ms[i - Len(es)]
    <2> HIDE DEF Item
    <2>1. /\ ev \in Seq(Item) /\ Len(ev) = Len(es) + Len(ms)
          /\ Len(es) \in Nat /\ Len(ms) \in Nat /\ DOMAIN ev = 1 .. Len(es) + Len(ms)
          /\ \A i \in DOMAIN es : ev[i] = es[i]
          /\ \A i \in DOMAIN ev : ~(i <= Len(es)) => i - Len(es) \in DOMAIN ms /\ ev[i] = ms[i - Len(es)]
        <3>1. es \in Seq(Item) /\ ms \in Seq(Item)
            BY <1>9, <1>10
        <3> QED
            BY ONLY <3>1, ConcatParts
    <2> HIDE DEF ev
    <2>2. \A i \in DOMAIN ev : i \in Nat /\ ev[i] \in Item /\ (i <= Len(es) => i \in DOMAIN es)
        BY <1>9, <2>1
    <2> QED
        BY <2>1, <2>2
<1> HIDE DEF ev
<1>13. \A i, j \in DOMAIN ev : ev[i].label = ev[j].label => i = j
    <2>1. \A i \in DOMAIN ev : i <= Len(es) => ev[i].label = <<"E", i>>
        BY <1>9, <1>12
    <2>2. \A i \in DOMAIN ev : ~(i <= Len(es)) => ev[i].label = <<"M", i - Len(es)>>
        BY <1>10, <1>12
    <2> TAKE i, j \in DOMAIN ev
    <2> HAVE ev[i].label = ev[j].label
    <2>3. i \in Nat /\ j \in Nat
        BY <1>12
    <2>4. CASE i <= Len(es) /\ j <= Len(es)
        BY <2>1, <2>4
    <2>5. CASE i <= Len(es) /\ ~(j <= Len(es))
        BY <2>1, <2>2, <2>5
    <2>6. CASE ~(i <= Len(es)) /\ j <= Len(es)
        BY <2>1, <2>2, <2>6
    <2>7. CASE ~(i <= Len(es)) /\ ~(j <= Len(es))
        <3>1. <<"M", i - Len(es)>> = <<"M", j - Len(es)>>
            BY <2>2, <2>7
        <3>2. i - Len(es) = j - Len(es)
            BY <3>1
        <3> QED
            BY <1>12, <2>3, <3>2
    <2> QED
        BY <2>4, <2>5, <2>6, <2>7
<1>14. \A i \in DOMAIN ev : ev[i].paper \in R /\ ev[i] \in Evidence
    BY <1>8, <1>12 DEF Evidence
<1>15. ev \in Seq(Evidence)
    <2> HIDE DEF Item
    <2> QED
        BY <1>12, <1>14
<1> QED
    BY <1>11, <1>13, <1>14, <1>15 DEF EvidenceSound, ev, R
(* What is left of a text cites, and cites the evidence only.               *)
TextSound(text, evidence) ==
    /\ text \in Seq(Seq(Label))
    /\ \A i \in DOMAIN text : text[i] # <<>> /\ Range(text[i]) \subseteq LabelsOf(evidence)

LEMMA ValidateCitationsSound ==
    ASSUME NEW text \in Seq(Seq(Label)), NEW evidence
    PROVE  TextSound(ValidateCitations(text, evidence), evidence)
<1> DEFINE known == LabelsOf(evidence)
           places(i) == {j \in DOMAIN text[i] : text[i][j] \in known}
           blocks == [i \in DOMAIN text |-> Kept(text[i], places(i))]
           K == {i \in DOMAIN blocks : blocks[i] # <<>>}
           cleaned == Kept(blocks, K)
<1>1. \A i \in DOMAIN text : blocks[i] \in Seq(Label) /\ Range(blocks[i]) \subseteq known
    <2> TAKE i \in DOMAIN text
    <2> DEFINE b == Kept(text[i], places(i))
    <2>1. text[i] \in Seq(Label) /\ places(i) \in SUBSET DOMAIN text[i]
        OBVIOUS
    <2>6. \A j \in places(i) : text[i][j] \in known
        OBVIOUS
    <2> HIDE DEF places
    <2>2. b \in Seq(Label) /\ \A j \in DOMAIN b : \E k \in places(i) : b[j] = text[i][k]
        BY <2>1, KeptElements
    <2> HIDE DEF b
    <2>5. Range(b) \subseteq known
        BY <2>2, <2>6 DEF Range
    <2> QED
        BY <2>2, <2>5 DEF b
<1>2. DOMAIN blocks = 1 .. Len(text) /\ Len(text) \in Nat
    OBVIOUS
<1>3. blocks = [i \in DOMAIN blocks |-> blocks[i]] /\ DOMAIN blocks = DOMAIN text
    OBVIOUS
<1>4. ValidateCitations(text, evidence) = cleaned
    BY DEF ValidateCitations
<1> HIDE DEF blocks, known
<1>5. blocks \in Seq(Seq(Label)) /\ K \in SUBSET DOMAIN blocks
    <2>1. \A i \in 1 .. Len(text) : blocks[i] \in Seq(Label)
        BY <1>1, <1>2, <1>3
    <2>2. blocks \in Seq(Seq(Label))
        BY <1>2, <1>3, <2>1, ListOf
    <2> QED
        BY <2>2
<1>6. cleaned \in Seq(Seq(Label)) /\ \A i \in DOMAIN cleaned : \E k \in K : cleaned[i] = blocks[k]
    <2> HIDE DEF K
    <2> QED
        BY <1>5, KeptElements
<1> HIDE DEF cleaned
<1>9. \A i \in DOMAIN cleaned : cleaned[i] # <<>> /\ Range(cleaned[i]) \subseteq known
    BY <1>1, <1>3, <1>6
<1> QED
    BY <1>4, <1>6, <1>9 DEF TextSound, known

LEMMA StubDraftTyped ==
    ASSUME NEW selected \in Seq(Paper), NEW evidence \in Seq(Evidence)
    PROVE  StubDraft(selected, evidence) \in Seq(Seq(Label))
<1> DEFINE places(i) == {j \in DOMAIN evidence : evidence[j].paper = selected[i] /\ evidence[j].label[1] = "E"}
           own(i) == Kept(evidence, places(i))
           draft == [i \in DOMAIN selected |-> [j \in DOMAIN own(i) |-> own(i)[j].label]]
<1>1. \A i \in DOMAIN selected : own(i) \in Seq(Evidence)
    <2> TAKE i \in DOMAIN selected
    <2>1. places(i) \in SUBSET DOMAIN evidence
        OBVIOUS
    <2> HIDE DEF places
    <2> QED
        BY <2>1, KeptProperties
<1>2. StubDraft(selected, evidence) = draft
    BY DEF StubDraft
<1> HIDE DEF own
<1>3. \A i \in DOMAIN selected : draft[i] \in Seq(Label)
    <2> TAKE i \in DOMAIN selected
    <2>3. /\ Len(own(i)) \in Nat /\ DOMAIN own(i) = 1 .. Len(own(i))
          /\ \A j \in DOMAIN own(i) : own(i)[j] \in Evidence
        BY <1>1
    <2>1. \A j \in DOMAIN own(i) : own(i)[j].label \in Label
        BY <2>3 DEF Evidence
    <2>2. [j \in 1 .. Len(own(i)) |-> own(i)[j].label] \in Seq(Label)
        BY <2>1, <2>3
    <2> QED
        BY <2>2, <2>3
<1>4. draft = [i \in DOMAIN draft |-> draft[i]] /\ DOMAIN draft = 1 .. Len(selected) /\ Len(selected) \in Nat
    OBVIOUS
<1> HIDE DEF draft
<1>5. draft \in Seq(Seq(Label))
    BY <1>3, <1>4
<1> QED
    BY <1>2, <1>5

(* The level speaks for the TOP_K nearest of what the vector search found.  *)
Near(hits) == {h \in Range(hits) : h.rank # None
                 /\ Cardinality({g \in Range(hits) : g.rank # None /\ g.rank < h.rank}) < TOP_K}
Reliable(hits) ==
    /\ Near(hits) # {}
    /\ Total([h \in Near(hits) |-> h.cosine], Near(hits)) >= MODERATE * Cardinality(Near(hits))

LEMMA LevelReliable ==
    ASSUME NEW hits \in Found, ConfidenceFrom(hits) # "weak"
    PROVE  Reliable(hits)
<1> DEFINE V == {h \in Range(hits) : h.rank # None}
           R == {p \in V \X V : p[1].rank < p[2].rank}
           ranked == Ranked(hits)
           n == Cardinality(V)
           m == IF n < TOP_K THEN n ELSE TOP_K
           cosines == [i \in DOMAIN ranked |-> ranked[i].cosine]
           usable == Cut(cosines, TOP_K)
<1>1. /\ TOP_K \in Nat /\ STRONG \in Nat /\ MODERATE \in Nat /\ MODERATE <= STRONG
      /\ V \subseteq Hit
    BY PipelineConstants, FoundTyped DEF PipelineConstants, Range
<1>2. IsFiniteSet(V)
    <2>1. hits \in Surjection(DOMAIN hits, Range(hits)) /\ IsFiniteSet(DOMAIN hits)
        <3>1. hits \in Seq(Hit) /\ DOMAIN hits = 1 .. Len(hits) /\ Len(hits) \in Nat
            BY FoundTyped
        <3>2. IsFiniteSet(DOMAIN hits)
            BY <3>1, FS_Interval
        <3> QED
            BY <3>1, <3>2 DEF Surjection, Range
    <2>2. IsFiniteSet(Range(hits))
        BY <2>1, FS_Surjection
    <2> QED
        BY <2>2, FS_Subset
<1>3. StrictOrder(V, R)
    <2>1. \A g, h \in V : g.rank \in Nat /\ h.rank \in Nat
        BY <1>1 DEF Hit
    <2>2. \A g, h \in V : g.rank = h.rank => g = h
        <3> TAKE g, h \in V
        <3>1. PICK i \in DOMAIN hits, j \in DOMAIN hits : g = hits[i] /\ h = hits[j] /\ g.rank # None
            BY DEF Range
        <3> QED
            BY <3>1, FoundTyped
    <2>3. \A g, h \in V : <<g, h>> \in R <=> g.rank < h.rank
        OBVIOUS
    <2> HIDE DEF V, R
    <2>4. \A g \in V : <<g, g>> \notin R
        BY <2>1, <2>3
    <2>5. \A g, h \in V : g = h \/ <<g, h>> \in R \/ <<h, g>> \in R
        <3> TAKE g, h \in V
        <3>1. g.rank < h.rank \/ h.rank < g.rank \/ g.rank = h.rank
            BY <2>1
        <3> QED
            BY <2>2, <2>3, <3>1
    <2>6. \A f, g, h \in V : <<f, g>> \in R /\ <<g, h>> \in R => <<f, h>> \in R
        BY <2>1, <2>3
    <2> QED
        BY <2>4, <2>5, <2>6 DEF StrictOrder
<1>4. ranked = Enumerate(V, R)
    BY DEF Ranked
<1> DEFINE below(h) == {y \in V : <<y, h>> \in R}
<1>5. \A h \in V : below(h) = {g \in Range(hits) : g.rank # None /\ g.rank < h.rank}
    OBVIOUS
<1> HIDE DEF V, R, ranked, n
<1>6. /\ n \in Nat /\ DOMAIN ranked = 1 .. n /\ ranked \in Seq(V) /\ Len(ranked) = n
      /\ \A i, j \in DOMAIN ranked : ranked[i] = ranked[j] => i = j
      /\ \A x \in V : \E k \in DOMAIN ranked : ranked[k] = x
      /\ \A k \in DOMAIN ranked : Cardinality(below(ranked[k])) = k - 1
    BY <1>2, <1>3, <1>4, EnumerateProperties DEF n
<1>7. \A k \in DOMAIN ranked : ranked[k] \in V
    BY <1>6
<1> HIDE DEF below
<1>8. \A k \in 1 .. n : (ranked[k] \in Near(hits)) <=> (k - 1 < TOP_K)
    <2> TAKE k \in 1 .. n
    <2> DEFINE h == ranked[k]
               nearer == {g \in Range(hits) : g.rank # None /\ g.rank < h.rank}
    <2>1. h \in V /\ nearer = below(h)
        BY <1>5, <1>6, <1>7
    <2>2. Cardinality(nearer) = k - 1
        BY <1>6, <2>1
    <2>3. h \in Range(hits) /\ h.rank # None
        BY <2>1 DEF V
    <2>4. (h \in Near(hits)) <=> (Cardinality(nearer) < TOP_K)
        BY <2>3 DEF Near
    <2> QED
        BY <2>2, <2>4
<1>9. /\ m \in Nat /\ \A k \in 1 .. m : k \in 1 .. n
      /\ \A k \in 1 .. n : (k - 1 < TOP_K) <=> (k \in 1 .. m)
    BY <1>1, <1>6
<1>10. \A h \in Near(hits) : \E k \in 1 .. m : ranked[k] = h
    <2> TAKE h \in Near(hits)
    <2>1. h \in V
        BY DEF Near, V
    <2>2. PICK k \in 1 .. n : ranked[k] = h
        BY <1>6, <2>1
    <2> QED
        BY <1>8, <1>9, <2>2
<1> DEFINE f == [k \in 1 .. m |-> ranked[k]]
<1>11. f \in Bijection(1 .. m, Near(hits))
    BY <1>6, <1>8, <1>9, <1>10 DEF Bijection, Injection, Surjection, IsInjective
<1>12. IsFiniteSet(1 .. m) /\ Cardinality(1 .. m) = m
    BY <1>9, FS_Interval
<1>13. Cardinality(Near(hits)) = m
    BY <1>11, <1>12, FS_Bijection DEF ExistsBijection
<1>14. cosines \in Seq(Nat) /\ Len(cosines) = n /\ \A k \in 1 .. n : cosines[k] = ranked[k].cosine
    <2>1. \A k \in 1 .. n : ranked[k].cosine \in Nat
        BY <1>1, <1>6, <1>7 DEF Hit
    <2>2. n \in Nat /\ DOMAIN ranked = 1 .. n
        BY <1>6
    <2>3. cosines = [i \in 1 .. n |-> ranked[i].cosine]
        BY <2>2
    <2>4. cosines \in [1 .. n -> Nat]
        BY <2>1, <2>3
    <2> QED
        BY ONLY <2>2, <2>3, <2>4
<1> HIDE DEF cosines
<1>15. /\ usable \in Seq(Nat) /\ Len(usable) = m /\ DOMAIN usable = 1 .. m
       /\ \A k \in 1 .. m : usable[k] = ranked[k].cosine /\ usable[k] \in Nat
    <2>1. /\ usable \in Seq(Nat) /\ Len(usable) = m
          /\ \A k \in DOMAIN usable : k \in DOMAIN cosines /\ usable[k] = cosines[k]
        BY <1>1, <1>14, CutProperties
    <2> QED
        BY <1>9, <1>14, <2>1
<1> HIDE DEF usable, m
<1> DEFINE cosine == [h \in Near(hits) |-> h.cosine]
           total == Total(usable, DOMAIN usable)
<1>16. total = Total(cosine, Near(hits)) /\ total \in Nat
    <2>1. \A k \in 1 .. m : usable[k] = cosine[f[k]] /\ usable[k] \in Nat
        BY <1>8, <1>9, <1>15
    <2> HIDE DEF f, cosine
    <2> DEFINE I == 1 .. m
               N == Near(hits)
    <2>4. f \in Bijection(I, N) /\ IsFiniteSet(I) /\ \A k \in I : usable[k] = cosine[f[k]] /\ usable[k] \in Nat
        BY <1>11, <1>12, <2>1
    <2> HIDE DEF I, N
    <2>5. Total(usable, I) = Total(cosine, N)
        BY ONLY <2>4, TotalRenamed
    <2>2. Total(usable, 1 .. m) = Total(cosine, Near(hits))
        BY <2>5 DEF I, N
    <2>3. Total(usable, 1 .. m) \in Nat
        BY <1>12, <1>15, TotalNat
    <2> QED
        BY <1>15, <2>2, <2>3
<1>17. ConfidenceFrom(hits) = Level(cosines)
    BY DEF ConfidenceFrom, cosines, ranked
<1> HIDE DEF total
<1>18. /\ usable # <<>>
       /\ total >= STRONG * m \/ total >= MODERATE * m
    <2> DEFINE strong == STRONG * Len(usable)
               moderate == MODERATE * Len(usable)
               reaches == usable # <<>> /\ total >= strong
               nears == usable # <<>> /\ total >= moderate
    <2>1. Level(cosines) = CASE reaches -> "strong"
                             [] nears /\ ~reaches -> "moderate"
                             [] OTHER -> "weak"
        BY DEF Level, total, usable
    <2> HIDE DEF reaches, nears
    <2>3. Level(cosines) # "weak"
        BY <1>17
    <2>4. reaches \/ nears
        BY <2>1, <2>3
    <2> QED
        BY <1>15, <2>4 DEF strong, moderate, reaches, nears
<1>19. STRONG * m >= MODERATE * m /\ STRONG * m \in Nat /\ MODERATE * m \in Nat
    BY <1>1, <1>9
<1>20. total >= MODERATE * m
    BY <1>16, <1>18, <1>19
<1>21. Near(hits) # {}
    <2>1. m # 0
        BY <1>15, <1>18
    <2>2. 1 \in 1 .. m
        BY <1>9, <2>1
    <2> QED
        BY <1>8, <1>9, <2>2
<1> QED
    BY <1>13, <1>16, <1>20, <1>21 DEF Reliable

-----------------------------------------------------------------------------
(* What a call has in hand on its way to the report. *)

Run == [useLlm : BOOLEAN, pdf : BOOLEAN, abstract : BOOLEAN, preferences : Preference \cup {None},
        model : Nat, hits : Found \cup {<<>>}, level : {"weak", "moderate", "strong"},
        selections : Seq(Paper), selected : Seq(Paper), evidence : Seq(Evidence),
        text : Seq(Seq(Label)), asked : SUBSET {"extract", "rerank", "synthesis"},
        applied : SUBSET (Preference \cup {Default}), usedLlm : BOOLEAN]

(* Behind which nodes a call is; a warm-up is behind none.                  *)
Searched(t) == at[t] \in {"rerank", "review_fetch", "synthesis"} \/ Finished(t)
Reranked(t) == at[t] \in {"review_fetch", "synthesis"} \/ Finished(t)
Fetched(t) == at[t] = "synthesis" \/ Finished(t)

(* What it has asked of the LLM so far, and why it could.                   *)
AskedInv(t) ==
    LET r == run[t]
    IN /\ r.asked # {} => r.useLlm
       /\ "rerank" \in r.asked => r.pdf /\ Reliable(r.hits)
       /\ "synthesis" \in r.asked => r.selected # <<>>
       /\ at[t] = "new" => r.asked = {}
       /\ at[t] \in {"lookup", "wait", "build", "bind", "input", "retrieval", "rerank"} =>
            "rerank" \notin r.asked
       /\ at[t] \in {"lookup", "wait", "build", "bind", "input", "retrieval", "rerank",
                      "review_fetch", "synthesis"} => "synthesis" \notin r.asked

(* What the nodes have left in the state for the next one.                  *)
FilledInv(t) ==
    LET r == run[t]
    IN /\ Searched(t) => /\ r.hits \in Found /\ r.level = ConfidenceFrom(r.hits)
                         /\ r.applied = {PreferencesOf(t)}
       /\ Reranked(t) => /\ SelectionSound(r.selections, r.hits)
                         /\ r.level = "weak" => r.selections = <<>>
       /\ Fetched(t) => /\ SelectionSound(r.selected, r.hits)
                        /\ r.level = "weak" => r.selected = <<>>
       /\ Finished(t) => /\ EvidenceSound(r.evidence, r.selected)
                         /\ TextSound(r.text, r.evidence)
                         /\ r.level = "weak" => r.evidence = <<>> /\ r.text = <<>>

CallInv(t) == run[t] \in Run /\ AskedInv(t) /\ FilledInv(t)

ReportInv ==
    /\ at = [t \in Thread |-> at[t]] /\ run = [t \in Thread |-> run[t]]
    /\ \A t \in Thread : CallInv(t)

-----------------------------------------------------------------------------
(* How the steps preserve it. *)

LEMMA InitReportInv == PipelineInit => ReportInv
<1> SUFFICES ASSUME PipelineInit PROVE ReportInv
    OBVIOUS
<1>1. /\ at = [t \in Thread |-> "new"] /\ run = [t \in Thread |-> NoRun]
    BY DEF PipelineInit
<1>2. NoRun \in Run
    BY DEF NoRun, Run, None
<1>3. NoRun.asked = {}
    BY DEF NoRun
<1>4. \A t \in Thread : run[t] = NoRun /\ at[t] = "new"
    BY <1>1
<1>5. \A t \in Thread : CallInv(t)
    BY <1>2, <1>3, <1>4 DEF CallInv, AskedInv, FilledInv, Searched, Reranked, Fetched, Finished
<1> QED
    BY <1>1, <1>4, <1>5 DEF ReportInv

(* A step of one call leaves what the others have in hand alone. *)
LEMMA OneCall ==
    ASSUME ReportInv, NEW t \in Thread, NEW place, Goto(t, place),
           run' = [s \in Thread |-> run'[s]], \A s \in Thread \ {t} : run'[s] = run[s],
           CallInv(t)'
    PROVE  ReportInv'
<1>1. /\ at' = [s \in Thread |-> at'[s]]
      /\ \A s \in Thread \ {t} : at'[s] = at[s]
    BY DEF ReportInv, Goto
<1>2. \A s \in Thread \ {t} : CallInv(s)'
    BY <1>1 DEF ReportInv, CallInv, AskedInv, FilledInv, Searched, Reranked, Fetched, Finished,
                PreferencesOf
<1> QED
    BY <1>1, <1>2 DEF ReportInv

(* A step before the nodes, or one that fails, changes nothing it has in    *)
(* hand but the model.                                                      *)
Untouched(t) ==
    /\ run' = [s \in Thread |-> run'[s]] /\ \A s \in Thread \ {t} : run'[s] = run[s]
    /\ run'[t] \in Run
    /\ run'[t].useLlm = run[t].useLlm /\ run'[t].pdf = run[t].pdf /\ run'[t].asked = run[t].asked
    /\ run'[t].hits = run[t].hits /\ run'[t].selected = run[t].selected

LEMMA Passes ==
    ASSUME ReportInv, NEW t \in Thread, NEW place, Goto(t, place), Untouched(t),
           \/ place = "failed"
           \/ /\ at[t] \in {"lookup", "wait", "build", "bind"}
              /\ place \in {"wait", "build", "bind", "input"} \/ (place = "done" /\ t \notin Call)
    PROVE  ReportInv'
<1>1. at'[t] = place
    BY DEF ReportInv, Goto
<1>2. CallInv(t)
    BY DEF ReportInv
<1>3. AskedInv(t)'
    BY <1>1, <1>2 DEF CallInv, AskedInv, Untouched
<1>4. FilledInv(t)'
    BY <1>1 DEF FilledInv, Searched, Reranked, Fetched, Finished
<1> QED
    BY <1>3, <1>4, OneCall DEF CallInv, Untouched

LEMMA SameRun ==
    ASSUME ReportInv, NEW t \in Thread, run' = run
    PROVE  Untouched(t)
BY DEF ReportInv, CallInv, Untouched

LEMMA OtherModel ==
    ASSUME ReportInv, NEW t \in Thread, NEW m \in Nat,
           run' = [run EXCEPT ![t] = [run[t] EXCEPT !.model = m]]
    PROVE  Untouched(t)
<1>1. run[t] \in Run /\ run = [s \in Thread |-> run[s]]
    BY DEF ReportInv, CallInv
<1> DEFINE state == [run[t] EXCEPT !.model = m]
<1>2. /\ state \in Run
      /\ state.useLlm = run[t].useLlm /\ state.pdf = run[t].pdf /\ state.asked = run[t].asked
      /\ state.hits = run[t].hits /\ state.selected = run[t].selected
    BY <1>1 DEF Run
<1> HIDE DEF state
<1>3. run' = [run EXCEPT ![t] = state]
    BY DEF state
<1> QED
    BY <1>1, <1>2, <1>3 DEF Untouched

LEMMA HaveGraphPlace ==
    ASSUME NEW t \in Thread, HaveGraph(t)
    PROVE  \E place : Goto(t, place) /\ (place = "input" \/ (place = "done" /\ t \notin Call))
BY DEF HaveGraph

LEMMA CacheReportInv ==
    ASSUME CacheInv, ReportInv, NEW t \in Thread,
           Lookup(t) \/ Acquire(t) \/ LoadModel(t) \/ StoreGraph(t) \/ BuildFails(t)
    PROVE  ReportInv'
<1>1. CASE Lookup(t)
    <2>1. at[t] = "lookup" /\ run' = run /\ (HaveGraph(t) \/ Goto(t, "wait"))
        BY <1>1 DEF Lookup
    <2> QED
        BY <2>1, SameRun, HaveGraphPlace, Passes
<1>2. CASE Acquire(t)
    <2>1. at[t] = "wait" /\ run' = run /\ (HaveGraph(t) \/ Goto(t, "build"))
        BY <1>2 DEF Acquire
    <2> QED
        BY <2>1, SameRun, HaveGraphPlace, Passes
<1>3. CASE LoadModel(t)
    <2> DEFINE m == IF embedder = None THEN loads + 1 ELSE embedder
    <2>1. at[t] = "build" /\ Goto(t, "bind") /\ run' = [run EXCEPT ![t].model = m]
        BY <1>3 DEF LoadModel
    <2>2. m \in Nat
        BY DEF CacheInv, CacheTypeOK
    <2> HIDE DEF m
    <2>3. run' = [run EXCEPT ![t] = [run[t] EXCEPT !.model = m]]
        BY <2>1
    <2> QED
        BY <2>1, <2>2, <2>3, OtherModel, Passes
<1>4. CASE StoreGraph(t)
    <2>1. at[t] = "bind" /\ HaveGraph(t) /\ run' = [run EXCEPT ![t] = [run[t] EXCEPT !.model = None]]
        BY <1>4 DEF StoreGraph, Set
    <2> QED
        BY <2>1, OtherModel, HaveGraphPlace, Passes DEF None
<1>5. CASE BuildFails(t)
    <2>1. Goto(t, "failed") /\ run' = [run EXCEPT ![t] = [run[t] EXCEPT !.model = None]]
        BY <1>5 DEF BuildFails, Set
    <2> QED
        BY <2>1, OtherModel, Passes DEF None
<1> QED
    BY <1>1, <1>2, <1>3, <1>4, <1>5

(* A node fills the state of its call. *)
LEMMA Fills ==
    ASSUME ReportInv, NEW t \in Thread, NEW place, Goto(t, place), NEW state, Set(t, state)
    PROVE  /\ run' = [s \in Thread |-> run'[s]] /\ \A s \in Thread \ {t} : run'[s] = run[s]
           /\ run'[t] = state /\ at'[t] = place
BY DEF ReportInv, Goto, Set

LEMMA BeginReportInv ==
    ASSUME ReportInv, NEW t \in Thread, Begin(t)
    PROVE  ReportInv'
<1>1. PICK useLlm, pdf, abstract \in BOOLEAN, preferences \in Preference \cup {None} :
            Set(t, [run[t] EXCEPT !.useLlm = useLlm, !.pdf = pdf, !.abstract = abstract,
                                  !.preferences = preferences])
    BY Zenon DEF Begin
<1>2. at[t] = "new" /\ Goto(t, "lookup")
    BY DEF Begin
<1> DEFINE state == [run[t] EXCEPT !.useLlm = useLlm, !.pdf = pdf, !.abstract = abstract,
                                   !.preferences = preferences]
<1>3. run[t] \in Run /\ run[t].asked = {}
    BY <1>2 DEF ReportInv, CallInv, AskedInv
<1>4. state \in Run /\ state.asked = {}
    BY <1>3 DEF Run
<1>5. Set(t, state)
    BY <1>1
<1> HIDE DEF state
<1>6. /\ run' = [s \in Thread |-> run'[s]] /\ \A s \in Thread \ {t} : run'[s] = run[s]
      /\ run'[t] = state /\ at'[t] = "lookup"
    BY <1>2, <1>5, Fills
<1>7. CallInv(t)'
    BY <1>4, <1>6 DEF CallInv, AskedInv, FilledInv, Searched, Reranked, Fetched, Finished
<1> QED
    BY <1>2, <1>6, <1>7, OneCall

LEMMA InputReportInv ==
    ASSUME ReportInv, NEW t \in Thread, Input(t)
    PROVE  ReportInv'
<1> DEFINE asked == IF run[t].pdf /\ ~run[t].abstract /\ run[t].useLlm THEN {"extract"} ELSE {}
           state == [run[t] EXCEPT !.asked = asked]
<1>1. at[t] = "input" /\ Goto(t, "retrieval") /\ Set(t, state)
    BY DEF Input
<1>2. run[t] \in Run
    BY DEF ReportInv, CallInv
<1>3. asked \subseteq {"extract"} /\ (asked # {} => run[t].useLlm)
    OBVIOUS
<1> HIDE DEF asked
<1>4. state \in Run /\ state.asked = asked /\ state.useLlm = run[t].useLlm
    BY <1>2, <1>3 DEF Run
<1> HIDE DEF state
<1>5. /\ run' = [s \in Thread |-> run'[s]] /\ \A s \in Thread \ {t} : run'[s] = run[s]
      /\ run'[t] = state /\ at'[t] = "retrieval"
    BY <1>1, Fills
<1>6. AskedInv(t)'
    BY <1>3, <1>4, <1>5 DEF AskedInv
<1>7. FilledInv(t)'
    BY <1>5 DEF FilledInv, Searched, Reranked, Fetched, Finished
<1> QED
    BY <1>1, <1>4, <1>5, <1>6, <1>7, OneCall DEF CallInv

LEMMA RetrieveReportInv ==
    ASSUME ReportInv, NEW t \in Thread, Retrieve(t)
    PROVE  ReportInv'
<1>1. PICK hits \in Found :
        Set(t, [run[t] EXCEPT !.hits = hits, !.level = ConfidenceFrom(hits), !.applied = {PreferencesOf(t)}])
    BY Zenon DEF Retrieve
<1>2. at[t] = "retrieval" /\ Goto(t, "rerank")
    BY DEF Retrieve
<1>3. run[t] \in Run /\ AskedInv(t)
    BY DEF ReportInv, CallInv
<1> DEFINE level == ConfidenceFrom(hits)
           preferences == PreferencesOf(t)
           state == [run[t] EXCEPT !.hits = hits, !.level = level, !.applied = {preferences}]
<1>4. level \in {"weak", "moderate", "strong"}
    BY DEF ConfidenceFrom, Level
<1>5. preferences = IF run[t].preferences = None THEN Default ELSE run[t].preferences
    BY DEF PreferencesOf
<1>6. preferences \in Preference \cup {Default}
    BY <1>3, <1>5 DEF Run
<1>7. Set(t, state)
    BY <1>1
<1> HIDE DEF level, preferences
<1>8. /\ state \in Run /\ state.hits = hits /\ state.level = level /\ state.applied = {preferences}
      /\ state.useLlm = run[t].useLlm /\ state.pdf = run[t].pdf /\ state.asked = run[t].asked
      /\ state.selected = run[t].selected /\ state.preferences = run[t].preferences
    BY <1>3, <1>4, <1>6 DEF Run
<1> HIDE DEF state
<1>9. /\ run' = [s \in Thread |-> run'[s]] /\ \A s \in Thread \ {t} : run'[s] = run[s]
      /\ run'[t] = state /\ at'[t] = "rerank"
    BY <1>2, <1>7, Fills
<1>10. AskedInv(t)'
    BY <1>2, <1>3, <1>8, <1>9 DEF AskedInv
<1>11. PreferencesOf(t)' = preferences
    BY <1>5, <1>8, <1>9 DEF PreferencesOf
<1>12. FilledInv(t)'
    BY <1>8, <1>9, <1>11 DEF FilledInv, Searched, Reranked, Fetched, Finished, level
<1> QED
    BY <1>2, <1>8, <1>9, <1>10, <1>12, OneCall DEF CallInv

(* The three ways through llm_rerank leave a sound selection, and an empty  *)
(* one of weak hits.                                                        *)
LEMMA RerankReportInv ==
    ASSUME ReportInv, NEW t \in Thread, Rerank(t)
    PROVE  ReportInv'
<1> DEFINE r == run[t]
<1>1. at[t] = "rerank" /\ Goto(t, "review_fetch")
    BY DEF Rerank
<1>2. r \in Run /\ AskedInv(t) /\ FilledInv(t)
    BY DEF ReportInv, CallInv
<1>3. /\ r.hits \in Found /\ r.level = ConfidenceFrom(r.hits) /\ r.applied = {PreferencesOf(t)}
      /\ "synthesis" \notin r.asked /\ "rerank" \notin r.asked
      /\ r.asked # {} => r.useLlm
    BY <1>1, <1>2 DEF FilledInv, AskedInv, Searched
<1>4. RERANK_LIMIT \in Nat
    BY PipelineConstants DEF PipelineConstants
<1>5. SelectionSound(<<>>, r.hits)
    BY <1>4 DEF SelectionSound, Range
<1>6. \E selections, more :
        /\ Set(t, [r EXCEPT !.selections = selections, !.asked = r.asked \cup more, !.applied = {PreferencesOf(t)}])
        /\ SelectionSound(selections, r.hits) /\ (r.level = "weak" => selections = <<>>)
        /\ more = {} \/ (more = {"rerank"} /\ r.useLlm /\ r.pdf /\ r.level # "weak")
    <2>1. CASE Refuses(t)
        <3>1. Set(t, [r EXCEPT !.selections = <<>>])
            BY <2>1 DEF Rerank, Reranks
        <3>2. [r EXCEPT !.selections = <<>>]
                = [r EXCEPT !.selections = <<>>, !.asked = r.asked \cup {}, !.applied = {PreferencesOf(t)}]
            BY <1>2, <1>3 DEF Run
        <3> WITNESS <<>>, {}
        <3> QED
            BY <1>5, <3>1, <3>2
    <2>2. CASE ~Refuses(t) /\ ~Reranks(t)
        <3> DEFINE stub == StubSelections(r.hits)
        <3>1. Set(t, [r EXCEPT !.selections = stub]) /\ r.level # "weak"
            BY <2>2 DEF Rerank, Reranks, Refuses
        <3>3. SelectionSound(stub, r.hits)
            BY <1>3, StubSelectionSound
        <3> HIDE DEF stub
        <3>2. [r EXCEPT !.selections = stub]
                = [r EXCEPT !.selections = stub, !.asked = r.asked \cup {}, !.applied = {PreferencesOf(t)}]
            BY <1>2, <1>3 DEF Run
        <3> WITNESS stub, {}
        <3> QED
            BY <3>1, <3>2, <3>3
    <2>3. CASE Reranks(t)
        <3>1. PICK raw \in Reply :
                Set(t, [run[t] EXCEPT !.selections = ValidatedSelections(raw, run[t].hits),
                                      !.asked = @ \cup {"rerank"}, !.applied = @ \cup {PreferencesOf(t)}])
            BY <2>3, Zenon DEF Rerank, Reranks
        <3> DEFINE valid == ValidatedSelections(raw, r.hits)
        <3>2. SelectionSound(valid, r.hits)
            BY <1>3, ValidatedSelectionSound
        <3>3. Set(t, [r EXCEPT !.selections = valid, !.asked = r.asked \cup {"rerank"},
                               !.applied = {PreferencesOf(t)}])
            BY <1>2, <1>3, <3>1 DEF Run
        <3>4. r.useLlm /\ r.pdf /\ r.level # "weak"
            BY <2>3 DEF Reranks, Refuses
        <3> HIDE DEF valid
        <3> WITNESS valid, {"rerank"}
        <3> QED
            BY <3>2, <3>3, <3>4
    <2> QED
        BY <2>1, <2>2, <2>3
<1>7. PICK selections, more :
        /\ Set(t, [r EXCEPT !.selections = selections, !.asked = r.asked \cup more, !.applied = {PreferencesOf(t)}])
        /\ SelectionSound(selections, r.hits) /\ (r.level = "weak" => selections = <<>>)
        /\ more = {} \/ (more = {"rerank"} /\ r.useLlm /\ r.pdf /\ r.level # "weak")
    BY <1>6
<1> DEFINE applied == {PreferencesOf(t)}
           asked == r.asked \cup more
           state == [r EXCEPT !.selections = selections, !.asked = asked, !.applied = applied]
<1>8. Set(t, state)
    BY <1>7
<1>9. selections \in Seq(Paper) /\ applied = r.applied /\ asked \in SUBSET {"extract", "rerank", "synthesis"}
    BY <1>2, <1>3, <1>7 DEF SelectionSound, Run
<1>10. /\ "synthesis" \notin asked /\ (asked # {} => r.useLlm)
       /\ "rerank" \in asked => r.pdf /\ Reliable(r.hits)
    BY <1>3, <1>7, LevelReliable
<1> HIDE DEF asked, applied
<1>11. /\ state \in Run /\ state.selections = selections /\ state.asked = asked /\ state.applied = r.applied
       /\ state.hits = r.hits /\ state.level = r.level /\ state.preferences = r.preferences
       /\ state.useLlm = r.useLlm /\ state.pdf = r.pdf
    BY <1>2, <1>9 DEF Run
<1> HIDE DEF state
<1>12. /\ run' = [s \in Thread |-> run'[s]] /\ \A s \in Thread \ {t} : run'[s] = run[s]
       /\ run'[t] = state /\ at'[t] = "review_fetch"
    BY <1>1, <1>8, Fills
<1>13. AskedInv(t)'
    BY <1>10, <1>11, <1>12 DEF AskedInv
<1>14. PreferencesOf(t)' = PreferencesOf(t)
    BY <1>11, <1>12 DEF PreferencesOf
<1>15. FilledInv(t)'
    BY <1>3, <1>7, <1>11, <1>12, <1>14 DEF FilledInv, Searched, Reranked, Fetched, Finished
<1> QED
    BY <1>1, <1>11, <1>12, <1>13, <1>15, OneCall DEF CallInv

LEMMA ReviewFetchReportInv ==
    ASSUME ReportInv, NEW t \in Thread, ReviewFetch(t)
    PROVE  ReportInv'
<1> DEFINE r == run[t]
<1>1. at[t] = "review_fetch" /\ Goto(t, "synthesis")
    BY DEF ReviewFetch
<1>2. r \in Run /\ AskedInv(t) /\ FilledInv(t)
    BY DEF ReportInv, CallInv
<1>3. /\ r.hits \in Found /\ r.level = ConfidenceFrom(r.hits) /\ r.applied = {PreferencesOf(t)}
      /\ SelectionSound(r.selections, r.hits) /\ (r.level = "weak" => r.selections = <<>>)
      /\ "synthesis" \notin r.asked
    BY <1>1, <1>2 DEF FilledInv, AskedInv, Searched, Reranked
<1>4. PICK there \in SUBSET Paper :
        Set(t, [r EXCEPT !.selected = Kept(r.selections, {i \in DOMAIN r.selections : r.selections[i] \in there})])
    BY Zenon DEF ReviewFetch
<1> DEFINE K == {i \in DOMAIN r.selections : r.selections[i] \in there}
           selected == Kept(r.selections, K)
           state == [r EXCEPT !.selected = selected]
<1>5. K \in SUBSET DOMAIN r.selections
    OBVIOUS
<1>6. Set(t, state)
    BY <1>4
<1> HIDE DEF K
<1>7. SelectionSound(selected, r.hits)
    BY <1>3, <1>5, KeptSelectionSound
<1>8. r.level = "weak" => selected = <<>>
    <2> SUFFICES ASSUME r.level = "weak" PROVE selected = <<>>
        OBVIOUS
    <2>1. r.selections \in Seq(Paper) /\ r.selections = <<>>
        BY <1>3 DEF SelectionSound
    <2>2. selected \in Seq(Paper) /\ Len(selected) <= Len(r.selections)
        BY <1>5, <2>1, KeptProperties
    <2> HIDE DEF selected
    <2> QED
        BY <2>1, <2>2
<1>9. selected \in Seq(Paper)
    BY <1>7 DEF SelectionSound
<1> HIDE DEF selected
<1>10. /\ state \in Run /\ state.selected = selected /\ state.selections = r.selections
       /\ state.asked = r.asked /\ state.applied = r.applied
       /\ state.hits = r.hits /\ state.level = r.level /\ state.preferences = r.preferences
       /\ state.useLlm = r.useLlm /\ state.pdf = r.pdf
    BY <1>2, <1>9 DEF Run
<1> HIDE DEF state
<1>11. /\ run' = [s \in Thread |-> run'[s]] /\ \A s \in Thread \ {t} : run'[s] = run[s]
       /\ run'[t] = state /\ at'[t] = "synthesis"
    BY <1>1, <1>6, Fills
<1>12. AskedInv(t)'
    BY <1>2, <1>3, <1>10, <1>11 DEF AskedInv
<1>13. PreferencesOf(t)' = PreferencesOf(t)
    BY <1>10, <1>11 DEF PreferencesOf
<1>14. FilledInv(t)'
    BY <1>3, <1>7, <1>8, <1>10, <1>11, <1>13 DEF FilledInv, Searched, Reranked, Fetched, Finished
<1> QED
    BY <1>1, <1>10, <1>11, <1>12, <1>14, OneCall DEF CallInv

(* Without a selected paper there is nothing to cite, and without evidence  *)
(* nothing is left of a text.                                               *)
LEMMA NothingSelected ==
    ASSUME NEW evidence, EvidenceSound(evidence, <<>>), NEW text, TextSound(text, evidence)
    PROVE  evidence = <<>> /\ text = <<>>
<1>1. evidence \in Seq(Evidence) /\ \A i \in DOMAIN evidence : FALSE
    BY DEF EvidenceSound, Range
<1>2. evidence = <<>>
    BY <1>1, EmptyList
<1>3. text \in Seq(Seq(Label)) /\ LabelsOf(evidence) = {}
    BY <1>2 DEF TextSound, LabelsOf
<1>4. \A i \in DOMAIN text : FALSE
    <2> SUFFICES ASSUME NEW i \in DOMAIN text PROVE FALSE
        OBVIOUS
    <2>1. text[i] \in Seq(Label) /\ text[i] # <<>> /\ Range(text[i]) \subseteq {}
        BY <1>3 DEF TextSound
    <2>2. 1 \in DOMAIN text[i]
        BY <2>1
    <2> QED
        BY <2>1, <2>2 DEF Range
<1> QED
    BY <1>2, <1>3, <1>4, EmptyList

LEMMA SynthesizeReportInv ==
    ASSUME ReportInv, NEW t \in Thread, Synthesize(t)
    PROVE  ReportInv'
<1> DEFINE r == run[t]
           evidence == BuildEvidence(r.selected)
<1>1. at[t] = "synthesis" /\ Goto(t, "done")
    BY DEF Synthesize
<1>2. r \in Run /\ AskedInv(t) /\ FilledInv(t)
    BY DEF ReportInv, CallInv
<1>3. /\ r.hits \in Found /\ r.level = ConfidenceFrom(r.hits) /\ r.applied = {PreferencesOf(t)}
      /\ SelectionSound(r.selections, r.hits) /\ (r.level = "weak" => r.selections = <<>>)
      /\ SelectionSound(r.selected, r.hits) /\ (r.level = "weak" => r.selected = <<>>)
    BY <1>1, <1>2 DEF FilledInv, Searched, Reranked, Fetched
<1>4. EvidenceSound(evidence, r.selected)
    BY <1>2, BuildEvidenceSound DEF Run
<1>5. evidence \in Seq(Evidence)
    BY <1>4 DEF EvidenceSound
<1>6. \E draft, more :
        /\ draft \in Seq(Seq(Label))
        /\ Set(t, [r EXCEPT !.evidence = evidence, !.text = ValidateCitations(draft, evidence),
                            !.asked = @ \cup more, !.usedLlm = r.useLlm, !.applied = @ \cup {PreferencesOf(t)}])
        /\ more = {} \/ (more = {"synthesis"} /\ r.selected # <<>> /\ r.useLlm)
    <2>1. CASE r.selected = <<>>
        <3>1. Set(t, [r EXCEPT !.evidence = evidence, !.text = ValidateCitations(<<>>, evidence),
                            !.asked = @ \cup {}, !.usedLlm = r.useLlm, !.applied = @ \cup {PreferencesOf(t)}])
            BY <2>1 DEF Synthesize
        <3>2. <<>> \in Seq(Seq(Label))
            OBVIOUS
        <3> HIDE DEF evidence, r
        <3> WITNESS <<>>, {}
        <3> QED
            BY <3>1, <3>2
    <2>2. CASE r.selected # <<>> /\ ~r.useLlm
        <3> DEFINE stub == StubDraft(r.selected, evidence)
        <3>1. stub \in Seq(Seq(Label))
            BY <1>2, <1>5, StubDraftTyped DEF Run
        <3>2. Set(t, [r EXCEPT !.evidence = evidence, !.text = ValidateCitations(stub, evidence),
                            !.asked = @ \cup {}, !.usedLlm = r.useLlm, !.applied = @ \cup {PreferencesOf(t)}])
            BY <2>2 DEF Synthesize
        <3> HIDE DEF stub
        <3> WITNESS stub, {}
        <3> QED
            BY <3>1, <3>2
    <2>3. CASE r.selected # <<>> /\ r.useLlm
        <3>1. PICK draft \in Draft :
                Set(t, [r EXCEPT !.evidence = evidence, !.text = ValidateCitations(draft, evidence),
                            !.asked = @ \cup {"synthesis"}, !.usedLlm = r.useLlm,
                            !.applied = @ \cup {PreferencesOf(t)}])
            BY <2>3 DEF Synthesize
        <3>2. draft \in Seq(Seq(Label))
            BY PipelineConstants DEF PipelineConstants
        <3> WITNESS draft, {"synthesis"}
        <3> QED
            BY <2>3, <3>1, <3>2
    <2> QED
        BY <2>1, <2>2, <2>3
<1>7. PICK draft, more :
        /\ draft \in Seq(Seq(Label))
        /\ Set(t, [r EXCEPT !.evidence = evidence, !.text = ValidateCitations(draft, evidence),
                            !.asked = @ \cup more, !.usedLlm = r.useLlm, !.applied = @ \cup {PreferencesOf(t)}])
        /\ more = {} \/ (more = {"synthesis"} /\ r.selected # <<>> /\ r.useLlm)
    BY <1>6
<1> DEFINE text == ValidateCitations(draft, evidence)
           asked == r.asked \cup more
           applied == r.applied \cup {PreferencesOf(t)}
           state == [r EXCEPT !.evidence = evidence, !.text = text, !.asked = asked,
                              !.usedLlm = r.useLlm, !.applied = applied]
<1> HIDE DEF evidence
<1>8. TextSound(text, evidence)
    BY <1>7, ValidateCitationsSound
<1> HIDE DEF text
<1>9. Set(t, state)
    BY <1>2, <1>7 DEF Run, text
<1>10. /\ asked \in SUBSET {"extract", "rerank", "synthesis"} /\ applied = r.applied
       /\ asked # {} => r.useLlm
       /\ "rerank" \in asked => r.pdf /\ Reliable(r.hits)
       /\ "synthesis" \in asked => r.selected # <<>>
    BY <1>2, <1>3, <1>7 DEF AskedInv, Run
<1>11. text \in Seq(Seq(Label))
    BY <1>8 DEF TextSound
<1> HIDE DEF asked, applied
<1>12. /\ state \in Run /\ state.evidence = evidence /\ state.text = text
       /\ state.selected = r.selected /\ state.selections = r.selections
       /\ state.asked = asked /\ state.applied = r.applied
       /\ state.hits = r.hits /\ state.level = r.level /\ state.preferences = r.preferences
       /\ state.useLlm = r.useLlm /\ state.pdf = r.pdf
    BY <1>2, <1>5, <1>10, <1>11 DEF Run
<1> HIDE DEF state
<1>13. /\ run' = [s \in Thread |-> run'[s]] /\ \A s \in Thread \ {t} : run'[s] = run[s]
       /\ run'[t] = state /\ at'[t] = "done"
    BY <1>1, <1>9, Fills
<1>14. AskedInv(t)'
    BY <1>10, <1>12, <1>13 DEF AskedInv
<1>15. PreferencesOf(t)' = PreferencesOf(t)
    BY <1>12, <1>13 DEF PreferencesOf
<1>16. r.level = "weak" => evidence = <<>> /\ text = <<>>
    <2> SUFFICES ASSUME r.level = "weak" PROVE evidence = <<>> /\ text = <<>>
        OBVIOUS
    <2>1. EvidenceSound(evidence, <<>>)
        BY <1>3, <1>4
    <2> QED
        BY <1>8, <2>1, NothingSelected
<1>17. FilledInv(t)'
    BY <1>3, <1>4, <1>8, <1>12, <1>13, <1>15, <1>16 DEF FilledInv, Searched, Reranked, Fetched, Finished
<1> QED
    BY <1>1, <1>12, <1>13, <1>14, <1>17, OneCall DEF CallInv

LEMMA NextReportInv == CacheInv /\ ReportInv /\ [PipelineNext]_pipelineVars => ReportInv'
<1> SUFFICES ASSUME CacheInv, ReportInv, [PipelineNext]_pipelineVars PROVE ReportInv'
    OBVIOUS
<1>1. CASE UNCHANGED pipelineVars
    BY <1>1 DEF pipelineVars, ReportInv, CallInv, AskedInv, FilledInv, Searched, Reranked, Fetched,
                Finished, PreferencesOf
<1>2. ASSUME NEW t \in Thread, CallStep(t) PROVE ReportInv'
    <2>1. CASE NodeFails(t)
        <3>1. Goto(t, "failed") /\ run' = run
            BY <2>1 DEF NodeFails
        <3> QED
            BY <3>1, SameRun, Passes
    <2> QED
        BY <1>2, <2>1, BeginReportInv, CacheReportInv, InputReportInv, RetrieveReportInv, RerankReportInv,
           ReviewFetchReportInv, SynthesizeReportInv DEF CallStep
<1> QED
    BY <1>1, <1>2 DEF PipelineNext

(* Every reachable state of the calls satisfies what the nodes rely on.     *)
THEOREM ReportInvariance == PipelineSpec => []ReportInv
<1>1. PipelineInit => ReportInv
    BY InitReportInv
<1>2. CacheInv /\ ReportInv /\ [PipelineNext]_pipelineVars => ReportInv'
    BY NextReportInv
<1> QED
    BY <1>1, <1>2, CacheInvariance, PTL DEF PipelineSpec

LEMMA ReportFollows == ReportInv => ReportGrounded
<1> SUFFICES ASSUME ReportInv, NEW t \in Call, at[t] = "done"
             PROVE  LET r == run[t]
                    IN /\ Range(r.selected) \subseteq Range(Ids(r.hits)) \ Invented
                       /\ Len(r.selected) <= RERANK_LIMIT
                       /\ \A i, j \in DOMAIN r.selected : r.selected[i] = r.selected[j] => i = j
                       /\ \A i \in DOMAIN r.evidence : Contains(r.selected, r.evidence[i].paper)
                       /\ \A i, j \in DOMAIN r.evidence :
                            r.evidence[i].label = r.evidence[j].label => i = j
                       /\ \A i \in DOMAIN r.text :
                            r.text[i] # <<>> /\ Range(r.text[i]) \subseteq LabelsOf(r.evidence)
                       /\ r.level = "weak" => r.selected = <<>> /\ r.evidence = <<>> /\ r.text = <<>>
                       /\ r.applied = {IF r.preferences = None THEN Default ELSE r.preferences}
    BY DEF ReportGrounded
<1> DEFINE r == run[t]
<1>1. t \in Thread /\ Finished(t)
    BY DEF Thread, Finished
<1>2. r \in Run /\ FilledInv(t)
    BY <1>1 DEF ReportInv, CallInv
<1>3. /\ r.hits \in Found /\ r.applied = {PreferencesOf(t)}
      /\ SelectionSound(r.selected, r.hits)
      /\ EvidenceSound(r.evidence, r.selected) /\ TextSound(r.text, r.evidence)
      /\ r.level = "weak" => r.selected = <<>> /\ r.evidence = <<>> /\ r.text = <<>>
    BY <1>1, <1>2 DEF FilledInv, Searched, Fetched
<1>4. \A p \in Range(r.selected) : p \in Paper
    BY <1>3 DEF SelectionSound, Range
<1>5. Range(r.selected) \subseteq Range(Ids(r.hits)) \ Invented
    BY <1>3, <1>4, PipelineConstants DEF SelectionSound, PipelineConstants
<1>6. \A i \in DOMAIN r.evidence : Contains(r.selected, r.evidence[i].paper)
    <2> SUFFICES ASSUME NEW i \in DOMAIN r.evidence PROVE Contains(r.selected, r.evidence[i].paper)
        OBVIOUS
    <2>1. r.selected \in Seq(Paper) /\ r.evidence[i].paper \in Range(r.selected)
        BY <1>3 DEF EvidenceSound, SelectionSound
    <2>2. \E j \in 1 .. Len(r.selected) : r.selected[j] = r.evidence[i].paper
        BY <2>1 DEF Range
    <2> QED
        BY <2>2 DEF Contains
<1>7. r.applied = {IF r.preferences = None THEN Default ELSE r.preferences}
    BY <1>3 DEF PreferencesOf
<1> QED
    BY <1>3, <1>5, <1>6, <1>7 DEF SelectionSound, EvidenceSound, TextSound

(* Whatever the search finds, the LLM answers and the corpus loses in the   *)
(* meantime, a report is of one piece: no paper it made up, no label that   *)
(* stands for two pieces of evidence, no claim without evidence, nothing    *)
(* from weak hits, and one set of preferences throughout.                   *)
THEOREM ReportsAreGrounded == PipelineSpec => []ReportGrounded
BY ReportInvariance, ReportFollows, PTL

LEMMA SpendingFollows == ReportInv => SpendsOnlyOnReliable
<1> SUFFICES ASSUME ReportInv, NEW t \in Call
             PROVE  /\ run[t].asked # {} => run[t].useLlm
                    /\ "rerank" \in run[t].asked => run[t].pdf /\ Reliable(run[t].hits)
                    /\ "synthesis" \in run[t].asked => run[t].selected # <<>>
    BY DEF SpendsOnlyOnReliable, Reliable, Near
<1>1. AskedInv(t)
    BY DEF ReportInv, CallInv, Thread
<1> QED
    BY <1>1 DEF AskedInv

(* The LLM is asked for a selection only of hits whose TOP_K nearest are    *)
(* near enough on average, never with use_llm off, and for a summary only   *)
(* of selected papers, for every corpus and all thresholds.                 *)
THEOREM SpendsOnReliable == PipelineSpec => []SpendsOnlyOnReliable
BY ReportInvariance, SpendingFollows, PTL

-----------------------------------------------------------------------------
(* The batch of Ingest.tla that fills the corpus, for any venue, batch size *)
(* and number of stops. IngestInv is preserved action by action; the        *)
(* counting parts rest on the cardinality facts of NoteSets, the review     *)
(* parts on ReviewsOfUnion.                                                 *)

\* Sets of notes are finite, and counting them is monotone and subadditive.
LEMMA NoteSets ==
    ASSUME NEW S \in SUBSET Note
    PROVE  /\ Cardinality(S) \in Nat
           /\ \A n \in Note : n \notin S => Cardinality(S \cup {n}) = Cardinality(S) + 1
           /\ \A T \in SUBSET Note : /\ S \subseteq T => Cardinality(S) <= Cardinality(T)
                                     /\ Cardinality(S \cup T) <= Cardinality(S) + Cardinality(T)
<1>1. \A T \in SUBSET Note : IsFiniteSet(T) /\ Cardinality(T) \in Nat
    BY FS_Subset, FS_CardinalityType, IngestConstants
<1>2. \A n \in Note : n \notin S => Cardinality(S \cup {n}) = Cardinality(S) + 1
    BY <1>1, FS_AddElement
<1>3. ASSUME NEW T \in SUBSET Note, S \subseteq T
      PROVE  Cardinality(S) <= Cardinality(T)
    BY <1>1, <1>3, FS_Subset
<1>4. ASSUME NEW T \in SUBSET Note
      PROVE  Cardinality(S \cup T) <= Cardinality(S) + Cardinality(T)
  <2>1. Cardinality(S \cup T) = Cardinality(S) + Cardinality(T) - Cardinality(S \cap T)
      BY <1>1, FS_Union
  <2>2. Cardinality(S \cap T) \in Nat
      BY <1>1
  <2> QED
      BY <1>1, <2>1, <2>2
<1> QED
    BY <1>1, <1>2, <1>3, <1>4

LEMMA ReviewsOfUnion ==
    ASSUME NEW S, NEW T
    PROVE  /\ ReviewsOf(S \cup T) = ReviewsOf(S) \cup ReviewsOf(T)
           /\ S \subseteq T => ReviewsOf(S) \subseteq ReviewsOf(T)
           /\ ReviewsOf({}) = {}
    BY DEF ReviewsOf

LEMMA ReviewsOfType ==
    ASSUME NEW S \in SUBSET Note
    PROVE  ReviewsOf(S) \subseteq Review
    BY IngestConstants DEF ReviewsOf

LEMMA InitIngestInv == Init => IngestInv
<1> SUFFICES ASSUME Init PROVE IngestInv
    OBVIOUS
<1>1. Cardinality({}) = 0
    BY FS_EmptySet
<1>2. ReviewsOf({}) = {}
    BY ReviewsOfUnion
<1> QED
    BY <1>1, <1>2, IngestConstants
    DEF Init, IngestInv, TypeOK, Pc, Eligible, NotesAccountedFor, UnpointedOfBuffer,
        ShortBatchIsLast, CountersAddUp, DoneIsComplete, PointsMissingOnlyWhereTorn,
        LossIsBounded, ProcessedIsHonest

-----------------------------------------------------------------------------
(* Start and Open.                                                         *)
LEMMA OpeningIngestInv ==
    ASSUME IngestInv, Start \/ Open
    PROVE  IngestInv'
<1> USE IngestConstants
        DEF IngestInv, TypeOK, Pc, Eligible, NotesAccountedFor, UnpointedOfBuffer,
            ShortBatchIsLast, DoneIsComplete, PointsMissingOnlyWhereTorn, LossIsBounded,
            ProcessedIsHonest, CountersAddUp, Progress, dbVars
<1>1. CASE Start
    BY <1>1 DEF Start
<1>2. CASE Open
  <2>1. Cardinality({}) = 0 /\ embedded \cup {} = embedded
      BY FS_EmptySet
  <2>2. Cardinality(embedded) \in Nat
      BY NoteSets
  <2>3. unpointed = {}
      BY <1>2 DEF Open
  <2> QED
      BY <1>2, <2>1, <2>2, <2>3 DEF Open
<1> QED
    BY <1>1, <1>2

(* The loop.                                                               *)
LEMMA ScanIngestInv ==
    ASSUME IngestInv, ScanEnds \/ \E n \in Note : Scan(n)
    PROVE  IngestInv'
<1> USE IngestConstants
        DEF IngestInv, TypeOK, Pc, Eligible, NotesAccountedFor, UnpointedOfBuffer,
            ShortBatchIsLast, DoneIsComplete, PointsMissingOnlyWhereTorn, LossIsBounded,
            ProcessedIsHonest, CountersAddUp, Progress, dbVars
<1>1. CASE ScanEnds
    BY <1>1 DEF ScanEnds
<1>2. ASSUME NEW n \in Note, Scan(n), n \in doneIds \cup Bare
      PROVE  IngestInv'
    BY <1>2 DEF Scan
<1>3. ASSUME NEW n \in Note, Scan(n), n \notin doneIds \cup Bare
      PROVE  IngestInv'
  <2>1. n \notin buffer /\ n \notin embedded \cup buffer
      BY <1>3 DEF Scan
  <2>2. Cardinality(buffer \cup {n}) = Cardinality(buffer) + 1
      BY <2>1, NoteSets
  <2>3. Cardinality((embedded \cup buffer) \cup {n}) = Cardinality(embedded \cup buffer) + 1
      BY <2>1, NoteSets
  <2>4. embedded \cup (buffer \cup {n}) = (embedded \cup buffer) \cup {n}
      OBVIOUS
  <2>5. /\ Cardinality(buffer) \in Nat
        /\ Cardinality(embedded \cup buffer) \in Nat
        /\ Cardinality(doneIds) \in Nat
      BY NoteSets
  <2>6. CountersAddUp' /\ ShortBatchIsLast'
    <3>1. /\ buffer' = buffer \cup {n} /\ fetched' = fetched + 1
          /\ embedded' = embedded /\ doneIds' = doneIds
          /\ pc = "scan"
          /\ pc' = IF Cardinality(buffer') >= FLUSH_EVERY THEN "papers" ELSE "scan"
        BY <1>3 DEF Scan
    <3>2. Cardinality(buffer') = Cardinality(buffer) + 1
        BY <2>2, <3>1
    <3>3. Cardinality(embedded' \cup buffer') = Cardinality(embedded \cup buffer) + 1
        BY <2>3, <2>4, <3>1
    <3>4. Progress' = Progress + 1
        BY <2>5, <3>1
    <3> QED
        BY <2>5, <3>1, <3>2, <3>3, <3>4
  <2>7. TypeOK'
      BY <1>3, <2>2, <2>5 DEF Scan
  <2>8. NotesAccountedFor'
      BY <1>3, <2>1 DEF Scan
  <2>9. UnpointedOfBuffer'
    <3>1. unpointed = {}
        BY <1>3 DEF Scan
    <3> QED
        BY <1>3, <3>1 DEF Scan
  <2>10. /\ ReviewsOf(embedded) \subseteq loaded
         /\ DoneIsComplete /\ PointsMissingOnlyWhereTorn /\ LossIsBounded /\ ProcessedIsHonest
         /\ UNCHANGED <<dbVars, unpointed, torn, stops>>
      BY <1>3 DEF Scan
  <2>11. /\ (ReviewsOf(embedded) \subseteq loaded)'
         /\ DoneIsComplete' /\ PointsMissingOnlyWhereTorn' /\ LossIsBounded' /\ ProcessedIsHonest'
      BY <2>10
  <2> QED
      BY <2>6, <2>7, <2>8, <2>9, <2>11
<1> QED
    BY <1>1, <1>2, <1>3

(* _flush.                                                                 *)
LEMMA FlushIngestInv ==
    ASSUME IngestInv, FlushPapers \/ FlushEnds \/ \E r \in Review : FlushPoints(r)
    PROVE  IngestInv'
<1> USE IngestConstants
        DEF IngestInv, TypeOK, Pc, Eligible, NotesAccountedFor, UnpointedOfBuffer,
            ShortBatchIsLast, CountersAddUp, Progress, dbVars
<1>1. CASE FlushPapers
  <2>1. ReviewsOf(embedded \cup buffer) = ReviewsOf(embedded) \cup ReviewsOf(buffer)
      BY ReviewsOfUnion
  <2>2. ReviewsOf(buffer) \subseteq Review
      BY ReviewsOfType
  <2>3. Cardinality(embedded) <= Cardinality(embedded \cup buffer)
      BY NoteSets
  <2>4. Cardinality(embedded) \in Nat /\ Cardinality(embedded \cup buffer) \in Nat
      BY NoteSets
  <2>5. (embedded \cup buffer) \cup buffer = embedded \cup buffer
      OBVIOUS
  <2>6. ProcessedIsHonest'
    <3>1. venueStatus = "done" => embedded \cup buffer = embedded
        BY DEF DoneIsComplete
    <3>2. /\ embedded' = embedded \cup buffer
          /\ processed' = processed /\ venueStatus' = venueStatus
        BY <1>1 DEF FlushPapers
    <3>3. processed \in Nat /\ processed <= Cardinality(embedded)
        BY DEF ProcessedIsHonest
    <3>4. processed' <= Cardinality(embedded')
        BY <2>3, <2>4, <3>2, <3>3
    <3>5. venueStatus' = "done" => processed' = Cardinality(embedded')
        BY <3>1, <3>2 DEF ProcessedIsHonest
    <3> QED
        BY <3>4, <3>5 DEF ProcessedIsHonest
  <2>7. DoneIsComplete'
      BY <1>1 DEF FlushPapers, DoneIsComplete
  <2>8. PointsMissingOnlyWhereTorn'
      BY <1>1, <2>1 DEF FlushPapers, PointsMissingOnlyWhereTorn
  <2>9. LossIsBounded'
      BY <1>1 DEF FlushPapers, LossIsBounded
  <2> QED
      BY <1>1, <2>1, <2>2, <2>5, <2>6, <2>7, <2>8, <2>9 DEF FlushPapers
<1>2. CASE FlushEnds
    BY <1>2 DEF FlushEnds, DoneIsComplete, PointsMissingOnlyWhereTorn, LossIsBounded,
       ProcessedIsHonest
<1>3. ASSUME NEW r \in Review, FlushPoints(r)
      PROVE  IngestInv'
  <2>1. r \in loaded
    <3>1. ReviewsOf(buffer) \subseteq ReviewsOf(embedded)
        BY <1>3, ReviewsOfUnion DEF FlushPoints
    <3> QED
        BY <1>3, <3>1 DEF FlushPoints
  <2> QED
      BY <1>3, <2>1 DEF FlushPoints, DoneIsComplete, PointsMissingOnlyWhereTorn,
         LossIsBounded, ProcessedIsHonest
<1> QED
    BY <1>1, <1>2, <1>3

(* set_status after a flush.                                               *)
LEMMA CheckpointIngestInv ==
    ASSUME IngestInv, Checkpoint
    PROVE  IngestInv'
<1> USE IngestConstants
        DEF IngestInv, TypeOK, Pc, Eligible, NotesAccountedFor, UnpointedOfBuffer,
            ShortBatchIsLast, CountersAddUp, Progress
<1>1. Cardinality({}) = 0 /\ embedded \cup {} = embedded /\ embedded \cup buffer = embedded
    BY FS_EmptySet DEF Checkpoint
<1>2. Cardinality(embedded) \in Nat /\ Cardinality(doneIds) \in Nat /\ Cardinality(buffer) \in Nat
    BY NoteSets
<1>3. processed' = Cardinality(embedded)
    BY <1>1, <1>2 DEF Checkpoint
<1>4. DoneIsComplete'
    BY <1>1, <1>2 DEF Checkpoint, DoneIsComplete
<1>5. ProcessedIsHonest'
    BY <1>2, <1>3 DEF Checkpoint, ProcessedIsHonest
<1>6. unpointed = {} /\ ReviewsOf({}) = {}
    BY ReviewsOfUnion DEF Checkpoint
<1> QED
    BY <1>1, <1>2, <1>3, <1>4, <1>5, <1>6
    DEF Checkpoint, PointsMissingOnlyWhereTorn, LossIsBounded

(* A run that ends early.                                                  *)
LEMMA StopIngestInv ==
    ASSUME IngestInv, Fail \/ Crash
    PROVE  IngestInv'
<1> USE IngestConstants
        DEF IngestInv, TypeOK, Pc, Eligible, NotesAccountedFor, UnpointedOfBuffer,
            ShortBatchIsLast, CountersAddUp, Progress, DoneIsComplete
<1>1. Stop
    BY DEF Fail, Crash
<1>2. /\ Cardinality({}) = 0 /\ ReviewsOf({}) = {}
      /\ ReviewsOf(torn \cup buffer) = ReviewsOf(torn) \cup ReviewsOf(buffer)
    BY FS_EmptySet, ReviewsOfUnion
<1>3. /\ Cardinality(torn) \in Nat /\ Cardinality(buffer) \in Nat /\ Cardinality(embedded) \in Nat
      /\ Cardinality(torn \cup buffer) \in Nat
      /\ Cardinality(torn \cup buffer) <= Cardinality(torn) + Cardinality(buffer)
    BY NoteSets
<1>4. PointsMissingOnlyWhereTorn'
  <2>1. CASE unpointed = {}
      BY <1>1, <2>1 DEF Stop, PointsMissingOnlyWhereTorn
  <2>2. CASE unpointed # {}
      BY <1>1, <1>2, <2>2 DEF Stop, PointsMissingOnlyWhereTorn
  <2> QED
      BY <2>1, <2>2
<1>5. LossIsBounded'
  <2>1. (stops + 1) * FLUSH_EVERY = stops * FLUSH_EVERY + FLUSH_EVERY
      OBVIOUS
  <2>2. stops * FLUSH_EVERY \in Nat
      OBVIOUS
  <2> QED
      BY <1>1, <1>3, <2>1, <2>2 DEF Stop, LossIsBounded
<1>6. ProcessedIsHonest'
    BY <1>1, <1>3 DEF Fail, Crash, Stop, ProcessedIsHonest
<1> QED
    BY <1>1, <1>2, <1>4, <1>5, <1>6 DEF Fail, Crash, Stop

LEMMA NextIngestInv == IngestInv /\ [Next]_vars => IngestInv'
<1>1. ASSUME IngestInv, UNCHANGED vars
      PROVE  IngestInv'
    BY <1>1 DEF vars, dbVars, runVars, IngestInv, TypeOK, NotesAccountedFor, UnpointedOfBuffer,
       ShortBatchIsLast, CountersAddUp, Progress, DoneIsComplete,
       PointsMissingOnlyWhereTorn, LossIsBounded, ProcessedIsHonest
<1> QED
    BY <1>1, OpeningIngestInv, ScanIngestInv, FlushIngestInv, CheckpointIngestInv, StopIngestInv DEF Next, RunStep

\* Every reachable state satisfies the inductive invariant.
THEOREM IngestInvariance == Spec => []IngestInv
    BY InitIngestInv, NextIngestInv, PTL DEF Spec

-----------------------------------------------------------------------------
\* The variables keep their types for any venue and batch size.
THEOREM IngestTypeCorrect == Spec => []TypeOK
    BY IngestInvariance, PTL DEF IngestInv

\* A venue marked done, and so never touched again, has all its papers and reviews.
THEOREM DoneVenuesComplete == Spec => []DoneIsComplete
    BY IngestInvariance, PTL DEF IngestInv

\* Points are missing only for papers of a batch that a stop interrupted.
THEOREM PointsLostOnlyByTornBatches == Spec => []PointsMissingOnlyWhereTorn
    BY IngestInvariance, PTL DEF IngestInv

\* Each stop costs one batch of points at most.
THEOREM OneBatchPerStop == Spec => []LossIsBounded
    BY IngestInvariance, PTL DEF IngestInv

\* The processed column agrees with the table.
THEOREM ProgressIsHonest == Spec => []ProcessedIsHonest
    BY IngestInvariance, PTL DEF IngestInv
=============================================================================
