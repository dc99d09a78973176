----------------------------- MODULE Retrieval ------------------------------
(* hybrid_search(): two rankings of the corpus fused by reciprocal rank,    *)
(* ranked again by similarity, recency and citations, twins folded into     *)
(* one, and cut. The statements run at READ COMMITTED, so papers may vanish *)
(* between them. Shares and percentiles are in hundredths, scores, recency  *)
(* and similarities in thousandths; which papers the index and the text     *)
(* search return, and in which order, is open.                              *)
EXTENDS Integers, SequencesExt, Lists

CONSTANTS
    Doc,                \* papers
    Corpus,             \* possible corpora: doc -> [year, percentile, key, reviews]
    Bias,               \* onboarding answers, known to the table of presets or not
    Decay,              \* half-life -> years -> 1000 * 0.5 ^ (years / half-life)
    VectorHits,         \* what the vector search may rank: sequences of papers
    TextHits,           \* what the text search may rank
    RRF_K, CANDIDATE_POOL, RERANK_CANDIDATES

(* 1000 * 0.5 ^ (a / h): what five years leave is 176.8, 315.0 and 420.4   *)
(* with a half-life of 2, 3 and 4.                                          *)
Halves(h) ==
    /\ \A a \in DOMAIN Decay[h] : /\ a \in Nat /\ Decay[h][a] \in 0 .. 1000
                                  /\ a = 0 => Decay[h][a] = 1000
                                  /\ a >= 5 => Decay[h][a] <= 421
                                  /\ a >= 5 /\ h = 3 => Decay[h][a] <= 315
    /\ \A c \in Corpus : \A d, e \in Doc :
         c[d].year >= c[e].year => c[d].year - c[e].year \in DOMAIN Decay[h]

(* The pool is small beside RRF_K, as the comment above CANDIDATE_POOL asks  *)
(* of it (100 and 60 in the code): a paper in the last place of one search  *)
(* keeps a sixth of the best similarity.                                    *)
ASSUME RetrievalConstants ==
    /\ IsFiniteSet(Doc)
    /\ VectorHits \in SUBSET Seq(Doc) /\ TextHits \in SUBSET Seq(Doc)
    /\ RRF_K \in Nat /\ CANDIDATE_POOL \in Nat \ {0} /\ RERANK_CANDIDATES \in Nat \ {0}
    /\ RRF_K + CANDIDATE_POOL <= 3 * (RRF_K + 1) /\ RRF_K + CANDIDATE_POOL <= 1000
    /\ \A c \in Corpus : \A d \in Doc :
         c[d].year \in Int /\ c[d].percentile \in -1 .. 100 /\ c[d].reviews \in Nat
    /\ \A h \in 2 .. 4 : Halves(h)

VARIABLES
    stage,      \* the statement hybrid_search is at
    corpus, gone, bias,
    vectors, texts,     \* the ranked answers of the two searches
    ranked,     \* candidates after the fold and the cut
    results

retrievalVars == <<stage, corpus, gone, bias, vectors, texts, ranked, results>>

NoPercentile == -1
NEUTRAL_CITATION_PERCENTILE == 50

Weights(similarity, recency, citation, halfLife) ==
    [similarity |-> similarity, recency |-> recency, citation |-> citation, halfLife |-> halfLife]
BalancedWeights == Weights(35, 45, 20, 3)
(* Variant: the citations' share is taken from recency instead of similarity. *)
RankingWeightsOff(b) == CASE b = "recent" -> Weights(30, 50, 20, 2)
                          [] b = "cited"  -> Weights(35, 40, 25, 4)
                          [] OTHER        -> BalancedWeights
RankingWeights(b) == CASE b = "recent" -> Weights(30, 50, 20, 2)
                       [] b = "cited"  -> Weights(30, 45, 25, 4)
                       [] OTHER        -> BalancedWeights

-----------------------------------------------------------------------------
SmallerOf(m, n) == IF m < n THEN m ELSE n
LargerOf(m, n) == IF m < n THEN n ELSE m
EfSearchFor(limit) == LargerOf(limit * 4, 100)

There(d) == d \notin gone
HasReviews(d) == corpus[d].reviews > 0
Answer(hits, limit) ==
    LET shown == Kept(hits, {i \in DOMAIN hits : There(hits[i]) /\ HasReviews(hits[i])})
    IN SubSeq(shown, 1, SmallerOf(limit, Len(shown)))
VectorSearch(hits, limit) == Answer(hits, SmallerOf(limit, EfSearchFor(limit)))

RankIn(hits, d) == CHOOSE i \in DOMAIN hits : hits[i] = d
Inverse1000(rank) == 1000000 \div (RRF_K + rank)
RrfFuse(d) == (IF Contains(vectors, d) THEN Inverse1000(RankIn(vectors, d)) ELSE 0)
            + (IF Contains(texts, d) THEN Inverse1000(RankIn(texts, d)) ELSE 0)
MaxRrf == 2 * (1000000 \div (RRF_K + 1))

(* What _fetch_ranking_fields finds; a paper that is gone counts as new,    *)
(* with nothing known of its citations and with a key of its own.           *)
MaxYear == LET years == {corpus[d].year : d \in Doc \ gone}
           IN IF years = {} THEN 0 ELSE CHOOSE y \in years : \A z \in years : z <= y
YearOf(d) == IF There(d) THEN corpus[d].year ELSE MaxYear
CitationOf(d) == IF There(d) /\ corpus[d].percentile # NoPercentile
                 THEN corpus[d].percentile ELSE NEUTRAL_CITATION_PERCENTILE
KeyOf(d) == IF There(d) THEN corpus[d].key ELSE <<"missing", d>>
ReviewsOf(d) == IF There(d) THEN corpus[d].reviews ELSE 0

RecencyScore(year, maxYear, halfLife) == Decay[halfLife][LargerOf(maxYear - year, 0)]
WeightedScore(w, similarity, recency, citation) ==
    (w.similarity * similarity + w.recency * recency + w.citation * 10 * citation) \div 100
Final(d) ==
    LET w == RankingWeights(bias)
    IN WeightedScore(w, SmallerOf((RrfFuse(d) * 1000) \div MaxRrf, 1000),
                     RecencyScore(YearOf(d), MaxYear, w.halfLife), CitationOf(d))

(* sorted() is stable: ties stay in the order the hits came in. *)
Candidates == vectors \o Kept(texts, {i \in DOMAIN texts : ~Contains(vectors, texts[i])})
Before(c, d) == \/ Final(c) > Final(d)
                \/ Final(c) = Final(d) /\ RankIn(Candidates, c) < RankIn(Candidates, d)
Reranked == Enumerate(Range(Candidates), {p \in Doc \X Doc : Before(p[1], p[2])})

(* One paper per key, at the first place of its key; a later twin with more *)
(* reviews takes that place. The loop ends when the last place is taken.    *)
Placed(best, d, limit) ==
    IF Len(best) = limit THEN best
    ELSE IF \A i \in DOMAIN best : KeyOf(best[i]) # KeyOf(d) THEN Append(best, d)
    ELSE [i \in DOMAIN best |-> IF KeyOf(best[i]) = KeyOf(d) /\ ReviewsOf(d) > ReviewsOf(best[i])
                                THEN d ELSE best[i]]
(* What the loop has picked after n papers. *)
Picked(docs, limit) ==
    LET after[n \in 0 .. Len(docs)] == IF n = 0 THEN <<>> ELSE Placed(after[n - 1], docs[n], limit)
    IN after
(* Variant: cut first, fold afterwards. *)
FoldedAfterCut(docs, limit) == LET n == SmallerOf(limit, Len(docs)) IN Picked(docs, limit)[n]
PickWithoutDuplicates(docs, limit) == Picked(docs, limit)[Len(docs)]

MatchType(d) == IF Contains(vectors, d) /\ Contains(texts, d) THEN "both"
                ELSE IF Contains(vectors, d) THEN "semantic" ELSE "lexical"

-----------------------------------------------------------------------------
RetrievalInit ==
    /\ stage = "vector" /\ gone = {} /\ corpus \in Corpus /\ bias \in Bias
    /\ vectors = <<>> /\ texts = <<>> /\ ranked = <<>> /\ results = <<>>

SearchVectors ==
    /\ stage = "vector"
    /\ \E hits \in VectorHits : vectors' = VectorSearch(hits, CANDIDATE_POOL)
    /\ stage' = "text"
    /\ UNCHANGED <<corpus, gone, bias, texts, ranked, results>>

SearchText ==
    /\ stage = "text"
    /\ \E hits \in TextHits : texts' = Answer(hits, CANDIDATE_POOL)
    /\ stage' = "rank"
    /\ UNCHANGED <<corpus, gone, bias, vectors, ranked, results>>

Rank ==
    /\ stage = "rank"
    /\ ranked' = PickWithoutDuplicates(Reranked, RERANK_CANDIDATES)
    /\ stage' = "fetch"
    /\ UNCHANGED <<corpus, gone, bias, vectors, texts, results>>

FetchMetadata ==
    /\ stage = "fetch"
    /\ results' = LET there == Kept(ranked, {i \in DOMAIN ranked : There(ranked[i])})
                  IN [i \in DOMAIN there |-> [doc |-> there[i], match |-> MatchType(there[i])]]
    /\ stage' = "done"
    /\ UNCHANGED <<corpus, gone, bias, vectors, texts, ranked>>

(* The ingest or a clean-up takes a paper away between two statements. *)
Vanish ==
    /\ stage # "done" /\ gone = {}
    /\ \E d \in Doc : gone' = {d}
    /\ UNCHANGED <<stage, corpus, bias, vectors, texts, ranked, results>>

RetrievalNext == SearchVectors \/ SearchText \/ Rank \/ FetchMetadata \/ Vanish
RetrievalSpec == RetrievalInit /\ [][RetrievalNext]_retrievalVars

-----------------------------------------------------------------------------
Docs(rs) == {rs[i].doc : i \in DOMAIN rs}

(* What is handed to the selection: every paper can be shown and has        *)
(* reviews; no paper appears twice, under whatever id, while a resubmission *)
(* to another venue stays; as long as nothing vanishes, folding costs no    *)
(* place; and a twin left out has no more reviews than the one shown,       *)
(* unless it comes after the cut.                                           *)
TwinsFolded == stage = "done" =>
    /\ \A i, j \in DOMAIN results :
         corpus[results[i].doc].key = corpus[results[j].doc].key => i = j
    /\ \A d \in Docs(results) : There(d) /\ corpus[d].reviews > 0
    /\ gone = {} =>
         LET keys == {corpus[d].key : d \in Range(Candidates)}
             order == Reranked
             At(d) == RankIn(order, d)
             Cut == {d \in Range(Candidates) : \E e \in Range(Candidates) :
                       At(e) < At(d) /\ Cardinality({corpus[c].key : c \in
                           {b \in Range(Candidates) : At(b) <= At(e)}}) = RERANK_CANDIDATES}
         IN /\ Len(results) = SmallerOf(RERANK_CANDIDATES, Cardinality(keys))
            /\ \A d \in Range(Candidates) \ Cut : \E e \in Docs(results) :
                 corpus[e].key = corpus[d].key /\ corpus[e].reviews >= corpus[d].reviews

(* The requirement of the ranking: whatever the preference, of two papers   *)
(* equally cited the newest one comes before one five years older, even if  *)
(* that one is first in both searches and the new one last in only one; and *)
(* within a year the nearer paper comes first.                              *)
NewestBeatsNearest == stage \in {"fetch", "done"} /\ gone = {} =>
    \A c, d \in Range(Candidates) : CitationOf(c) = CitationOf(d) =>
        /\ corpus[c].year = MaxYear /\ corpus[d].year <= MaxYear - 5 => Before(c, d)
        /\ corpus[c].year = corpus[d].year /\ RrfFuse(c) > RrfFuse(d)
             => Final(c) >= Final(d)

=============================================================================
