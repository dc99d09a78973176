---------------------------- MODULE Resubmission ----------------------------
(* The links between the submissions of one work and the journey that is    *)
(* read from them: submission_linker.find_links and query/journey. A paper  *)
(* is an id with fixed facts; a decision is accept or reject.               *)
EXTENDS Integers, SequencesExt, Lists

CONSTANTS
    PaperOf,        \* id -> [title, conf, year, names, decision]
    SimilarTitles,  \* pairs of titles above TITLE_SIM_THRESHOLD
    MAX_STOPS

NoId == 0

(* The corpus has two conferences. *)
ASSUME ResubmissionConstants ==
    /\ DOMAIN PaperOf \subseteq Nat \ {NoId} /\ IsFiniteSet(DOMAIN PaperOf)
    /\ \A p \in DOMAIN PaperOf : PaperOf[p].year \in Nat /\ PaperOf[p].conf \in {"ICLR", "NeurIPS"}
    /\ MAX_STOPS \in Nat

(* ICLR announces in the first half of a year, NeurIPS in the second. *)
VenueSortKey(p) == 2 * PaperOf[p].year + (IF PaperOf[p].conf = "ICLR" THEN 0 ELSE 1)
DifferentSubmission(p, q) == \/ PaperOf[p].conf # PaperOf[q].conf
                             \/ PaperOf[p].year # PaperOf[q].year
(* Variant: by year only, a tie in the order of the rows. *)
InOrderOfYear(p, q) == IF PaperOf[p].year <= PaperOf[q].year THEN <<p, q>> ELSE <<q, p>>
InOrder(p, q) == IF VenueSortKey(p) <= VenueSortKey(q) THEN <<p, q>> ELSE <<q, p>>

(* Jaccard >= 0.5 of two sets of which none is empty. *)
SharedAuthors(p, q) ==
    LET a == PaperOf[p].names
        b == PaperOf[q].names
    IN a # {} /\ b # {} /\ 2 * Cardinality(a \cap b) >= Cardinality(a \cup b)
Fuzzy(p, q) ==
    /\ \/ PaperOf[p].title = PaperOf[q].title
       \/ <<PaperOf[p].title, PaperOf[q].title>> \in SimilarTitles
    /\ SharedAuthors(p, q)

(* The strongest ground of a pair, or NoId. *)
Method(p, q, arxiv) ==
    CASE arxiv[p] # NoId /\ arxiv[p] = arxiv[q] -> "arxiv_id"
      [] ~(arxiv[p] # NoId /\ arxiv[p] = arxiv[q]) /\ PaperOf[p].title = PaperOf[q].title -> "title_exact"
      [] OTHER -> IF Fuzzy(p, q) \/ Fuzzy(q, p) THEN "title_author_fuzzy" ELSE "none"

FindLinks(ids, arxiv) ==
    {[pair |-> InOrder(x[1], x[2]), method |-> Method(x[1], x[2], arxiv)] :
        x \in {x \in ids \X ids : /\ x[1] < x[2] /\ DifferentSubmission(x[1], x[2])
                                  /\ Method(x[1], x[2], arxiv) # "none"}}

-----------------------------------------------------------------------------
(* The journey of a paper: hop by hop in both directions, until MAX_STOPS   *)
(* papers are seen; every hop but the last sees another one.                *)
Hop(links, s) ==
    IF s.frontier = {} \/ Cardinality(s.seen) >= MAX_STOPS THEN s
    ELSE LET rows == {l.pair : l \in {l \in links : {l.pair[1], l.pair[2]} \cap s.frontier # {}}}
             reached == UNION {{e[1], e[2]} : e \in rows}
         IN [seen |-> s.seen \cup reached, edges |-> s.edges \cup rows, frontier |-> reached \ s.seen]
Hops(links, p) ==
    LET hops[n \in 0 .. MAX_STOPS] ==
            IF n = 0 THEN [seen |-> {p}, edges |-> {}, frontier |-> {p}] ELSE Hop(links, hops[n - 1])
    IN hops
CollectEdges(links, p) == Hops(links, p)[MAX_STOPS].edges

Sooner(p, q) == \/ PaperOf[p].year < PaperOf[q].year
                \/ PaperOf[p].year = PaperOf[q].year /\ p <= q
BySooner(S) == {x \in S \X S : Sooner(x[1], x[2]) /\ x[1] # x[2]}

(* Topological, the earliest year first; what a cycle leaves comes last.    *)
Ready(left, edges) == {p \in left : \A e \in edges : e[2] = p => e[1] \notin left}
PutNext(S, edges, done) ==
    LET ready == Ready(S \ Range(done), edges)
    IN IF ready = {} THEN done
       ELSE Append(done, CHOOSE p \in ready : \A q \in ready : Sooner(p, q))
Arranged(S, edges) ==
    LET ordered[n \in 0 .. Cardinality(S)] ==
            IF n = 0 THEN <<>> ELSE PutNext(S, edges, ordered[n - 1])
    IN ordered
Sorted(S, edges) ==
    LET ordered == Arranged(S, edges)[Cardinality(S)]
        leftover == S \ Range(ordered)
    IN ordered \o Enumerate(leftover, BySooner(leftover))

Stops(links, p) ==
    LET edges == CollectEdges(links, p)
    IN Sorted({p} \cup UNION {{e[1], e[2]} : e \in edges}, edges)

Outcome(stops) ==
    LET Rejected(i) == PaperOf[stops[i]].decision = "reject"
        n == Len(stops)
    IN CASE n < 2 -> "single"
         [] n >= 2 /\ ~Rejected(n) /\ \E i \in 1 .. n - 1 : Rejected(i) -> "improved"
         [] n >= 2 /\ \A i \in 1 .. n : Rejected(i) -> "still_rejected"
         [] OTHER -> "mixed"
=============================================================================
