----------------------------- MODULE Enrichment -----------------------------
(* run_enrichment: the arXiv harvest with its checkpoint, the arXiv match,  *)
(* the two Semantic Scholar steps, the links and the citation percentile,   *)
(* one transaction a step, over a corpus that grows; the run may be stopped *)
(* anywhere, also inside a write to its files, and is started again from    *)
(* the beginning.                                                           *)
EXTENDS Resubmission

CONSTANTS
    FirstPapers,    \* the corpus before the first run
    Pages,          \* pages of the harvest: sequence of sets of record ids
    RecordOf,       \* arXiv record -> [title, year, names]
    S2ByArxiv,      \* arXiv record -> what /paper/batch answers, or NoId
    Queries,        \* /paper/search/bulk per conference, year and alias:
                    \*   [conf, year, pages], a page a sequence of S2 papers
    S2Of,           \* S2 paper -> [title, cites, arxiv]
    MAX_YEARS_AFTER, MAX_CONSECUTIVE_FAILURES,
    MaxFaults       \* stops of the batch and failures of the search

VARIABLES
    papers,         \* the ids in papers
    arxiv, s2, cites, pct,  \* their columns
    links,          \* submission_links
    cache, page,    \* the records in arxiv_meta.jsonl.gz, and the pages
                    \* that arxiv_harvest.json has as done
    disk,           \* of these files: "cache" (it exists), "torn cache" (a
                    \* gzip member without its end), "torn checkpoint"
    batch,          \* the run: where it is and what it holds in memory
    faults,
    clean,          \* history: no run has skipped an unfinished harvest
    settled         \* history: a run has completed over the present corpus
enrichmentVars == <<papers, arxiv, s2, cites, pct, links, cache, page, disk, batch, faults, clean, settled>>

NoCount == -1

ASSUME FirstPapersKnown == FirstPapers \subseteq DOMAIN PaperOf
ASSUME SourcesKnown ==
    /\ Pages \in Seq(SUBSET DOMAIN RecordOf) /\ NoId \notin DOMAIN S2Of
    /\ Queries \in Seq([conf : STRING, year : Nat, pages : Seq(Seq(DOMAIN S2Of))])

columns == <<arxiv, s2, cites, pct>>
files == <<cache, page, disk>>
history == <<clean, settled>>
Idle == [at |-> "idle", pending |-> {}, asks |-> {}, query |-> 1, part |-> 1, failed |-> 0,
         base |-> {}, snapshot |-> {}, seen |-> arxiv]

EnrichmentInit ==
    /\ papers = FirstPapers
    /\ arxiv = [p \in DOMAIN PaperOf |-> NoId] /\ s2 = [p \in DOMAIN PaperOf |-> NoId]
    /\ cites = [p \in DOMAIN PaperOf |-> NoCount] /\ pct = [p \in DOMAIN PaperOf |-> NoCount]
    /\ links = {} /\ cache = {} /\ page = 0 /\ disk = {}
    /\ batch = Idle /\ faults = 0 /\ clean = TRUE /\ settled = FALSE

Step(from, fields) ==
    /\ batch.at = from
    /\ batch' = [f \in DOMAIN batch |-> IF f \in DOMAIN fields THEN fields[f] ELSE batch[f]]
Goto(to) == [at |-> to]

-----------------------------------------------------------------------------
(* arxiv_matcher.choose: the viable record with the most surnames in common *)
(* unless another has as many.                                              *)
Overlap(p, x) == Cardinality(PaperOf[p].names \cap RecordOf[x].names)
Viable(p, records) == {x \in records :
    /\ RecordOf[x].title = PaperOf[p].title
    /\ RecordOf[x].year <= PaperOf[p].year + MAX_YEARS_AFTER
    /\ PaperOf[p].names # {} /\ RecordOf[x].names # {} => Overlap(p, x) > 0}
Choice(p, records) ==
    LET best == {x \in Viable(p, records) :
                   \A y \in Viable(p, records) : Overlap(p, y) <= Overlap(p, x)}
    IN IF Cardinality(best) = 1 THEN CHOOSE x \in best : TRUE ELSE NoId

(* cume_dist over the year, in hundredths. *)
Percentile(ids, count) == [p \in DOMAIN PaperOf |->
    IF p \notin ids \/ count[p] = NoCount THEN NoCount
    ELSE LET year == {q \in ids : PaperOf[q].year = PaperOf[p].year /\ count[q] # NoCount}
         IN (100 * Cardinality({q \in year : count[q] <= count[p]})) \div Cardinality(year)]

-----------------------------------------------------------------------------
(* --skip-harvest goes straight to the match, but reads the checkpoint too; *)
(* one that is not JSON ends every run ("unreadable").                      *)
StartBatch ==
    /\ \E from \in {"idle", "unreadable"} :
        \/ /\ "torn checkpoint" \notin disk
           /\ \/ Step(from, Goto("harvest")) /\ clean' = clean
              \/ Step(from, Goto("match")) /\ clean' = (clean /\ page = Len(Pages))
        \/ "torn checkpoint" \in disk /\ Step(from, Goto("unreadable")) /\ clean' = clean
    /\ settled' = FALSE
    /\ UNCHANGED <<papers, columns, links, files, faults>>

HarvestDone ==
    /\ page = Len(Pages) /\ Step("harvest", Goto("match"))
    /\ UNCHANGED <<papers, columns, links, files, faults, history>>
HarvestPage ==
    /\ page < Len(Pages) /\ Step("harvest", Goto("checkpoint"))
    /\ cache' = cache \cup Pages[page + 1] /\ disk' = disk \cup {"cache"}
    /\ UNCHANGED <<papers, columns, links, page, faults, history>>
SaveCheckpoint ==
    /\ Step("checkpoint", Goto("harvest"))
    /\ page' = page + 1
    /\ UNCHANGED <<papers, columns, links, cache, disk, faults, history>>

(* A stop inside the append of a page: an interrupt still closes the gzip   *)
(* member after some of the records, a kill leaves it without its end.      *)
StopInAppend ==
    /\ page < Len(Pages) /\ batch.at = "harvest" /\ batch' = Idle
    /\ faults < MaxFaults /\ faults' = faults + 1
    /\ \/ \E rows \in SUBSET Pages[page + 1] : cache' = cache \cup rows /\ disk' = disk \cup {"cache"}
       \/ disk' = disk \cup {"cache", "torn cache"} /\ UNCHANGED cache
    /\ UNCHANGED <<papers, columns, links, page, history>>
(* A stop inside write_text, which has emptied the file. *)
StopInSave ==
    /\ batch.at = "checkpoint" /\ batch' = Idle
    /\ faults < MaxFaults /\ faults' = faults + 1
    /\ disk' = disk \cup {"torn checkpoint"}
    /\ UNCHANGED <<papers, columns, links, cache, page, history>>

(* Without a cache file the run ends, and with a torn one; arxiv_id is      *)
(* filled where it is NULL.                                                 *)
MatchArxiv ==
    /\ \/ "cache" \notin disk /\ Step("match", Idle) /\ UNCHANGED arxiv
       \/ "torn cache" \in disk /\ Step("match", Goto("unreadable")) /\ UNCHANGED arxiv
       \/ /\ "cache" \in disk /\ "torn cache" \notin disk
          /\ Step("match", [at |-> "byArxiv", base |-> papers])
          /\ arxiv' = [p \in DOMAIN PaperOf |-> IF p \in papers /\ arxiv[p] = NoId
                                                THEN Choice(p, cache) ELSE arxiv[p]]
    /\ UNCHANGED <<papers, s2, cites, pct, links, files, faults, history>>

ApplyPapers(found) ==
    /\ s2' = [p \in DOMAIN PaperOf |-> IF p \in DOMAIN found THEN found[p] ELSE s2[p]]
    /\ cites' = [p \in DOMAIN PaperOf |-> IF p \in DOMAIN found THEN S2Of[found[p]].cites ELSE cites[p]]

EnrichByArxiv ==
    /\ Step("byArxiv", Goto("pending"))
    /\ LET targets == {p \in papers : arxiv[p] # NoId /\ s2[p] = NoId /\ S2ByArxiv[arxiv[p]] # NoId}
       IN ApplyPapers([p \in targets |-> S2ByArxiv[arxiv[p]]])
    /\ UNCHANGED <<papers, arxiv, pct, links, files, faults, history>>

(* Per conference the years of the papers to look for, with one to spare.   *)
Slices(missing) ==
    {i \in DOMAIN Queries : \E p, q \in missing :
        /\ PaperOf[p].conf = Queries[i].conf /\ PaperOf[q].conf = Queries[i].conf
        /\ PaperOf[p].year - 1 <= Queries[i].year /\ Queries[i].year <= PaperOf[q].year + 1}
Ask(missing) == Step("pending", [at |-> "byVenue", query |-> 1, part |-> 1, failed |-> 0,
    pending |-> missing, asks |-> Slices(missing)])
(* Variant: only papers without an arXiv id are looked up by title. *)
PendingByConfNoArxiv ==
    /\ Ask({p \in papers : s2[p] = NoId /\ arxiv[p] = NoId})
    /\ UNCHANGED <<papers, columns, links, files, faults, history>>
PendingByConf ==
    /\ Ask({p \in papers : s2[p] = NoId})
    /\ UNCHANGED <<papers, columns, links, files, faults, history>>

Query == Queries[batch.query]
Asked == batch.query \in batch.asks
(* Where a page has records with the title of a paper. *)
Titled(p, records) == {k \in DOMAIN records : S2Of[records[k]].title = PaperOf[p].title}
Found(p, records) == records[Min(Titled(p, records))]
(* One page: the first record of a title takes all papers of that title and *)
(* conference. The code skips the rest of a year when nothing is left.      *)
EnrichByVenuePage ==
    /\ Asked /\ batch.part <= Len(Query.pages)
    /\ LET records == Query.pages[batch.part]
           hits == {p \in batch.pending : PaperOf[p].conf = Query.conf /\ Titled(p, records) # {}}
       IN /\ Step("byVenue", [part |-> batch.part + 1, pending |-> batch.pending \ hits])
          /\ ApplyPapers([p \in hits |-> Found(p, records)])
          /\ arxiv' = [p \in DOMAIN PaperOf |-> IF p \in hits /\ arxiv[p] = NoId
                                                THEN S2Of[Found(p, records)].arxiv ELSE arxiv[p]]
    /\ UNCHANGED <<papers, pct, links, files, faults, history>>
NextQuery ==
    /\ batch.query <= Len(Queries) /\ (Asked => batch.part > Len(Query.pages))
    /\ Step("byVenue", [query |-> batch.query + 1, part |-> 1, failed |-> IF Asked THEN 0 ELSE batch.failed])
    /\ UNCHANGED <<papers, columns, links, files, faults, history>>
(* The retries of a page are used up. *)
SearchFails ==
    /\ Asked /\ batch.part <= Len(Query.pages)
    /\ Step("byVenue", [query |-> batch.query + 1, part |-> 1, failed |-> batch.failed + 1,
            at |-> IF batch.failed + 1 >= MAX_CONSECUTIVE_FAILURES THEN "link" ELSE "byVenue",
            base |-> {}])
    /\ faults < MaxFaults /\ faults' = faults + 1
    /\ UNCHANGED <<papers, columns, links, files, history>>
EnrichedByVenue ==
    /\ batch.query > Len(Queries) /\ Step("byVenue", Goto("link"))
    /\ UNCHANGED <<papers, columns, links, files, faults, history>>

FetchPapers ==
    /\ Step("link", [at |-> "relink", snapshot |-> papers, seen |-> arxiv])
    /\ UNCHANGED <<papers, columns, links, files, faults, history>>
(* The similar pairs are read later than the papers: a pair with a paper    *)
(* that came in between raises KeyError in by_id.                           *)
Surprise == \E p, q \in papers : /\ p < q /\ ~{p, q} \subseteq batch.snapshot
                                 /\ DifferentSubmission(p, q) /\ (Fuzzy(p, q) \/ Fuzzy(q, p))
RunLinking ==
    /\ \/ Surprise /\ Step("relink", Idle) /\ UNCHANGED links
       \/ /\ ~Surprise /\ Step("relink", Goto("percentile"))
          /\ links' = FindLinks(batch.snapshot, batch.seen)
    /\ UNCHANGED <<papers, columns, files, faults, history>>

RefreshPercentiles ==
    /\ Step("percentile", Idle)
    /\ pct' = Percentile(papers, cites)
    /\ settled' = (batch.base = papers)
    /\ UNCHANGED <<papers, arxiv, s2, cites, links, files, faults, clean>>

StopBatch ==
    /\ batch.at \notin {"idle", "unreadable"} /\ batch' = Idle
    /\ faults < MaxFaults /\ faults' = faults + 1
    /\ UNCHANGED <<papers, columns, links, files, history>>

IngestPaper ==
    /\ \E p \in DOMAIN PaperOf \ papers : papers' = papers \cup {p}
    /\ settled' = FALSE
    /\ UNCHANGED <<columns, links, files, batch, faults, clean>>

EnrichmentNext ==
    \/ StartBatch \/ HarvestDone \/ HarvestPage \/ SaveCheckpoint \/ StopInAppend \/ StopInSave
    \/ MatchArxiv \/ EnrichByArxiv
    \/ PendingByConf \/ EnrichByVenuePage \/ NextQuery \/ SearchFails \/ EnrichedByVenue
    \/ FetchPapers \/ RunLinking \/ RefreshPercentiles \/ StopBatch \/ IngestPaper

EnrichmentSpec == EnrichmentInit /\ [][EnrichmentNext]_enrichmentVars

-----------------------------------------------------------------------------
(* What a paper gets from sources that answer all that is asked.            *)
InCache(p) == Choice(p, UNION Range(Pages))
ByArxiv(p) == IF InCache(p) = NoId THEN NoId ELSE S2ByArxiv[InCache(p)]
(* The pages of a search that name a paper, and the record the search ends  *)
(* with for it.                                                             *)
Naming(p, i) == {j \in DOMAIN Queries[i].pages :
                    PaperOf[p].conf = Queries[i].conf /\ Titled(p, Queries[i].pages[j]) # {}}
NamedBy(p, i) == Found(p, Queries[i].pages[Min(Naming(p, i))])
ByVenue(p) == LET naming == {i \in DOMAIN Queries : Naming(p, i) # {}}
              IN IF naming = {} THEN NoId ELSE NamedBy(p, Min(naming))
Undisturbed(p) ==
    LET r == IF ByArxiv(p) # NoId THEN ByArxiv(p) ELSE ByVenue(p)
    IN [s2 |-> r, arxiv |-> IF InCache(p) = NoId /\ r # NoId THEN S2Of[r].arxiv ELSE InCache(p),
        cites |-> IF r = NoId THEN NoCount ELSE S2Of[r].cites]

(* The S2 papers that a source gives for a paper. *)
SourcesOf(p) == ({ByArxiv(p)} \cup {NamedBy(p, i) : i \in {i \in DOMAIN Queries : Naming(p, i) # {}}})
                    \ {NoId}
(* The sources give one, with the arXiv id of the cache, and the searches   *)
(* that name the paper are those of the years next to its own.              *)
SourcesAgreeOn(p) ==
    /\ \A r, r2 \in SourcesOf(p) : r = r2
    /\ \A r \in SourcesOf(p) : InCache(p) # NoId => S2Of[r].arxiv \in {NoId, InCache(p)}
    /\ \A i \in DOMAIN Queries : Naming(p, i) # {} =>
        PaperOf[p].year - 1 <= Queries[i].year /\ Queries[i].year <= PaperOf[p].year + 1
(* A paper of which no source has more to say: its S2 paper comes from one  *)
(* of them, or none that is asked for the papers left over has any.         *)
Complete(p) ==
    LET known == IF s2[p] = NoId THEN NoId ELSE S2Of[s2[p]].arxiv
    IN /\ s2[p] = NoId => /\ ByArxiv(p) = NoId
                          /\ \A i \in Slices({q \in papers : s2[q] = NoId}) : Naming(p, i) = {}
       /\ s2[p] # NoId => s2[p] \in SourcesOf(p)
       /\ cites[p] = IF s2[p] = NoId THEN NoCount ELSE S2Of[s2[p]].cites
       /\ arxiv[p] \in {InCache(p), known}
       /\ arxiv[p] = NoId => InCache(p) = NoId /\ known = NoId

(* What stops leave behind is made good by the next run that ends: with no  *)
(* search given up and no paper added since its match, and if no run has    *)
(* skipped an unfinished harvest, no source has more to say of any paper,   *)
(* a paper on which the sources agree has the columns of one undisturbed    *)
(* run, and the links and the percentiles are those of these columns. (A    *)
(* run need not end: CarriesOn.)                                            *)
AsIfUninterrupted == settled /\ clean =>
    /\ \A p \in papers : Complete(p) /\ (SourcesAgreeOn(p) =>
            [s2 |-> s2[p], arxiv |-> arxiv[p], cites |-> cites[p]] = Undisturbed(p))
    /\ links = FindLinks(papers, arxiv)
    /\ pct = Percentile(papers, cites)

(* "Every step is idempotent: cut off anywhere, run it again and it carries *)
(* on": no run meets a file of the harvest that a stop has left unreadable. *)
CarriesOn == batch.at # "unreadable"

PlaceOf(q, stops) == CHOOSE i \in DOMAIN stops : stops[i] = q
Chronological(p) ==
    LET stops == Stops(links, p)
    IN /\ \A e \in CollectEdges(links, p) : PlaceOf(e[1], stops) < PlaceOf(e[2], stops)
       /\ \A i, j \in DOMAIN stops : i < j => PaperOf[stops[i]].year <= PaperOf[stops[j]].year
       /\ Len(stops) < MAX_STOPS => \A i \in DOMAIN stops : Stops(links, stops[i]) = stops

(* The journey of a linked paper is told in the order things happened, also *)
(* within a year and for papers linked only through others: every link goes *)
(* forward in time, linked stops stand in the order of their link, years    *)
(* never go back, and the papers of a complete journey have the same one.   *)
JourneyChronological ==
    /\ \A l \in links : VenueSortKey(l.pair[1]) < VenueSortKey(l.pair[2])
    /\ \A p \in UNION {{l.pair[1], l.pair[2]} : l \in links} : Chronological(p)
=============================================================================
