------------------------------ MODULE MCLibrary ------------------------------
(* The parts of the library that share no state at run time, in one         *)
(* instance: a behaviour moves one of them and leaves the others where they *)
(* start, so that their state spaces add up.                                *)
EXTENDS Migrations, Retrieval, BodyDiff, Revisions, Enrichment, Client, Retention, Timeline,
        StoryCache

-----------------------------------------------------------------------------
(* Retrieval: four papers, 1 and 3 (and 2 and 4) with one key or different  *)
(* ones, decay tables of 1000 * 0.5 ^ (age / half-life).                    *)
Entry(year, percentile, key, reviews) == [year |-> year, percentile |-> percentile, key |-> key, reviews |-> reviews]
MCCorpus == {
    <<Entry(5, 50, <<"a", "N5">>, 1), Entry(0, 50, <<"b", "N0">>, 2), Entry(5, -1, <<"a", "N5">>, 3), Entry(4, 90, <<"a", "N4">>, 1)>>,
    <<Entry(5, 50, <<"a", "N5">>, 2), Entry(0, -1, <<"b", "N0">>, 1), Entry(5, 20, <<"c", "N5">>, 0), Entry(0, 90, <<"b", "N0">>, 4)>>}
MCDecay == [h \in 2 .. 4 |-> IF h = 2 THEN [a \in 0 .. 5 |-> <<1000, 707, 500, 354, 250, 177>>[a + 1]]
    ELSE IF h = 3 THEN [a \in 0 .. 5 |-> <<1000, 794, 630, 500, 397, 315>>[a + 1]]
    ELSE [a \in 0 .. 5 |-> <<1000, 841, 707, 595, 500, 420>>[a + 1]]]
MCVectorHits == {s \in [1 .. 4 -> Doc] : Cardinality(Range(s)) = 4}
MCTextHits == {<<>>} \cup {<<d>> : d \in Doc} \cup {s \in [1 .. 2 -> Doc] : s[1] # s[2]}

-----------------------------------------------------------------------------
(* Body diff: all pairs of versions put together from a few paragraphs, in  *)
(* any order, each at most once or, with boxes, again and again.            *)
Orders(paras, n) == {s \in UNION {[1 .. k -> paras] : k \in 0 .. n} : IsInjective(s)}
AnyOrder(paras, n) == UNION {[1 .. k -> paras] : k \in 0 .. n}
FiguresOf(s) == Figures \cap UNION {ToSet(s[i]) : i \in DOMAIN s}
OldVersions(S) == {[paras |-> s, picture |-> [l \in FiguresOf(s) |-> l]] : s \in S}
NewVersions(S) == UNION {{[paras |-> s, picture |-> p] : p \in {p \in [FiguresOf(s) -> Figures] :
    \A k, l \in FiguresOf(s) : p[k] = p[l] => k = l}} : s \in S}
Pairs(S, T) == OldVersions(S) \X NewVersions(T)
Illustrated == {<<1, 2, 3>>, <<1, 4, 3>>, <<101>>, <<102>>}
Numbered == {<<101>>, <<102>>, <<103>>}
Joined == {<<1, 2, 3, 4>>, <<1, 2>>, <<3, 4>>, <<101>>}
Boxed == {<<1, 2, 3>>, <<201>>, <<202>>}
Reworked == {<<1, 2, 3, 4>>, <<5, 2, 6, 4>>, <<101>>}
MCVersions == Pairs(Orders(Illustrated, 2), Orders(Illustrated, 3))
    \cup Pairs(Orders(Numbered, 3), Orders(Numbered, 3)) \cup Pairs(Orders(Joined, 2), Orders(Joined, 3))
    \cup Pairs(Orders(Boxed \cup {<<301>>}, 2), Orders(Boxed \cup {<<301>>}, 3))
    \cup Pairs(AnyOrder(Boxed, 2), AnyOrder(Boxed, 3)) \cup Pairs(Orders(Reworked, 3), Orders(Reworked, 3))
MCBoxText == [b \in {201, 202} |-> IF b = 201 THEN <<5, 6, 7>> ELSE <<5, 6, 8>>]

-----------------------------------------------------------------------------
(* Revisions: edits of the title, of the pdf, of both, and a deletion.      *)
MCPatch == {[title |-> 1], [pdf |-> 1], [pdf |-> 2], [pdf |-> Deleted], [title |-> 2, pdf |-> 3]}

-----------------------------------------------------------------------------
(* Enrichment: one work at two venues of a year and again at one of them    *)
(* three years later, and a similar title.                                  *)
Paper(t, c, y, names, d) == [title |-> t, conf |-> c, year |-> y, names |-> names, decision |-> d]
MCPaperOf == <<Paper("t", "NeurIPS", 2020, {"a", "b"}, "accept"), Paper("t", "ICLR", 2020, {"a", "b"}, "reject"),
               Paper("u", "NeurIPS", 2021, {"a"}, "reject"), Paper("t", "ICLR", 2023, {"c"}, "accept")>>
MCSimilarTitles == {<<"t", "u">>}
Record(t, y, names) == [title |-> t, year |-> y, names |-> names]
MCPages == <<{11, 13}, {12}>>
MCRecordOf == [x \in 11 .. 13 |-> CASE x = 11 -> Record("t", 2020, {"a"}) [] x = 12 -> Record("t", 2020, {"a", "b"})
                                    [] OTHER -> Record("u", 2021, {"a"})]
MCS2ByArxiv == [x \in 11 .. 13 |-> CASE x = 11 -> 21 [] x = 13 -> 23 [] OTHER -> NoId]
S2(t, n, x) == [title |-> t, cites |-> n, arxiv |-> x]
MCS2Of == [r \in 21 .. 23 |-> CASE r = 21 -> S2("t", 5, 11) [] r = 22 -> S2("t", 9, 12)
                                [] OTHER -> S2("u", 1, NoId)]
MCQueries == <<[conf |-> "ICLR", year |-> 2021, pages |-> <<<<22>>>>],
               [conf |-> "NeurIPS", year |-> 2020, pages |-> <<<<21>>, <<22, 23>>>>]>>

-----------------------------------------------------------------------------
(* Timeline: the notes that the branches of EventsOf tell apart.            *)
Note(kinds, role) == [kinds |-> kinds, role |-> role]
MCPosting == {Note({"Official_Review"}, "reviewer"), Note({"Official_Comment"}, "author"),
              Note({"Meta_Review", "Decision"}, "chair"), Note({"Meta_Review"}, "chair")}

-----------------------------------------------------------------------------
VARIABLE moving
libraryVars == <<moving, migrationVars, retrievalVars, diffVars, revisionVars, enrichmentVars,
                 clientVars, retentionVars, timelineVars, storyVars>>

(* What stands still starts in one of its initial states. *)
LibraryInit ==
    /\ moving \in {"migrations", "retrieval", "diff", "revisions", "enrichment",
                   "client", "retention", "timeline", "story"}
    /\ MigrationsInit /\ (moving # "migrations" => db.corpus = {})
    /\ RetrievalInit /\ (moving # "retrieval" => bias = "balanced" /\ corpus = CHOOSE c \in Corpus : TRUE)
    /\ DiffInit /\ (moving # "diff" => before.paras = <<>> /\ after.paras = <<>>)
    /\ RevisionsInit /\ EnrichmentInit /\ RetentionInit /\ TimelineInit /\ StoryInit
    /\ ClientInit /\ (moving # "client" => tokens = <<>>)
(* One part takes a step, the others stand still.                           *)
Still(part, vars) == IF moving = part THEN TRUE ELSE UNCHANGED vars
LibraryNext ==
    /\ \/ moving = "migrations" /\ MigrationsNext
       \/ moving = "retrieval" /\ RetrievalNext
       \/ moving = "diff" /\ DiffNext
       \/ moving = "revisions" /\ RevisionsNext
       \/ moving = "enrichment" /\ EnrichmentNext
       \/ moving = "client" /\ ClientNext
       \/ moving = "retention" /\ RetentionNext
       \/ moving = "timeline" /\ TimelineNext
       \/ moving = "story" /\ StoryNext
    /\ UNCHANGED moving
    /\ Still("migrations", migrationVars) /\ Still("retrieval", retrievalVars)
    /\ Still("diff", diffVars) /\ Still("revisions", revisionVars)
    /\ Still("enrichment", enrichmentVars) /\ Still("client", clientVars)
    /\ Still("retention", retentionVars) /\ Still("timeline", timelineVars)
    /\ Still("story", storyVars)
(* Readers of revisions, requests of the client and story calls are alike.  *)
Alike == Permutations(Reader) \cup Permutations(Fetcher) \cup Permutations(Call)
LibrarySpec == LibraryInit /\ [][LibraryNext]_libraryVars
=============================================================================
