------------------------------ MODULE BodyDiff ------------------------------
(* The body diff of two versions of a paper: paragraphs are aligned, what   *)
(* changed is compared word by word, text that only moved is found again,   *)
(* and the placeholders of figures, boxes and equations follow the images   *)
(* they stand for. A word is a number, a paragraph a sequence of words, a   *)
(* placeholder the paragraph <<label>>. A segment is [op, text]. Ratios     *)
(* count words where the code counts characters. Similar captions or        *)
(* signatures are the same picture.                                         *)
EXTENDS SequencesExt, Lists

CONSTANTS
    Versions,           \* pairs of versions: [paras, picture]
    Figures,            \* labels of figures, tables and algorithms
    Boxes,              \* labels (hashes) of boxes
    Equations,          \* labels of equations
    BoxText,            \* the words in a box
    MATCH_PERCENT,      \* _MOVE_MATCH_THRESHOLD
    BOX_PERCENT,        \* _BOX_MATCH_THRESHOLD
    MOVE_MIN_WORDS,
    MAX_SEGMENTS, MAX_BODY_SEGMENTS,
    MAX_PASSES

VARIABLES diffed, before, after, segs, passes,
          cut,      \* history: a cap has cut segments off
          rearranged \* history: text or a placeholder stands where it moved to
diffVars == <<diffed, before, after, segs, passes, cut, rearranged>>

Label == Figures \cup Boxes \cup Equations
IsMedia(text) == Len(text) = 1 /\ text[1] \in Label
Seg(op, text) == [op |-> op, text |-> text]
Each(op, paras) == [i \in DOMAIN paras |-> Seg(op, paras[i])]
FirstOf(s, n) == SubSeq(s, 1, IF Len(s) < n THEN Len(s) ELSE n)

(* Placeholders are paragraphs of their own, in words that no paper uses.   *)
(* Two boxes with the same content have one label.                          *)
ProseText == Seq(Nat \ Label)
MediaParagraph == {<<l>> : l \in Label}
ASSUME VersionAssumption ==
    /\ Label \subseteq Nat
    /\ Figures \cap Boxes = {} /\ Figures \cap Equations = {} /\ Boxes \cap Equations = {}
    /\ BoxText \in [Boxes -> Seq(Nat)]
    /\ \A p \in Versions : \A v \in {p[1], p[2]} : v.paras \in Seq(ProseText \cup MediaParagraph)
ASSUME CapAssumption == MAX_SEGMENTS \in Nat /\ MAX_BODY_SEGMENTS \in Nat

-----------------------------------------------------------------------------
(* difflib.SequenceMatcher: the longest common block, the earliest of them, *)
(* then the same to its left and to its right.                              *)
CommonBlocks(a, b) == {m \in (DOMAIN a) \X (DOMAIN b) \X (1 .. Len(a)) :
    /\ m[1] + m[3] <= Len(a) + 1 /\ m[2] + m[3] <= Len(b) + 1
    /\ \A k \in 0 .. m[3] - 1 : a[m[1] + k] = b[m[2] + k]}
Earlier(m, n) == \/ m[3] > n[3]
                 \/ m[3] = n[3] /\ m[1] < n[1]
                 \/ m[3] = n[3] /\ m[1] = n[1] /\ m[2] <= n[2]
LongestMatch(a, b) == CHOOSE m \in CommonBlocks(a, b) : \A n \in CommonBlocks(a, b) : Earlier(m, n)

Gap(a, b) == IF a = <<>> /\ b = <<>> THEN <<>>
             ELSE <<[equal |-> FALSE, open |-> TRUE, a |-> a, b |-> b]>>
Split(o) ==
    IF ~o.open THEN <<o>>
    ELSE IF CommonBlocks(o.a, o.b) = {} THEN <<[o EXCEPT !.open = FALSE]>>
    ELSE LET m == LongestMatch(o.a, o.b)
             same == SubSeq(o.a, m[1], m[1] + m[3] - 1)
         IN Gap(SubSeq(o.a, 1, m[1] - 1), SubSeq(o.b, 1, m[2] - 1))
            \o <<[equal |-> TRUE, open |-> FALSE, a |-> same, b |-> same]>>
            \o Gap(SubSeq(o.a, m[1] + m[3], Len(o.a)), SubSeq(o.b, m[2] + m[3], Len(o.b)))
Opcodes(a, b) ==
    LET found[n \in 0 .. Len(a)] ==
            IF n = 0 THEN Gap(a, b)
            ELSE LET codes == found[n - 1] IN FlattenSeq([i \in DOMAIN codes |-> Split(codes[i])])
    IN found[Len(a)]

Matched(a, b) == LET codes == Opcodes(a, b)
                 IN Total([i \in DOMAIN codes |-> IF codes[i].equal THEN Len(codes[i].a) ELSE 0], DOMAIN codes)
Ratio(a, b) == IF a = <<>> /\ b = <<>> THEN 1000 ELSE (2000 * Matched(a, b)) \div (Len(a) + Len(b))

(* What changed between two texts, word by word, and its cap. *)
Part(op, text) == IF text = <<>> THEN <<>> ELSE <<Seg(op, text)>>
Parts(a, b) ==
    LET codes == Opcodes(a, b)
    IN FlattenSeq([i \in DOMAIN codes |->
          IF codes[i].equal THEN <<Seg("equal", codes[i].a)>>
          ELSE Part("delete", codes[i].a) \o Part("insert", codes[i].b)])
WordDiff(a, b) == FirstOf(Parts(a, b), MAX_SEGMENTS)
TooLong(a, b) == Len(Parts(a, b)) > MAX_SEGMENTS

-----------------------------------------------------------------------------
(* A replaced stretch with placeholders in it. *)

Prose(paras) == FlattenSeq([i \in DOMAIN paras |-> IF IsMedia(paras[i]) THEN <<>> ELSE paras[i]])
WordsBefore(paras, i) == Len(Prose(SubSeq(paras, 1, i)))
(* The placeholders that stand behind the n-th word, and behind later ones. *)
MediaAt(paras, n) ==
    FlattenSeq([i \in DOMAIN paras |->
        IF IsMedia(paras[i]) /\ WordsBefore(paras, i) = n THEN <<paras[i]>> ELSE <<>>])
MediaAfter(paras, n) == FlattenSeq([k \in 1 .. Len(Prose(paras)) - n |-> MediaAt(paras, n + k)])

(* The placeholders due at the positions reached. *)
Due(st, old, new) ==
    (IF st.a >= st.aFlushed THEN Each("delete", MediaAt(old, st.a)) ELSE <<>>)
      \o (IF st.b >= st.bFlushed THEN Each("insert", MediaAt(new, st.b)) ELSE <<>>)
(* One more word of the diff: the placeholders that are due come first, and *)
(* cut the segment the word belongs to.                                     *)
PlaceWord(st, w, old, new) ==
    LET due == Due(st, old, new)
    IN [a |-> IF w.op = "insert" THEN st.a ELSE st.a + 1,
        b |-> IF w.op = "delete" THEN st.b ELSE st.b + 1,
        aFlushed |-> st.a + 1, bFlushed |-> st.b + 1, seg |-> w.seg,
        out |-> IF due = <<>> /\ st.seg = w.seg
                THEN [st.out EXCEPT ![Len(st.out)].text = Append(@, w.word)]
                ELSE st.out \o due \o <<Seg(w.op, <<w.word>>)>>]

(* Variant: the placeholders follow the text of the stretch. *)
ReplaceWithMediaLast(old, new) ==
    WordDiff(Prose(old), Prose(new)) \o Each("delete", MediaAt(old, 0) \o MediaAfter(old, 0))
                                     \o Each("insert", MediaAt(new, 0) \o MediaAfter(new, 0))

(* The words of a diff; where only placeholders have changed they moved.    *)
Unchanged(diff) == diff # <<>> /\ \A i \in DOMAIN diff : diff[i].op = "equal"
NewOp(diff, i) == IF Unchanged(diff) THEN "moved" ELSE diff[i].op
WordRow(diff, i) == [k \in DOMAIN diff[i].text |-> [seg |-> i, op |-> NewOp(diff, i), word |-> diff[i].text[k]]]
Words(diff) == FlattenSeq([i \in DOMAIN diff |-> WordRow(diff, i)])

Start == [a |-> 0, b |-> 0, aFlushed |-> 0, bFlushed |-> 0, seg |-> 0, out |-> <<>>]
PlaceWords(words, old, new) ==
    LET placed[n \in 0 .. Len(words)] ==
            IF n = 0 THEN Start ELSE PlaceWord(placed[n - 1], words[n], old, new)
    IN placed[Len(words)]
(* What is due behind the last word, and what has found no place. *)
Finished(end, old, new) ==
    end.out \o Due(end, old, new) \o Each("delete", MediaAfter(old, end.a))
                                  \o Each("insert", MediaAfter(new, end.b))
ReplaceWithMedia(old, new) ==
    Finished(PlaceWords(Words(WordDiff(Prose(old), Prose(new))), old, new), old, new)

HasMedia(o) == \E i \in DOMAIN (o.a \o o.b) : IsMedia((o.a \o o.b)[i])
Mixed(o) == ~o.equal /\ o.a # <<>> /\ o.b # <<>> /\ HasMedia(o)
Reworded(o) == /\ ~o.equal /\ ~HasMedia(o) /\ Len(o.a) = 1 /\ Len(o.b) = 1
               /\ Ratio(o.a[1], o.b[1]) >= 10 * MATCH_PERCENT

Aligned(o) ==
    CASE o.equal -> Each("equal", o.a)
      [] Mixed(o) -> ReplaceWithMedia(o.a, o.b)
      [] Reworded(o) -> WordDiff(o.a[1], o.b[1])
      [] OTHER -> Each("delete", o.a) \o Each("insert", o.b)
Align(old, new) == LET codes == Opcodes(old, new) IN FlattenSeq([i \in DOMAIN codes |-> Aligned(codes[i])])
AlignTooLong(old, new) ==
    LET codes == Opcodes(old, new)
    IN \E i \in DOMAIN codes : /\ Mixed(codes[i]) \/ Reworded(codes[i])
                               /\ TooLong(Prose(codes[i].a), Prose(codes[i].b))

-----------------------------------------------------------------------------
(* Pairs are fixed from the most similar down, each side used once. *)
Candidate == Nat \X Nat \X Nat
MoreAlike == {p \in Candidate \X Candidate :
    \/ p[1][1] > p[2][1]
    \/ p[1][1] = p[2][1] /\ p[1][2] < p[2][2]
    \/ p[1][1] = p[2][1] /\ p[1][2] = p[2][2] /\ p[1][3] < p[2][3]}
Clash(used, c) == \E u \in used : u[2] = c[2] \/ u[3] = c[3]
Greedy(candidates) ==
    LET order == Enumerate(candidates, MoreAlike)
        fixed[n \in 0 .. Len(order)] ==
            IF n = 0 THEN {}
            ELSE LET used == fixed[n - 1]
                 IN IF Clash(used, order[n]) THEN used ELSE used \cup {order[n]}
    IN fixed[Len(order)]

Substantial(ss, op) == {i \in DOMAIN ss : /\ ss[i].op = op /\ ~IsMedia(ss[i].text)
                                          /\ Len(ss[i].text) >= MOVE_MIN_WORDS}
MovedPairs(ss) ==
    Greedy({c \in {<<Ratio(ss[d].text, ss[i].text), d, i>> :
                        d \in Substantial(ss, "delete"), i \in Substantial(ss, "insert")} :
                c[1] >= 10 * MATCH_PERCENT})
Survivor(old, new) == IF old = new THEN <<Seg("moved", new)>> ELSE WordDiff(old, new)

(* Variant: the survivor stands where the text was, not where it is. *)
MatchMovedToOldPlace(ss) ==
    LET pairs == MovedPairs(ss)
    IN FlattenSeq([k \in DOMAIN ss |->
        CASE \E c \in pairs : c[3] = k -> <<>>
          [] \E c \in pairs : c[2] = k -> Survivor(ss[k].text, ss[(CHOOSE c \in pairs : c[2] = k)[3]].text)
          [] OTHER -> <<ss[k]>>])

MatchMoved(ss) ==
    LET pairs == MovedPairs(ss)
    IN FlattenSeq([k \in DOMAIN ss |->
        CASE \E c \in pairs : c[2] = k -> <<>>
          [] \E c \in pairs : c[3] = k -> Survivor(ss[(CHOOSE c \in pairs : c[3] = k)[2]].text, ss[k].text)
          [] OTHER -> <<ss[k]>>])
MoveTooLong(ss) == \E c \in MovedPairs(ss) : /\ ss[c[2]].text # ss[c[3]].text
                                            /\ TooLong(ss[c[2]].text, ss[c[3]].text)

-----------------------------------------------------------------------------
(* The images of two versions, paired. *)

LabelsIn(v, kind) == {l \in kind : <<l>> \in Range(v.paras)}

RematchMediaLabels(v, w) ==
    LET old == LabelsIn(v, Figures)
        new == LabelsIn(w, Figures)
        alike == {<<IF c[1] = c[2] THEN 1 ELSE 0, c[1], c[2]>> :
                    c \in {c \in old \X new : v.picture[c[1]] = w.picture[c[2]]}}
        sure == {<<c[2], c[3]>> : c \in Greedy(alike)}
    IN sure \cup {<<l, l>> : l \in {l \in old \cap new : \A c \in sure : c[1] # l /\ c[2] # l}}

MatchBoxes(v, w) ==
    LET old == LabelsIn(v, Boxes)
        new == LabelsIn(w, Boxes)
        alike == {<<Ratio(BoxText[c[1]], BoxText[c[2]]), c[1], c[2]>> : c \in (old \ new) \X (new \ old)}
    IN {<<c[2], c[3]>> : c \in Greedy({c \in alike : c[1] >= 10 * BOX_PERCENT})}
       \cup {<<l, l>> : l \in old \cap new}

ImagePairs == RematchMediaLabels(before, after) \cup MatchBoxes(before, after)
              \cup {<<l, l>> : l \in LabelsIn(before, Equations) \cap LabelsIn(after, Equations)}
Renumbered == {c \in ImagePairs : c[1] # c[2]}

(* Variant: placeholders in the order of the text. *)
Gone(ss) == {i \in DOMAIN ss : ss[i].op = "delete" /\ IsMedia(ss[i].text)}
DeletesAsTheyCome(ss, keys) == Enumerate(Gone(ss), Ascending)
(* Placeholders whose new number is known go first. *)
DeletesInOrder(ss, keys) ==
    LET known == {i \in Gone(ss) : ss[i].text[1] \in keys}
    IN Enumerate(known, Ascending) \o Enumerate(Gone(ss) \ known, Ascending)

Keys == {c[1] : c \in Renumbered}
Involved == Keys \cup {c[2] : c \in Renumbered}
Target(l) == IF l \in Keys THEN (CHOOSE c \in Renumbered : c[1] = l)[2] ELSE l
Loosened(given) ==
    FlattenSeq([i \in DOMAIN given |->
        IF given[i].op = "equal" /\ IsMedia(given[i].text) /\ given[i].text[1] \in Involved
        THEN <<Seg("delete", given[i].text), Seg("insert", given[i].text)>>
        ELSE <<given[i]>>])
Free(ss, taken, d) == {j \in DOMAIN ss : /\ ss[j].op = "insert" /\ ss[j].text = <<Target(ss[d].text[1])>>
                                         /\ \A t \in taken : t[2] # j}
First(ss, taken, d) == CHOOSE j \in Free(ss, taken, d) : \A k \in Free(ss, taken, d) : j <= k
Take(ss, taken, d) == IF Free(ss, taken, d) = {} THEN taken ELSE taken \cup {<<d, First(ss, taken, d)>>}
TakenInOrder(ss, order) ==
    LET taken[n \in 0 .. Len(order)] == IF n = 0 THEN {} ELSE Take(ss, taken[n - 1], order[n])
    IN taken[Len(order)]
Taken(ss) == TakenInOrder(ss, DeletesInOrder(ss, Keys))
Merge(ss, taken) ==
    FlattenSeq([i \in DOMAIN ss |->
        CASE \E t \in taken : t[1] = i -> <<>>
          [] \E t \in taken : t[2] = i -> <<Seg("moved", ss[i].text)>>
          [] OTHER -> <<ss[i]>>])
MergeMediaPlaceholders(given) == Merge(Loosened(given), Taken(Loosened(given)))

-----------------------------------------------------------------------------
DiffInit ==
    /\ diffed = "new" /\ segs = <<>> /\ passes = 0 /\ cut = FALSE /\ rearranged = FALSE
    /\ \E p \in Versions : before = p[1] /\ after = p[2]

AlignParagraphs ==
    /\ diffed = "new"
    /\ segs' = Align(before.paras, after.paras)
    /\ cut' = AlignTooLong(before.paras, after.paras)
    /\ diffed' = "moving"
    /\ UNCHANGED <<before, after, passes, rearranged>>

MovePass ==
    /\ diffed = "moving"
    /\ segs' = MatchMoved(segs)
    /\ cut' = (cut \/ MoveTooLong(segs)) /\ rearranged' = (rearranged \/ segs' # segs)
    /\ passes' = passes + 1
    /\ diffed' = IF segs' = segs \/ passes' = MAX_PASSES THEN "merging" ELSE "moving"
    /\ UNCHANGED <<before, after>>

MergePlaceholders ==
    /\ diffed = "merging"
    /\ \E merged \in {MergeMediaPlaceholders(segs)} :
          /\ segs' = FirstOf(merged, MAX_BODY_SEGMENTS)
          /\ cut' = (cut \/ Len(merged) > MAX_BODY_SEGMENTS)
    /\ rearranged' = (rearranged \/ Taken(Loosened(segs)) # {})
    /\ diffed' = "done"
    /\ UNCHANGED <<before, after, passes>>

DiffNext == AlignParagraphs \/ MovePass \/ MergePlaceholders
DiffSpec == DiffInit /\ [][DiffNext]_diffVars

-----------------------------------------------------------------------------
(* The text that segments of some kinds make. *)
Text(ss, ops) == FlattenSeq([i \in DOMAIN ss |-> IF ss[i].op \in ops THEN ss[i].text ELSE <<>>])

(* "v3를 볼 때는 v3 원문과 자리 하나까지 완전히 같아야 한다": equal, insert *)
(* and moved segments in their order are the new version, word for word and *)
(* placeholder for placeholder, at every stage of the diff.                 *)
AfterIsExact == diffed # "new" => Text(segs, {"equal", "insert", "moved"}) = FlattenSeq(after.paras)

(* All segments but the inserted ones, in their order, are the old version, *)
(* until something is shown at the place it has moved to.                   *)
OldText(ss) == Text(ss, {"equal", "delete", "moved"})
BeforeInOrder == diffed # "new" /\ ~rearranged => OldText(segs) = FlattenSeq(before.paras)

(* Nothing of the old version is lost or shown twice: every word of it is   *)
(* in one equal, deleted or moved segment, a moved placeholder under the    *)
(* new number of its image.                                                 *)
BeforeIsWhole == diffed # "new" =>
    LET old == FlattenSeq(before.paras)
        shown == Text(segs, {"equal", "moved"})
        gone == Text(segs, {"delete"})
        words == Range(old) \cup Range(shown) \cup Range(gone)
        newName == [x \in words |-> IF diffed = "done" THEN Target(x) ELSE x]
        Named(x) == {w \in words : newName[w] = newName[x]}
    IN \A x \in words : Count(Named(x), old) = Count({newName[x]}, shown) + Count(Named(x), gone)

(* The body and the image list tell the same story: one placeholder of a    *)
(* pair of images is shown deleted or inserted only if its side has more of *)
(* them, also when the numbers go round or a freed number is reused, and    *)
(* the move to a new number is shown.                                       *)
PicturesPaired == diffed = "done" =>
    \A c \in ImagePairs :
       LET inOld == Count({c[1]}, FlattenSeq(before.paras))
           inNew == Count({c[2]}, FlattenSeq(after.paras))
       IN /\ Seg("delete", <<c[1]>>) \in Range(segs) => inOld > inNew
          /\ Seg("insert", <<c[2]>>) \in Range(segs) => inNew > inOld
          /\ c[1] # c[2] => Seg("moved", <<c[2]>>) \in Range(segs)

(* The body diff of two versions reads as the new version, and shows all of *)
(* the old one: in its order too if nothing has moved, and otherwise each   *)
(* word once, moved text where it is now; unless a cap has cut it.          *)
DiffFaithful == ~cut => AfterIsExact /\ BeforeInOrder /\ BeforeIsWhole /\ PicturesPaired

(* The promise to the clients: the old text is what the segments of a       *)
(* finished diff make without the inserted ones, placeholders aside.        *)
Unlabelled(text) == SelectSeq(text, LAMBDA w : w \notin Label)
OldTextReadsBack == diffed = "done" /\ ~cut =>
    Unlabelled(OldText(segs)) = Unlabelled(FlattenSeq(before.paras))
=============================================================================
