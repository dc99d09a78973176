--------------------------- MODULE BodyDiffProofs ---------------------------
(* The body diff of BodyDiff.tla shows both versions, for any versions,     *)
(* labels, thresholds and caps. In order: the two sides of a list of        *)
(* segments, opcodes and word diffs, a stretch with placeholders in it, the *)
(* alignment, pairs that are fixed greedily, moves, the pairs of images,    *)
(* the placeholders a merge takes, and what the merged diff shows.          *)
EXTENDS BodyDiff, ListLemmas, SequenceTheorems

-----------------------------------------------------------------------------
(* Segments, and the text that segments of some kinds make.                 *)
Op == {"equal", "delete", "insert", "moved"}
AnySegment == [op : Op, text : Seq(Nat)]
Side(ops) == [s \in AnySegment |-> IF s.op \in ops THEN s.text ELSE <<>>]

LEMMA SideMaps == \A ops : Maps(Side(ops), AnySegment, Seq(Nat))
<1> TAKE ops
<1>1. <<>> \in Seq(Nat) /\ \A s \in AnySegment : s.text \in Seq(Nat)
    BY DEF AnySegment
<1> QED
    BY <1>1 DEF Maps, Side

LEMMA TextIsFlatMap ==
    ASSUME NEW ops, NEW ss \in Seq(AnySegment)
    PROVE  Text(ss, ops) = FlatMap(Side(ops), ss) /\ Text(ss, ops) \in Seq(Nat)
<1>1. \A i \in DOMAIN ss : ss[i] \in AnySegment
    OBVIOUS
<1>2. [i \in DOMAIN ss |-> IF ss[i].op \in ops THEN ss[i].text ELSE <<>>] = Images(Side(ops), ss)
    BY <1>1 DEF Images, Side
<1>3. Text(ss, ops) = FlatMap(Side(ops), ss)
    BY <1>2 DEF Text, FlatMap
<1> QED
    BY <1>3, SideMaps, FlatMapType

LEMMA TextEmpty == \A ops : Text(<<>>, ops) = <<>>
<1> TAKE ops
<1>1. <<>> \in Seq(AnySegment)
    OBVIOUS
<1> QED
    BY <1>1, TextIsFlatMap, FlatMapEmpty

LEMMA TextOne ==
    ASSUME NEW ops, NEW s \in AnySegment
    PROVE  Text(<<s>>, ops) = IF s.op \in ops THEN s.text ELSE <<>>
<1>1. <<s>> \in Seq(AnySegment)
    OBVIOUS
<1>2. Text(<<s>>, ops) = FlatMap(Side(ops), <<s>>)
    BY <1>1, TextIsFlatMap
<1>3. FlatMap(Side(ops), <<s>>) = Side(ops)[s]
    BY SideMaps, FlatMapOne
<1> QED
    BY <1>2, <1>3 DEF Side

LEMMA TextConcat ==
    ASSUME NEW ops, NEW ss \in Seq(AnySegment), NEW tt \in Seq(AnySegment)
    PROVE  Text(ss \o tt, ops) = Text(ss, ops) \o Text(tt, ops) /\ ss \o tt \in Seq(AnySegment)
<1> DEFINE both == ss \o tt
<1>1. both \in Seq(AnySegment)
    OBVIOUS
<1>2. FlatMap(Side(ops), both) = FlatMap(Side(ops), ss) \o FlatMap(Side(ops), tt)
    BY SideMaps, FlatMapConcat
<1>3. Text(ss, ops) = FlatMap(Side(ops), ss) /\ Text(tt, ops) = FlatMap(Side(ops), tt)
    BY TextIsFlatMap
<1> HIDE DEF both
<1>4. Text(both, ops) = FlatMap(Side(ops), both)
    BY <1>1, TextIsFlatMap
<1>5. Text(both, ops) = Text(ss, ops) \o Text(tt, ops)
    BY <1>2, <1>3, <1>4
<1> QED
    BY <1>1, <1>5 DEF both

LEMMA TextAppend ==
    ASSUME NEW ops, NEW ss \in Seq(AnySegment), NEW s \in AnySegment
    PROVE  Text(Append(ss, s), ops) = Text(ss, ops) \o (IF s.op \in ops THEN s.text ELSE <<>>)
<1> DEFINE both == Append(ss, s)
<1>1. both \in Seq(AnySegment)
    OBVIOUS
<1>2. FlatMap(Side(ops), both) = FlatMap(Side(ops), ss) \o Side(ops)[s]
    BY SideMaps, FlatMapAppend
<1>3. Text(ss, ops) = FlatMap(Side(ops), ss) /\ Side(ops)[s] = IF s.op \in ops THEN s.text ELSE <<>>
    BY TextIsFlatMap DEF Side
<1> HIDE DEF both
<1>4. Text(both, ops) = FlatMap(Side(ops), both)
    BY <1>1, TextIsFlatMap
<1> QED
    BY <1>2, <1>3, <1>4 DEF both

LEMMA TextFlatten ==
    ASSUME NEW ops, NEW pieces \in Seq(Seq(AnySegment))
    PROVE  /\ Text(FlattenSeq(pieces), ops) = FlattenSeq([i \in DOMAIN pieces |-> Text(pieces[i], ops)])
           /\ FlattenSeq(pieces) \in Seq(AnySegment)
<1>1. \A i \in DOMAIN pieces : pieces[i] \in Seq(AnySegment)
    OBVIOUS
<1>2. \A i \in DOMAIN pieces : Text(pieces[i], ops) = FlatMap(Side(ops), pieces[i])
    BY <1>1, TextIsFlatMap
<1>3. [i \in DOMAIN pieces |-> Text(pieces[i], ops)] = [i \in DOMAIN pieces |-> FlatMap(Side(ops), pieces[i])]
    BY <1>2
<1>4. FlatMap(Side(ops), FlattenSeq(pieces)) = FlattenSeq([i \in DOMAIN pieces |-> FlatMap(Side(ops), pieces[i])])
    BY SideMaps, FlatMapFlatten
<1>5. FlattenSeq(pieces) \in Seq(AnySegment)
    BY FlattenType
<1>6. Text(FlattenSeq(pieces), ops) = FlatMap(Side(ops), FlattenSeq(pieces))
    BY <1>5, TextIsFlatMap
<1> QED
    BY <1>3, <1>4, <1>5, <1>6

(* A list of empty lists makes nothing. *)
LEMMA FlattenNothing ==
    ASSUME NEW n \in Nat
    PROVE  FlattenSeq([i \in 1 .. n |-> <<>>]) = <<>>
<1> DEFINE ss == [i \in 1 .. n |-> <<>>]
<1>1. ss = [i \in 1 .. n |-> ss[i]] /\ \A i \in 1 .. n : ss[i] \in Seq({})
    OBVIOUS
<1> HIDE DEF ss
<1>2. ss \in Seq(Seq({}))
    BY <1>1, ListOf
<1>3. FlattenSeq(ss) \in Seq({})
    BY <1>2, FlattenType
<1> DEFINE flat == FlattenSeq(ss)
<1> HIDE DEF flat
<1>4. flat \in Seq({})
    BY <1>3 DEF flat
<1>5. DOMAIN flat = {}
    BY <1>4
<1>6. flat = <<>>
    BY <1>4, <1>5, EmptyList
<1> QED
    BY <1>6 DEF flat, ss

LEMMA EachText ==
    ASSUME NEW op \in Op, NEW paras \in Seq(Seq(Nat)), NEW ops
    PROVE  /\ Each(op, paras) \in Seq(AnySegment) /\ Len(Each(op, paras)) = Len(paras)
           /\ \A i \in DOMAIN Each(op, paras) : i \in DOMAIN paras /\ Each(op, paras)[i] = Seg(op, paras[i])
           /\ Text(Each(op, paras), ops) = IF op \in ops THEN FlattenSeq(paras) ELSE <<>>
<1> DEFINE each == Each(op, paras)
<1>1. Len(paras) \in Nat /\ DOMAIN paras = 1 .. Len(paras) /\ \A i \in 1 .. Len(paras) : paras[i] \in Seq(Nat)
    OBVIOUS
<1>2. each = [i \in 1 .. Len(paras) |-> each[i]] /\ \A i \in 1 .. Len(paras) : each[i] = Seg(op, paras[i])
    BY <1>1 DEF Each
<1>3. \A i \in 1 .. Len(paras) : each[i] \in AnySegment /\ each[i].op = op /\ each[i].text = paras[i]
    BY <1>1, <1>2 DEF Seg, AnySegment
<1> HIDE DEF each
<1>4. each \in Seq(AnySegment) /\ Len(each) = Len(paras) /\ DOMAIN each = 1 .. Len(paras)
    BY <1>1, <1>2, <1>3, ListOf
<1> DEFINE t == [i \in DOMAIN each |-> IF each[i].op \in ops THEN each[i].text ELSE <<>>]
<1>5. CASE op \in ops
    <2>1. t = [i \in 1 .. Len(paras) |-> paras[i]]
        BY <1>3, <1>4, <1>5
    <2>2. [i \in 1 .. Len(paras) |-> paras[i]] = paras
        BY <1>1
    <2> QED
        BY <1>1, <1>2, <1>4, <1>5, <2>1, <2>2 DEF Text, each
<1>6. CASE op \notin ops
    <2>1. t = [i \in 1 .. Len(paras) |-> <<>>]
        BY <1>3, <1>4, <1>6
    <2>2. FlattenSeq(t) = <<>>
        BY <1>1, <2>1, FlattenNothing
    <2> QED
        BY <1>1, <1>2, <1>4, <1>6, <2>2 DEF Text, each
<1> QED
    BY <1>5, <1>6

-----------------------------------------------------------------------------
(* difflib: the blocks of a diff, put together, are both of its lists.      *)
Code(T) == {o \in [equal : BOOLEAN, open : BOOLEAN, a : Seq(T), b : Seq(T)] : o.equal => o.a = o.b}
SideA(T) == [o \in Code(T) |-> o.a]
SideB(T) == [o \in Code(T) |-> o.b]
Covers(codes, T, a, b) ==
    codes \in Seq(Code(T)) /\ FlatMap(SideA(T), codes) = a /\ FlatMap(SideB(T), codes) = b

LEMMA SidesMap == \A T : Maps(SideA(T), Code(T), Seq(T)) /\ Maps(SideB(T), Code(T), Seq(T))
BY DEF Maps, SideA, SideB, Code

LEMMA CoversEmpty == \A T : Covers(<<>>, T, <<>>, <<>>)
<1> TAKE T
<1>1. <<>> \in Seq(Code(T))
    OBVIOUS
<1> QED
    BY <1>1, FlatMapEmpty DEF Covers

LEMMA CoversOne ==
    ASSUME NEW T, NEW o \in Code(T)
    PROVE  Covers(<<o>>, T, o.a, o.b)
<1>1. <<o>> \in Seq(Code(T))
    OBVIOUS
<1>2. FlatMap(SideA(T), <<o>>) = SideA(T)[o] /\ FlatMap(SideB(T), <<o>>) = SideB(T)[o]
    BY SidesMap, FlatMapOne
<1> QED
    BY <1>1, <1>2 DEF Covers, SideA, SideB

LEMMA CoversConcat ==
    ASSUME NEW T, NEW a, NEW b, NEW c, NEW d, NEW s, NEW t, Covers(s, T, a, b), Covers(t, T, c, d)
    PROVE  Covers(s \o t, T, a \o c, b \o d)
<1>1. s \in Seq(Code(T)) /\ t \in Seq(Code(T)) /\ s \o t \in Seq(Code(T))
    BY DEF Covers
<1>2. /\ FlatMap(SideA(T), s \o t) = FlatMap(SideA(T), s) \o FlatMap(SideA(T), t)
      /\ FlatMap(SideB(T), s \o t) = FlatMap(SideB(T), s) \o FlatMap(SideB(T), t)
    BY <1>1, SidesMap, FlatMapConcat
<1> QED
    BY <1>1, <1>2 DEF Covers

LEMMA GapCovers ==
    ASSUME NEW T, NEW a \in Seq(T), NEW b \in Seq(T)
    PROVE  Covers(Gap(a, b), T, a, b)
<1>1. CASE a = <<>> /\ b = <<>>
    BY <1>1, CoversEmpty DEF Gap
<1>2. CASE ~(a = <<>> /\ b = <<>>)
    <2> DEFINE o == [equal |-> FALSE, open |-> TRUE, a |-> a, b |-> b]
    <2>1. o \in Code(T) /\ o.a = a /\ o.b = b
        BY DEF Code
    <2>2. Gap(a, b) = <<o>>
        BY <1>2 DEF Gap
    <2> HIDE DEF o
    <2>3. Covers(<<o>>, T, o.a, o.b)
        BY <2>1, CoversOne
    <2> QED
        BY <2>1, <2>2, <2>3
<1> QED
    BY <1>1, <1>2

LEMMA LongestMatchIsCommon ==
    ASSUME NEW T, NEW a \in Seq(T), NEW b \in Seq(T), CommonBlocks(a, b) # {}
    PROVE  LongestMatch(a, b) \in CommonBlocks(a, b)
<1> DEFINE C == CommonBlocks(a, b)
<1>1. Len(a) \in Nat /\ \A m \in C : m[1] \in Nat /\ m[2] \in Nat /\ m[3] \in Nat /\ Len(a) - m[3] \in Nat
    <2>1. Len(a) \in Nat /\ Len(b) \in Nat /\ DOMAIN a = 1 .. Len(a) /\ DOMAIN b = 1 .. Len(b)
        OBVIOUS
    <2>2. \A m \in C : m[1] \in 1 .. Len(a) /\ m[2] \in 1 .. Len(b) /\ m[3] \in 1 .. Len(a)
        BY <2>1 DEF CommonBlocks
    <2> QED
        BY <2>1, <2>2
<1> HIDE DEF C
<1>2. PICK l \in {Len(a) - m[3] : m \in C} : \A k \in {Len(a) - m[3] : m \in C} : l <= k
    <2>1. {Len(a) - m[3] : m \in C} \in SUBSET Nat /\ {Len(a) - m[3] : m \in C} # {}
        BY <1>1 DEF C
    <2> QED
        BY <2>1, LeastNatural
<1> DEFINE C1 == {m \in C : Len(a) - m[3] = l}
<1>3. PICK i \in {m[1] : m \in C1} : \A k \in {m[1] : m \in C1} : i <= k
    <2>1. {m[1] : m \in C1} \in SUBSET Nat /\ {m[1] : m \in C1} # {}
        BY <1>1, <1>2
    <2> QED
        BY <2>1, LeastNatural
<1> DEFINE C2 == {m \in C1 : m[1] = i}
<1>4. PICK j \in {m[2] : m \in C2} : \A k \in {m[2] : m \in C2} : j <= k
    <2>1. {m[2] : m \in C2} \in SUBSET Nat /\ {m[2] : m \in C2} # {}
        BY <1>1, <1>3
    <2> QED
        BY <2>1, LeastNatural
<1>5. PICK m \in C2 : m[2] = j
    BY <1>4
<1>6. m \in C /\ Len(a) - m[3] = l /\ m[1] = i
    BY <1>5
<1>7. ASSUME NEW n \in C PROVE Earlier(m, n)
    <2>1. l <= Len(a) - n[3]
        BY <1>2
    <2>2. n[3] = m[3] => i <= n[1]
        <3>1. n[3] = m[3] => n \in C1
            BY <1>6
        <3> QED
            BY <1>3, <3>1
    <2>3. n[3] = m[3] /\ n[1] = i => j <= n[2]
        <3>1. n[3] = m[3] /\ n[1] = i => n \in C2
            BY <1>6
        <3> QED
            BY <1>4, <3>1
    <2> HIDE DEF C1, C2
    <2>4. m[3] \in Nat /\ n[3] \in Nat /\ m[1] \in Nat /\ n[1] \in Nat /\ m[2] \in Nat /\ n[2] \in Nat
        BY <1>1, <1>6
    <2>5. n[3] <= m[3]
        BY <1>1, <1>6, <2>1, <2>4
    <2>6. m[1] = i /\ m[2] = j
        BY <1>5, <1>6
    <2>7. m[3] > n[3] \/ m[3] = n[3]
        BY <2>4, <2>5
    <2>8. CASE m[3] = n[3]
        <3>1. m[1] < n[1] \/ m[1] = n[1]
            BY <2>2, <2>4, <2>6, <2>8
        <3>2. m[1] = n[1] => m[2] <= n[2]
            BY <2>3, <2>6, <2>8
        <3> QED
            BY <2>8, <3>1, <3>2 DEF Earlier
    <2> QED
        BY <2>7, <2>8 DEF Earlier
<1>8. \E x \in C : \A n \in C : Earlier(x, n)
    BY <1>6, <1>7
<1> QED
    BY <1>8 DEF LongestMatch, C

LEMMA SliceProperties ==
    ASSUME NEW T, NEW s \in Seq(T), NEW i \in Nat, NEW n \in Nat, 1 <= i, 1 <= n, i + n <= Len(s) + 1
    PROVE  /\ SubSeq(s, 1, i - 1) \in Seq(T) /\ SubSeq(s, i, i + n - 1) \in Seq(T) /\ SubSeq(s, i + n, Len(s)) \in Seq(T)
           /\ Len(SubSeq(s, i, i + n - 1)) = n
           /\ \A k \in 1 .. n : SubSeq(s, i, i + n - 1)[k] = s[i + k - 1]
           /\ (SubSeq(s, 1, i - 1) \o SubSeq(s, i, i + n - 1)) \o SubSeq(s, i + n, Len(s)) = s
<1> DEFINE e == i + n - 1
<1>1. Len(s) \in Nat /\ i - 1 \in Int /\ e \in Int /\ i + n \in Int /\ i <= e /\ e - i + 1 = n /\ e + 1 = i + n
    OBVIOUS
<1>2. /\ \A k \in 1 .. i - 1 : s[k] \in T
      /\ \A k \in i .. e : s[k] \in T
      /\ \A k \in i + n .. Len(s) : s[k] \in T
    BY <1>1
<1>3. 1 \in 1 .. Len(s) + 1 /\ i - 1 \in 1 - 1 .. Len(s) /\ e \in i - 1 .. Len(s) /\ e \in 1 - 1 .. Len(s) /\ Len(s) \in e .. Len(s)
    BY <1>1
<1> HIDE DEF e
<1>4. SubSeq(s, 1, i - 1) \in Seq(T)
    BY <1>1, <1>2, SubSeqProperties
<1>5. /\ SubSeq(s, i, e) \in Seq(T) /\ Len(SubSeq(s, i, e)) = n
      /\ \A k \in 1 .. n : SubSeq(s, i, e)[k] = s[i + k - 1]
    BY <1>1, <1>2, SubSeqProperties
<1>6. SubSeq(s, i + n, Len(s)) \in Seq(T)
    BY <1>1, <1>2, SubSeqProperties
<1>7. SubSeq(s, 1, i - 1) \o SubSeq(s, i, e) = SubSeq(s, 1, e)
    <2>1. i - 1 + 1 = i
        OBVIOUS
    <2>2. SubSeq(s, 1, i - 1) \o SubSeq(s, i - 1 + 1, e) = SubSeq(s, 1, e)
        BY <1>3, ConcatAdjacentSubSeq
    <2> QED
        BY <2>1, <2>2
<1>8. SubSeq(s, 1, e) \o SubSeq(s, e + 1, Len(s)) = SubSeq(s, 1, Len(s))
    BY <1>3, ConcatAdjacentSubSeq
<1>9. SubSeq(s, 1, Len(s)) = s
    BY SubSeqFull
<1> QED
    BY <1>1, <1>4, <1>5, <1>6, <1>7, <1>8, <1>9 DEF e

LEMMA SplitCovers ==
    ASSUME NEW T, NEW o \in Code(T)
    PROVE  Covers(Split(o), T, o.a, o.b)
<1>0. o.a \in Seq(T) /\ o.b \in Seq(T)
    BY DEF Code
<1>1. CASE ~o.open
    BY <1>1, CoversOne DEF Split
<1>2. CASE o.open /\ CommonBlocks(o.a, o.b) = {}
    <2> DEFINE p == [o EXCEPT !.open = FALSE]
    <2>1. p \in Code(T) /\ p.a = o.a /\ p.b = o.b
        BY DEF Code
    <2>2. Split(o) = <<p>>
        BY <1>2 DEF Split
    <2> HIDE DEF p
    <2>3. Covers(<<p>>, T, p.a, p.b)
        BY <2>1, CoversOne
    <2> QED
        BY <2>1, <2>2, <2>3
<1>3. CASE o.open /\ CommonBlocks(o.a, o.b) # {}
    <2> DEFINE a == o.a
               b == o.b
               m == LongestMatch(a, b)
               i == m[1]
               j == m[2]
               n == m[3]
               same == SubSeq(a, i, i + n - 1)
               that == SubSeq(b, j, j + n - 1)
               block == [equal |-> TRUE, open |-> FALSE, a |-> same, b |-> same]
               a1 == SubSeq(a, 1, i - 1)
               b1 == SubSeq(b, 1, j - 1)
               a2 == SubSeq(a, i + n, Len(a))
               b2 == SubSeq(b, j + n, Len(b))
    <2>1. m \in CommonBlocks(a, b)
        BY <1>0, <1>3, LongestMatchIsCommon
    <2>2. /\ i \in Nat /\ j \in Nat /\ n \in Nat /\ 1 <= i /\ 1 <= j /\ 1 <= n
          /\ i + n <= Len(a) + 1 /\ j + n <= Len(b) + 1
          /\ \A k \in 0 .. n - 1 : a[i + k] = b[j + k]
        <3>1. DOMAIN a = 1 .. Len(a) /\ DOMAIN b = 1 .. Len(b) /\ Len(a) \in Nat /\ Len(b) \in Nat
            BY <1>0
        <3> HIDE DEF m, a, b
        <3>2. i \in 1 .. Len(a) /\ j \in 1 .. Len(b) /\ n \in 1 .. Len(a)
              /\ i + n <= Len(a) + 1 /\ j + n <= Len(b) + 1
              /\ \A k \in 0 .. n - 1 : a[i + k] = b[j + k]
            BY <2>1, <3>1 DEF CommonBlocks
        <3> QED
            BY <3>1, <3>2
    <2>3. Split(o) = (Gap(a1, b1) \o <<block>>) \o Gap(a2, b2)
        BY <1>3 DEF Split
    <2>4. a \in Seq(T) /\ b \in Seq(T)
        BY <1>0
    <2> HIDE DEF m, a, b
    <2> HIDE DEF i, j, n
    <2>5. /\ a1 \in Seq(T) /\ same \in Seq(T) /\ a2 \in Seq(T) /\ Len(same) = n
          /\ \A k \in 1 .. n : same[k] = a[i + k - 1]
          /\ (a1 \o same) \o a2 = a
        <3>1. a \in Seq(T) /\ i \in Nat /\ n \in Nat /\ 1 <= i /\ 1 <= n /\ i + n <= Len(a) + 1
            BY <2>2, <2>4
        <3> HIDE DEF a1, a2, b1, b2, same, that
        <3> QED
            BY <3>1, SliceProperties DEF a1, a2, same
    <2>6. /\ b1 \in Seq(T) /\ that \in Seq(T) /\ b2 \in Seq(T) /\ Len(that) = n
          /\ \A k \in 1 .. n : that[k] = b[j + k - 1]
          /\ (b1 \o that) \o b2 = b
        <3>1. b \in Seq(T) /\ j \in Nat /\ n \in Nat /\ 1 <= j /\ 1 <= n /\ j + n <= Len(b) + 1
            BY <2>2, <2>4
        <3> HIDE DEF a1, a2, b1, b2, same, that
        <3> QED
            BY <3>1, SliceProperties DEF b1, b2, that
    <2> HIDE DEF a1, a2, b1, b2, same, that
    <2>7. same = that
        <3>1. \A k \in 1 .. n : same[k] = that[k]
            <4> TAKE k \in 1 .. n
            <4>1. k - 1 \in 0 .. n - 1 /\ i + (k - 1) = i + k - 1 /\ j + (k - 1) = j + k - 1
                BY <2>2
            <4>2. a[i + (k - 1)] = b[j + (k - 1)]
                BY <2>2, <4>1
            <4> QED
                BY <2>5, <2>6, <4>1, <4>2
        <3> QED
            BY <2>5, <2>6, <3>1
    <2>8. block \in Code(T) /\ block.a = same /\ block.b = same
        BY <2>5 DEF Code
    <2> HIDE DEF block
    <2>9. Covers(Gap(a1, b1), T, a1, b1) /\ Covers(Gap(a2, b2), T, a2, b2)
        BY <2>5, <2>6, GapCovers
    <2>10. Covers(<<block>>, T, same, same)
        BY <2>8, CoversOne
    <2>11. Covers(Gap(a1, b1) \o <<block>>, T, a1 \o same, b1 \o same)
        BY <2>9, <2>10, CoversConcat
    <2>12. Covers((Gap(a1, b1) \o <<block>>) \o Gap(a2, b2), T, (a1 \o same) \o a2, (b1 \o same) \o b2)
        BY <2>9, <2>11, CoversConcat
    <2> QED
        BY <2>3, <2>5, <2>6, <2>7, <2>12 DEF a, b
<1> QED
    BY <1>1, <1>2, <1>3

(* One round of splits covers what the codes covered. *)
Round(codes) == FlattenSeq([i \in DOMAIN codes |-> Split(codes[i])])

LEMMA RoundCovers ==
    ASSUME NEW T, NEW a, NEW b, NEW codes, Covers(codes, T, a, b)
    PROVE  Covers(Round(codes), T, a, b)
<1> DEFINE pieces == [i \in DOMAIN codes |-> Split(codes[i])]
<1>1. codes \in Seq(Code(T)) /\ Len(codes) \in Nat /\ DOMAIN codes = 1 .. Len(codes)
    BY DEF Covers
<1>2. \A i \in DOMAIN codes : codes[i] \in Code(T) /\ Covers(pieces[i], T, codes[i].a, codes[i].b)
    BY <1>1, SplitCovers
<1>3. pieces = [i \in 1 .. Len(codes) |-> pieces[i]] /\ \A i \in 1 .. Len(codes) : pieces[i] \in Seq(Code(T))
    BY <1>1, <1>2 DEF Covers
<1>4. Round(codes) = FlattenSeq(pieces)
    BY DEF Round
<1> HIDE DEF pieces
<1>5. pieces \in Seq(Seq(Code(T))) /\ DOMAIN pieces = DOMAIN codes
    BY <1>1, <1>3, ListOf
<1>6. FlattenSeq(pieces) \in Seq(Code(T))
    BY <1>5, FlattenType
<1>7. FlatMap(SideA(T), FlattenSeq(pieces)) = FlattenSeq([i \in DOMAIN pieces |-> FlatMap(SideA(T), pieces[i])])
    BY <1>5, SidesMap, FlatMapFlatten
<1>8. FlatMap(SideB(T), FlattenSeq(pieces)) = FlattenSeq([i \in DOMAIN pieces |-> FlatMap(SideB(T), pieces[i])])
    BY <1>5, SidesMap, FlatMapFlatten
<1>9. [i \in DOMAIN pieces |-> FlatMap(SideA(T), pieces[i])] = Images(SideA(T), codes)
    BY <1>2, <1>5 DEF Covers, Images, SideA
<1>10. [i \in DOMAIN pieces |-> FlatMap(SideB(T), pieces[i])] = Images(SideB(T), codes)
    BY <1>2, <1>5 DEF Covers, Images, SideB
<1>11. FlatMap(SideA(T), codes) = a /\ FlatMap(SideB(T), codes) = b
    BY DEF Covers
<1> QED
    BY <1>4, <1>6, <1>7, <1>8, <1>9, <1>10, <1>11 DEF Covers, FlatMap

IsFound(h, a, b) == h = [n \in 0 .. Len(a) |-> IF n = 0 THEN Gap(a, b) ELSE Round(h[n - 1])]

LEMMA OpcodesUnfold ==
    ASSUME NEW a, NEW b
    PROVE  Opcodes(a, b) = (CHOOSE h : IsFound(h, a, b))[Len(a)]
BY DEF Opcodes, IsFound, Round

LEMMA OpcodesCover ==
    ASSUME NEW T, NEW a \in Seq(T), NEW b \in Seq(T)
    PROVE  Covers(Opcodes(a, b), T, a, b)
<1> DEFINE N == Len(a)
           D == {codes \in Seq(Code(T)) : Covers(codes, T, a, b)}
           start == Gap(a, b)
           F == [n \in 1 .. N |-> [codes \in D |-> Round(codes)]]
<1>1. N \in Nat
    OBVIOUS
<1>2. start \in D
    BY GapCovers DEF Covers
<1>3. \A codes \in D : Round(codes) \in D
    BY RoundCovers DEF Covers
<1> HIDE DEF N, D, start
<1>4. F \in [1 .. N -> [D -> D]] /\ \A n \in 1 .. N : \A codes \in D : F[n][codes] = Round(codes)
    BY <1>3
<1> HIDE DEF F
<1>5. PICK k : Steps(k, N, D, start, F)
    BY <1>1, <1>2, <1>4, StepByStep
<1>6. k \in [0 .. N -> D] /\ k[0] = start /\ \A n \in 1 .. N : k[n] = F[n][k[n - 1]]
    BY <1>5 DEF Steps
<1>7. \A n \in 0 .. N : k[n] = IF n = 0 THEN start ELSE Round(k[n - 1])
    <2> TAKE n \in 0 .. N
    <2>1. CASE n = 0
        BY <1>6, <2>1
    <2>2. CASE n # 0
        <3>1. n \in 1 .. N /\ n - 1 \in 0 .. N
            BY <1>1, <2>2
        <3>2. k[n - 1] \in D
            BY <1>6, <3>1
        <3> QED
            BY <1>4, <1>6, <2>2, <3>1, <3>2
    <2> QED
        BY <2>1, <2>2
<1>8. k = [n \in 0 .. N |-> IF n = 0 THEN start ELSE Round(k[n - 1])]
    BY <1>6, <1>7
<1>9. IsFound(k, a, b)
    BY <1>8 DEF IsFound, N, start
<1> DEFINE h == CHOOSE h : IsFound(h, a, b)
<1>10. IsFound(h, a, b)
    BY <1>9
<1> HIDE DEF h
<1>11. \A n \in 0 .. N : h[n] = IF n = 0 THEN start ELSE Round(h[n - 1])
    BY <1>10 DEF IsFound, N, start
<1> DEFINE S == {n \in 0 .. N : h[n] \in D}
<1>12. 0 \in S
    BY <1>1, <1>2, <1>11
<1>13. \A n \in 1 .. N : n - 1 \in S => n \in S
    BY <1>1, <1>3, <1>11
<1> HIDE DEF S
<1>14. \A n \in 0 .. N : n \in S
    BY <1>1, <1>12, <1>13, Upwards
<1>15. h[N] \in D
    BY <1>1, <1>14 DEF S
<1> QED
    BY <1>15, OpcodesUnfold DEF h, N, D

-----------------------------------------------------------------------------
(* The word diff of two texts.                                              *)
Word == Nat \ Label
Changes == {"equal", "delete", "insert"}
BeforeOps == {"equal", "delete", "moved"}
AfterOps == {"equal", "insert", "moved"}
ProseSegment == [op : Op, text : ProseText]
DiffSegment == [op : Changes, text : ProseText]

LEMMA ProseSegments ==
    /\ DiffSegment \subseteq ProseSegment /\ ProseSegment \subseteq AnySegment /\ ProseText \subseteq Seq(Nat)
    /\ ProseText = Seq(Word)
BY DEF ProseSegment, AnySegment, ProseText, DiffSegment, Op, Changes, Word

LEMMA SubSequences == \A S, T : S \subseteq T => Seq(S) \subseteq Seq(T)
    OBVIOUS

LEMMA FirstOfShort ==
    ASSUME NEW T, NEW s \in Seq(T), NEW n \in Nat, Len(s) <= n
    PROVE  FirstOf(s, n) = s
<1>1. (IF Len(s) < n THEN Len(s) ELSE n) = Len(s)
    OBVIOUS
<1>2. SubSeq(s, 1, Len(s)) = s
    BY SubSeqFull
<1> QED
    BY <1>1, <1>2 DEF FirstOf

(* Codes that are shown piece by piece show what they cover.                *)
PiecesOf(P, codes) ==
    P = [i \in DOMAIN codes |-> P[i]] /\ \A i \in DOMAIN codes : P[i] \in Seq(AnySegment)
Texts(P, ops) == [i \in DOMAIN P |-> Text(P[i], ops)]
OldSides(codes) == [i \in DOMAIN codes |-> codes[i].a]
NewSides(codes) == [i \in DOMAIN codes |-> codes[i].b]

LEMMA PiecesShow ==
    ASSUME NEW T, NEW codes, NEW a, NEW b, Covers(codes, T, a, b), NEW P, PiecesOf(P, codes), NEW ops
    PROVE  /\ P \in Seq(Seq(AnySegment)) /\ FlattenSeq(P) \in Seq(AnySegment)
           /\ DOMAIN P = DOMAIN codes
           /\ Text(FlattenSeq(P), ops) = FlattenSeq(Texts(P, ops))
           /\ a = FlattenSeq(OldSides(codes)) /\ b = FlattenSeq(NewSides(codes))
<1>1. codes \in Seq(Code(T)) /\ DOMAIN codes = 1 .. Len(codes) /\ Len(codes) \in Nat
    BY DEF Covers
<1>2. P \in Seq(Seq(AnySegment)) /\ DOMAIN P = DOMAIN codes
    BY <1>1, ListOf DEF PiecesOf
<1>3. Text(FlattenSeq(P), ops) = FlattenSeq([i \in DOMAIN P |-> Text(P[i], ops)]) /\ FlattenSeq(P) \in Seq(AnySegment)
    BY <1>2, TextFlatten
<1>4. \A i \in DOMAIN codes : SideA(T)[codes[i]] = codes[i].a /\ SideB(T)[codes[i]] = codes[i].b
    BY <1>1 DEF SideA, SideB
<1>5. /\ Images(SideA(T), codes) = [i \in DOMAIN codes |-> codes[i].a]
      /\ Images(SideB(T), codes) = [i \in DOMAIN codes |-> codes[i].b]
    BY <1>4 DEF Images
<1> QED
    BY <1>2, <1>3, <1>5 DEF Covers, FlatMap, Texts, OldSides, NewSides

LEMMA PartShows ==
    ASSUME NEW op \in Changes, NEW text \in ProseText, NEW ops
    PROVE  Part(op, text) \in Seq(DiffSegment) /\ Text(Part(op, text), ops) = IF op \in ops THEN text ELSE <<>>
<1>1. CASE text = <<>>
    BY <1>1, TextEmpty DEF Part
<1>2. CASE text # <<>>
    <2> DEFINE s == Seg(op, text)
    <2>1. s \in DiffSegment /\ s \in AnySegment /\ s.op = op /\ s.text = text
        BY ProseSegments DEF Seg, DiffSegment
    <2>2. Part(op, text) = <<s>>
        BY <1>2 DEF Part
    <2> HIDE DEF s
    <2>3. <<s>> \in Seq(DiffSegment)
        BY <2>1
    <2> QED
        BY <2>1, <2>2, <2>3, TextOne
<1> QED
    BY <1>1, <1>2

LEMMA PartsShow ==
    ASSUME NEW a \in ProseText, NEW b \in ProseText
    PROVE  /\ Parts(a, b) \in Seq(DiffSegment) /\ Parts(a, b) \in Seq(AnySegment)
           /\ Text(Parts(a, b), BeforeOps) = a /\ Text(Parts(a, b), AfterOps) = b
<1> DEFINE codes == Opcodes(a, b)
           P == [i \in DOMAIN codes |->
                    IF codes[i].equal THEN <<Seg("equal", codes[i].a)>>
                    ELSE Part("delete", codes[i].a) \o Part("insert", codes[i].b)]
<1>1. Covers(codes, Word, a, b)
    BY ProseSegments, OpcodesCover
<1>2. Parts(a, b) = FlattenSeq(P)
    BY DEF Parts
<1> HIDE DEF codes
<1>3. \A i \in DOMAIN codes : codes[i] \in Code(Word)
    BY <1>1 DEF Covers
<1>4. ASSUME NEW i \in DOMAIN codes
      PROVE  /\ P[i] \in Seq(DiffSegment) /\ P[i] \in Seq(AnySegment)
             /\ Text(P[i], BeforeOps) = codes[i].a /\ Text(P[i], AfterOps) = codes[i].b
    <2> DEFINE o == codes[i]
    <2>1. /\ o.a \in ProseText /\ o.b \in ProseText /\ (o.equal => o.a = o.b)
          /\ "equal" \in Changes /\ "delete" \in Changes /\ "insert" \in Changes
          /\ "equal" \in BeforeOps /\ "delete" \in BeforeOps /\ "insert" \notin BeforeOps
          /\ "equal" \in AfterOps /\ "delete" \notin AfterOps /\ "insert" \in AfterOps
        BY <1>3, ProseSegments DEF Code, Changes, BeforeOps, AfterOps
    <2>2. P[i] = IF o.equal THEN <<Seg("equal", o.a)>> ELSE Part("delete", o.a) \o Part("insert", o.b)
        OBVIOUS
    <2> HIDE DEF o, P
    <2>3. CASE o.equal
        <3> DEFINE s == Seg("equal", o.a)
        <3>1. s \in DiffSegment /\ s \in AnySegment /\ s.op = "equal" /\ s.text = o.a
            BY <2>1, ProseSegments DEF Seg, DiffSegment
        <3>2. P[i] = <<s>>
            BY <2>2, <2>3
        <3> HIDE DEF s
        <3>3. <<s>> \in Seq(DiffSegment) /\ <<s>> \in Seq(AnySegment)
            BY <3>1
        <3>4. Text(<<s>>, BeforeOps) = o.a /\ Text(<<s>>, AfterOps) = o.a
            BY <2>1, <3>1, TextOne
        <3> QED
            BY <2>1, <2>3, <3>2, <3>3, <3>4 DEF o
    <2>4. CASE ~o.equal
        <3> DEFINE d == Part("delete", o.a)
                   n == Part("insert", o.b)
        <3>1. d \in Seq(DiffSegment) /\ Text(d, BeforeOps) = o.a /\ Text(d, AfterOps) = <<>>
            BY <2>1, PartShows
        <3>2. n \in Seq(DiffSegment) /\ Text(n, BeforeOps) = <<>> /\ Text(n, AfterOps) = o.b
            BY <2>1, PartShows
        <3>3. P[i] = d \o n
            BY <2>2, <2>4
        <3> HIDE DEF d, n
        <3>4. d \in Seq(AnySegment) /\ n \in Seq(AnySegment) /\ d \o n \in Seq(DiffSegment)
            BY <3>1, <3>2, ProseSegments, SubSequences
        <3>5. /\ Text(d \o n, BeforeOps) = o.a \o <<>> /\ Text(d \o n, AfterOps) = <<>> \o o.b
              /\ d \o n \in Seq(AnySegment)
            <4>1. /\ Text(d \o n, BeforeOps) = Text(d, BeforeOps) \o Text(n, BeforeOps)
                  /\ d \o n \in Seq(AnySegment)
                BY <3>4, TextConcat
            <4>2. Text(d \o n, AfterOps) = Text(d, AfterOps) \o Text(n, AfterOps)
                BY <3>4, TextConcat
            <4> QED
                BY <3>1, <3>2, <4>1, <4>2
        <3>6. o.a \o <<>> = o.a /\ <<>> \o o.b = o.b
            BY <2>1 DEF ProseText
        <3> QED
            BY <3>3, <3>4, <3>5, <3>6 DEF o
    <2> QED
        BY <2>3, <2>4
<1>5. P = [i \in DOMAIN codes |-> P[i]] /\ \A i \in DOMAIN codes : P[i] \in Seq(AnySegment)
    BY <1>4
<1> HIDE DEF P
<1>6. PiecesOf(P, codes)
    BY <1>5 DEF PiecesOf
<1>7. /\ FlattenSeq(P) \in Seq(AnySegment) /\ DOMAIN P = DOMAIN codes
      /\ Text(FlattenSeq(P), BeforeOps) = FlattenSeq(Texts(P, BeforeOps))
      /\ Text(FlattenSeq(P), AfterOps) = FlattenSeq(Texts(P, AfterOps))
      /\ a = FlattenSeq(OldSides(codes)) /\ b = FlattenSeq(NewSides(codes)) /\ P \in Seq(Seq(AnySegment))
    BY <1>1, <1>6, PiecesShow
<1>8. Texts(P, BeforeOps) = OldSides(codes) /\ Texts(P, AfterOps) = NewSides(codes)
    BY <1>4, <1>7 DEF Texts, OldSides, NewSides
<1>9. P \in Seq(Seq(DiffSegment))
    <2>1. Len(P) \in Nat /\ DOMAIN P = 1 .. Len(P)
        BY <1>7
    <2>2. P = [i \in 1 .. Len(P) |-> P[i]] /\ \A i \in 1 .. Len(P) : P[i] \in Seq(DiffSegment)
        BY <1>4, <1>5, <1>7, <2>1
    <2> QED
        BY <2>1, <2>2, ListOf
<1>10. FlattenSeq(P) \in Seq(DiffSegment)
    BY <1>9, FlattenType
<1> QED
    BY <1>2, <1>7, <1>8, <1>10

LEMMA WordDiffShows ==
    ASSUME NEW a \in ProseText, NEW b \in ProseText
    PROVE  ~TooLong(a, b) => /\ WordDiff(a, b) \in Seq(DiffSegment) /\ WordDiff(a, b) \in Seq(AnySegment)
                             /\ Text(WordDiff(a, b), BeforeOps) = a /\ Text(WordDiff(a, b), AfterOps) = b
<1> DEFINE parts == Parts(a, b)
<1>1. /\ parts \in Seq(DiffSegment) /\ parts \in Seq(AnySegment)
      /\ Text(parts, BeforeOps) = a /\ Text(parts, AfterOps) = b
    BY PartsShow
<1>2. WordDiff(a, b) = FirstOf(parts, MAX_SEGMENTS) /\ (TooLong(a, b) <=> Len(parts) > MAX_SEGMENTS)
    BY DEF WordDiff, TooLong
<1> HIDE DEF parts
<1>3. Len(parts) \in Nat /\ MAX_SEGMENTS \in Nat
    BY <1>1, CapAssumption
<1>4. Len(parts) <= MAX_SEGMENTS => FirstOf(parts, MAX_SEGMENTS) = parts
    BY <1>1, <1>3, FirstOfShort
<1> QED
    BY <1>1, <1>2, <1>3, <1>4

-----------------------------------------------------------------------------
(* Placeholders and prose of a stretch, woven back together.                *)
Paragraph == ProseText \cup MediaParagraph
ProseOf == [p \in Paragraph |-> IF IsMedia(p) THEN <<>> ELSE p]

LEMMA ParagraphKinds ==
    /\ \A p \in Paragraph : IsMedia(p) <=> p \in MediaParagraph
    /\ \A p \in Paragraph : ~IsMedia(p) <=> p \in ProseText
    /\ Paragraph \subseteq Seq(Nat) /\ MediaParagraph \subseteq Seq(Nat) /\ MediaParagraph \subseteq Seq(Label)
    /\ \A p \in MediaParagraph : Len(p) = 1 /\ p[1] \in Label
<1>1. \A p \in MediaParagraph : Len(p) = 1 /\ p[1] \in Label /\ p \in Seq(Label)
    <2> TAKE p \in MediaParagraph
    <2>1. PICK l \in Label : p = <<l>>
        BY DEF MediaParagraph
    <2> QED
        BY <2>1
<1>2. \A p \in ProseText : p \in Seq(Nat) /\ ~(Len(p) = 1 /\ p[1] \in Label)
    <2> TAKE p \in ProseText
    <2>1. Len(p) = 1 => p[1] \in Nat \ Label
        BY DEF ProseText
    <2> QED
        BY <2>1 DEF ProseText
<1>3. Seq(Label) \subseteq Seq(Nat)
    BY VersionAssumption, SubSequences
<1> QED
    BY <1>1, <1>2, <1>3 DEF Paragraph, IsMedia

LEMMA ProseMaps == Maps(ProseOf, Paragraph, Seq(Word))
<1>1. \A p \in Paragraph : ~IsMedia(p) => p \in Seq(Word)
    BY ParagraphKinds, ProseSegments
<1>2. <<>> \in Seq(Word)
    OBVIOUS
<1> QED
    BY <1>1, <1>2 DEF Maps, ProseOf

LEMMA ProseProperties ==
    ASSUME NEW paras \in Seq(Paragraph)
    PROVE  /\ Prose(paras) = FlatMap(ProseOf, paras) /\ Prose(paras) \in Seq(Word) /\ Len(Prose(paras)) \in Nat
           /\ \A i \in 0 .. Len(paras) : WordsBefore(paras, i) \in 0 .. Len(Prose(paras))
<1>1. ASSUME NEW s \in Seq(Paragraph)
      PROVE  Prose(s) = FlatMap(ProseOf, s) /\ Prose(s) \in Seq(Word)
    <2>1. \A i \in DOMAIN s : s[i] \in Paragraph
        OBVIOUS
    <2>2. [i \in DOMAIN s |-> IF IsMedia(s[i]) THEN <<>> ELSE s[i]] = Images(ProseOf, s)
        BY <2>1 DEF Images, ProseOf
    <2>3. FlatMap(ProseOf, s) \in Seq(Word)
        BY ProseMaps, FlatMapType
    <2> QED
        BY <2>2, <2>3 DEF Prose, FlatMap
<1>2. ASSUME NEW i \in 0 .. Len(paras)
      PROVE  WordsBefore(paras, i) \in 0 .. Len(Prose(paras))
    <2> DEFINE s == SubSeq(paras, 1, i)
               t == SubSeq(paras, i + 1, Len(paras))
    <2>1. s \in Seq(Paragraph) /\ t \in Seq(Paragraph)
        OBVIOUS
    <2>2. s \o t = paras
        <3>1. 1 \in 1 .. Len(paras) + 1 /\ i \in 1 - 1 .. Len(paras) /\ Len(paras) \in i .. Len(paras)
            OBVIOUS
        <3>2. SubSeq(paras, 1, i) \o SubSeq(paras, i + 1, Len(paras)) = SubSeq(paras, 1, Len(paras))
            BY <3>1, ConcatAdjacentSubSeq
        <3> QED
            BY <3>2, SubSeqFull
    <2> HIDE DEF s, t
    <2>3. FlatMap(ProseOf, s \o t) = FlatMap(ProseOf, s) \o FlatMap(ProseOf, t)
        BY <2>1, ProseMaps, FlatMapConcat
    <2>4. Prose(paras) = Prose(s) \o Prose(t) /\ Prose(s) \in Seq(Word) /\ Prose(t) \in Seq(Word)
        BY <1>1, <2>1, <2>2, <2>3
    <2>5. Len(Prose(s)) \in 0 .. Len(Prose(s) \o Prose(t))
        BY <2>4, ConcatParts
    <2> QED
        BY <2>4, <2>5 DEF WordsBefore, s
<1>3. Prose(paras) = FlatMap(ProseOf, paras) /\ Prose(paras) \in Seq(Word)
    BY <1>1
<1> QED
    BY <1>2, <1>3

LEMMA ProseAppend ==
    ASSUME NEW paras \in Seq(Paragraph), NEW p \in Paragraph
    PROVE  /\ Prose(Append(paras, p)) = Prose(paras) \o (IF IsMedia(p) THEN <<>> ELSE p)
           /\ \A i \in 1 .. Len(paras) : WordsBefore(Append(paras, p), i) = WordsBefore(paras, i)
           /\ WordsBefore(Append(paras, p), Len(paras) + 1) = Len(Prose(Append(paras, p)))
<1> DEFINE all == Append(paras, p)
<1>1. all \in Seq(Paragraph) /\ Len(all) = Len(paras) + 1 /\ Len(paras) \in Nat
    OBVIOUS
<1>2. FlatMap(ProseOf, all) = FlatMap(ProseOf, paras) \o ProseOf[p]
    BY ProseMaps, FlatMapAppend
<1>3. ASSUME NEW i \in 1 .. Len(paras) PROVE SubSeq(all, 1, i) = SubSeq(paras, 1, i)
    OBVIOUS
<1>4. SubSeq(all, 1, Len(all)) = all
    BY <1>1, SubSeqFull
<1> HIDE DEF all
<1>5. Prose(all) = FlatMap(ProseOf, all) /\ Prose(paras) = FlatMap(ProseOf, paras)
    BY <1>1, ProseProperties
<1>6. ProseOf[p] = IF IsMedia(p) THEN <<>> ELSE p
    BY DEF ProseOf
<1> QED
    BY <1>1, <1>2, <1>3, <1>4, <1>5, <1>6 DEF all, WordsBefore

StandsAt(paras, n) ==
    [i \in DOMAIN paras |-> IF IsMedia(paras[i]) /\ WordsBefore(paras, i) = n THEN <<paras[i]>> ELSE <<>>]

LEMMA MediaAtType ==
    ASSUME NEW paras \in Seq(Paragraph), NEW n
    PROVE  /\ StandsAt(paras, n) \in Seq(Seq(MediaParagraph)) /\ MediaAt(paras, n) = FlattenSeq(StandsAt(paras, n))
           /\ MediaAt(paras, n) \in Seq(MediaParagraph) /\ MediaAt(paras, n) \in Seq(Seq(Nat))
           /\ n \notin 0 .. Len(Prose(paras)) => MediaAt(paras, n) = <<>>
<1> DEFINE at == StandsAt(paras, n)
<1>1. Len(paras) \in Nat /\ DOMAIN paras = 1 .. Len(paras) /\ \A i \in DOMAIN paras : paras[i] \in Paragraph
    OBVIOUS
<1>2. \A i \in DOMAIN paras : at[i] \in Seq(MediaParagraph)
    <2> TAKE i \in DOMAIN paras
    <2>1. IsMedia(paras[i]) => <<paras[i]>> \in Seq(MediaParagraph)
        BY <1>1, ParagraphKinds
    <2>2. <<>> \in Seq(MediaParagraph)
        OBVIOUS
    <2> QED
        BY <2>1, <2>2 DEF StandsAt
<1>3. at = [i \in 1 .. Len(paras) |-> at[i]]
    BY <1>1 DEF StandsAt
<1>4. MediaAt(paras, n) = FlattenSeq(at)
    BY DEF MediaAt, StandsAt
<1>5. ASSUME n \notin 0 .. Len(Prose(paras)) PROVE MediaAt(paras, n) = <<>>
    <2>1. \A i \in 1 .. Len(paras) : WordsBefore(paras, i) # n
        <3> TAKE i \in 1 .. Len(paras)
        <3>1. i \in 0 .. Len(paras)
            OBVIOUS
        <3> QED
            BY <1>5, <3>1, ProseProperties
    <2>2. at = [i \in 1 .. Len(paras) |-> <<>>]
        BY <1>1, <2>1 DEF StandsAt
    <2> QED
        BY <1>1, <1>4, <2>2, FlattenNothing
<1> HIDE DEF at
<1>6. at \in Seq(Seq(MediaParagraph))
    BY <1>1, <1>2, <1>3, ListOf
<1>7. FlattenSeq(at) \in Seq(MediaParagraph)
    BY <1>6, FlattenType
<1>8. FlattenSeq(at) \in Seq(Seq(Nat))
    BY <1>7, ParagraphKinds, SubSequences
<1> QED
    BY <1>4, <1>5, <1>6, <1>7, <1>8 DEF at

LEMMA MediaAtAppend ==
    ASSUME NEW paras \in Seq(Paragraph), NEW p \in Paragraph, NEW n
    PROVE  MediaAt(Append(paras, p), n) =
              MediaAt(paras, n) \o (IF IsMedia(p) /\ n = Len(Prose(paras)) THEN <<p>> ELSE <<>>)
<1> DEFINE all == Append(paras, p)
           one == IF IsMedia(p) /\ n = Len(Prose(paras)) THEN <<p>> ELSE <<>>
           s == StandsAt(paras, n)
           t == StandsAt(all, n)
<1>1. /\ all \in Seq(Paragraph) /\ Len(all) = Len(paras) + 1 /\ Len(paras) \in Nat /\ all[Len(paras) + 1] = p
      /\ DOMAIN all = 1 .. Len(paras) + 1 /\ DOMAIN paras = 1 .. Len(paras)
      /\ \A i \in 1 .. Len(paras) : all[i] = paras[i]
    OBVIOUS
<1>2. IsMedia(p) => Prose(all) = Prose(paras)
    <2>1. Prose(paras) \o <<>> = Prose(paras)
        BY ProseProperties
    <2> QED
        BY <2>1, ProseAppend
<1>3. t = [i \in DOMAIN t |-> t[i]] /\ DOMAIN t = 1 .. Len(paras) + 1
    BY <1>1 DEF StandsAt
<1>4. \A i \in 1 .. Len(paras) : t[i] = s[i]
    BY <1>1, ProseAppend DEF StandsAt
<1>5. t[Len(paras) + 1] = one
    <2>1. WordsBefore(all, Len(paras) + 1) = Len(Prose(all))
        BY ProseAppend
    <2>2. t[Len(paras) + 1] = IF IsMedia(p) /\ Len(Prose(all)) = n THEN <<p>> ELSE <<>>
        BY <1>1, <2>1 DEF StandsAt
    <2> QED
        BY <1>2, <2>2
<1>6. Len(s) = Len(paras)
    BY <1>1 DEF StandsAt
<1>7. one \in Seq(MediaParagraph)
    BY ParagraphKinds
<1>8. s \in Seq(Seq(MediaParagraph)) /\ MediaAt(paras, n) = FlattenSeq(s)
    BY MediaAtType
<1> HIDE DEF all, one, s, t
<1>9. t = Append(s, one)
    BY <1>3, <1>4, <1>5, <1>6, <1>7, <1>8, ListAppend
<1>10. FlattenSeq(Append(s, one)) = FlattenSeq(s) \o one
    BY <1>7, <1>8, FlattenAppend
<1>11. MediaAt(all, n) = FlattenSeq(t)
    BY <1>1, MediaAtType DEF t
<1> QED
    BY <1>8, <1>9, <1>10, <1>11 DEF all, one

-----------------------------------------------------------------------------
(* The words of a version with its placeholders between them.              *)
Labels(paras, n) == FlattenSeq(MediaAt(paras, n))
(* The first n words of the prose, each behind the placeholders before it.  *)
Woven(paras, n) == FlattenSeq([k \in 1 .. n |-> Labels(paras, k - 1) \o <<Prose(paras)[k]>>])

LEMMA LabelsType ==
    ASSUME NEW paras \in Seq(Paragraph), NEW n
    PROVE  Labels(paras, n) \in Seq(Nat)
BY MediaAtType, FlattenType DEF Labels

LEMMA LabelsAppend ==
    ASSUME NEW paras \in Seq(Paragraph), NEW p \in Paragraph, NEW n
    PROVE  Labels(Append(paras, p), n) =
              Labels(paras, n) \o (IF IsMedia(p) /\ n = Len(Prose(paras)) THEN p ELSE <<>>)
<1> DEFINE one == IF IsMedia(p) /\ n = Len(Prose(paras)) THEN <<p>> ELSE <<>>
           at == MediaAt(paras, n)
<1>1. at \in Seq(Seq(Nat)) /\ one \in Seq(Seq(Nat)) /\ p \in Seq(Nat)
    BY MediaAtType, ParagraphKinds
<1>2. MediaAt(Append(paras, p), n) = at \o one
    BY MediaAtAppend
<1>3. FlattenSeq(one) = IF IsMedia(p) /\ n = Len(Prose(paras)) THEN p ELSE <<>>
    <2>1. FlattenSeq(<<p>>) = p
        BY <1>1, FlattenOne
    <2> QED
        BY <2>1, FlattenEmpty
<1> HIDE DEF one, at
<1>4. FlattenSeq(at \o one) = FlattenSeq(at) \o FlattenSeq(one)
    BY <1>1, FlattenConcat
<1> QED
    BY <1>2, <1>3, <1>4 DEF Labels, at

LEMMA WovenStep ==
    ASSUME NEW paras \in Seq(Paragraph)
    PROVE  /\ Woven(paras, 0) = <<>>
           /\ \A n \in 0 .. Len(Prose(paras)) : Woven(paras, n) \in Seq(Nat)
           /\ \A n \in 1 .. Len(Prose(paras)) :
                 Woven(paras, n) = Woven(paras, n - 1) \o (Labels(paras, n - 1) \o <<Prose(paras)[n]>>)
<1> DEFINE N == Len(Prose(paras))
           row(k) == Labels(paras, k - 1) \o <<Prose(paras)[k]>>
           rows(n) == [k \in 1 .. n |-> row(k)]
<1>1. N \in Nat /\ \A k \in 1 .. N : Prose(paras)[k] \in Nat
    BY ProseProperties DEF Word
<1>2. \A k \in 1 .. N : row(k) \in Seq(Nat)
    BY <1>1, LabelsType
<1> HIDE DEF row
<1>3. ASSUME NEW n \in 0 .. N
      PROVE  rows(n) \in Seq(Seq(Nat)) /\ Len(rows(n)) = n
    <2> DEFINE r == rows(n)
    <2>1. r = [k \in 1 .. n |-> r[k]] /\ n \in Nat /\ \A k \in 1 .. n : r[k] \in Seq(Nat)
        BY <1>1, <1>2
    <2> HIDE DEF r
    <2>2. r \in Seq(Seq(Nat)) /\ Len(r) = n
        BY <2>1, ListOf
    <2> QED
        BY <2>2 DEF r
<1>4. \A n : Woven(paras, n) = FlattenSeq(rows(n))
    BY DEF Woven, row
<1>5. Woven(paras, 0) = <<>>
    <2>1. rows(0) = <<>>
        OBVIOUS
    <2> QED
        BY <1>4, <2>1, FlattenEmpty
<1>6. ASSUME NEW n \in 0 .. N PROVE Woven(paras, n) \in Seq(Nat)
    <2> DEFINE r == rows(n)
    <2>1. r \in Seq(Seq(Nat))
        BY <1>3
    <2> HIDE DEF r
    <2>2. FlattenSeq(r) \in Seq(Nat)
        BY <2>1, FlattenType
    <2> QED
        BY <1>4, <2>2 DEF r
<1>7. ASSUME NEW n \in 1 .. N
      PROVE  Woven(paras, n) = Woven(paras, n - 1) \o row(n)
    <2> DEFINE r == rows(n - 1)
               t == rows(n)
               x == row(n)
    <2>1. n - 1 \in 0 .. N /\ n - 1 + 1 = n /\ n \in 0 .. N
        BY <1>1
    <2>2. r \in Seq(Seq(Nat)) /\ Len(r) = n - 1 /\ x \in Seq(Nat)
        BY <1>2, <1>3, <2>1
    <2>3. t = [i \in DOMAIN t |-> t[i]] /\ DOMAIN t = 1 .. n /\ t[n] = x /\ \A i \in 1 .. n - 1 : t[i] = r[i]
        BY <1>1
    <2> HIDE DEF r, t, x
    <2>4. DOMAIN t = 1 .. Len(r) + 1 /\ t[Len(r) + 1] = x /\ \A i \in 1 .. Len(r) : t[i] = r[i]
        BY <2>1, <2>2, <2>3
    <2>5. t = Append(r, x)
        BY <2>2, <2>3, <2>4, ListAppend
    <2>6. FlattenSeq(Append(r, x)) = FlattenSeq(r) \o x
        BY <2>2, FlattenAppend
    <2> QED
        BY <1>4, <2>5, <2>6 DEF r, t, x
<1> QED
    BY <1>5, <1>6, <1>7 DEF row

LEMMA WovenAgree ==
    ASSUME NEW paras, NEW qaras, NEW n \in Nat,
           \A k \in 1 .. n : Labels(paras, k - 1) = Labels(qaras, k - 1) /\ Prose(paras)[k] = Prose(qaras)[k]
    PROVE  Woven(paras, n) = Woven(qaras, n)
BY DEF Woven

(* Weaving the placeholders back in gives the whole stretch. *)
Whole(paras) == Woven(paras, Len(Prose(paras))) \o Labels(paras, Len(Prose(paras)))

LEMMA WholeAppendMedia ==
    ASSUME NEW paras \in Seq(Paragraph), NEW p \in Paragraph, IsMedia(p)
    PROVE  Whole(Append(paras, p)) = Whole(paras) \o p
<1> DEFINE all == Append(paras, p)
           N == Len(Prose(paras))
<1>1. N \in Nat /\ p \in Seq(Nat) /\ Prose(paras) \o <<>> = Prose(paras)
    BY ProseProperties, ParagraphKinds
<1>2. Prose(all) = Prose(paras)
    BY <1>1, ProseAppend
<1>3. \A n : Labels(all, n) = Labels(paras, n) \o (IF n = N THEN p ELSE <<>>)
    BY LabelsAppend
<1>4. \A n : Labels(paras, n) \in Seq(Nat)
    BY LabelsType
<1>5. \A n : n # N => Labels(all, n) = Labels(paras, n)
    <2> TAKE n
    <2>1. Labels(paras, n) \o <<>> = Labels(paras, n)
        BY <1>4
    <2> QED
        BY <1>3, <2>1
<1>6. Labels(all, N) = Labels(paras, N) \o p
    BY <1>3
<1> HIDE DEF all, N
<1>7. \A k \in 1 .. N : Labels(all, k - 1) = Labels(paras, k - 1) /\ Prose(all)[k] = Prose(paras)[k]
    BY <1>1, <1>2, <1>5
<1>8. Woven(all, N) = Woven(paras, N)
    BY <1>1, <1>7, WovenAgree
<1>9. Woven(paras, N) \in Seq(Nat)
    BY <1>1, WovenStep DEF N
<1> DEFINE w == Woven(paras, N)
           l == Labels(paras, N)
<1>10. w \in Seq(Nat) /\ l \in Seq(Nat)
    BY <1>4, <1>9
<1>11. Whole(all) = w \o (l \o p) /\ Whole(paras) = w \o l
    BY <1>2, <1>6, <1>8 DEF Whole, N
<1> HIDE DEF w, l
<1>12. w \o (l \o p) = (w \o l) \o p
    BY <1>1, <1>10, ConcatAssociates
<1> QED
    BY <1>11, <1>12 DEF all

LEMMA WholeAppendProse ==
    ASSUME NEW paras \in Seq(Paragraph), NEW p \in Paragraph, ~IsMedia(p)
    PROVE  Whole(Append(paras, p)) = Whole(paras) \o p
<1> DEFINE all == Append(paras, p)
           N == Len(Prose(paras))
           M == Len(p)
           w == Woven(paras, N)
           l == Labels(paras, N)
           up(k) == (w \o l) \o SubSeq(p, 1, k)
<1>0. all \in Seq(Paragraph)
    OBVIOUS
<1>1. N \in Nat /\ p \in Seq(Nat) /\ M \in Nat /\ p \in Seq(Word)
    BY ProseProperties, ParagraphKinds, ProseSegments
<1>2. Prose(all) = Prose(paras) \o p
    BY ProseAppend
<1>3. /\ Len(Prose(all)) = N + M
      /\ \A k \in 1 .. N : Prose(all)[k] = Prose(paras)[k]
      /\ \A k \in 1 .. M : Prose(all)[N + k] = p[k]
    BY <1>1, <1>2, ProseProperties
<1>4. \A n : Labels(paras, n) \in Seq(Nat)
    BY LabelsType
<1>5. \A n : Labels(all, n) = Labels(paras, n)
    <2> TAKE n
    <2>1. Labels(paras, n) \o <<>> = Labels(paras, n)
        BY <1>4
    <2> QED
        BY <2>1, LabelsAppend
<1>6. \A n : n \notin 0 .. N => Labels(all, n) = <<>>
    BY <1>5, MediaAtType, FlattenEmpty DEF Labels
<1> HIDE DEF all
<1>7. Woven(all, N) = w
    <2> HIDE DEF N
    <2>1. \A k \in 1 .. N : Labels(all, k - 1) = Labels(paras, k - 1) /\ Prose(all)[k] = Prose(paras)[k]
        BY <1>3, <1>5
    <2> QED
        BY <1>1, <2>1, WovenAgree
<1>8. w \in Seq(Nat) /\ l \in Seq(Nat)
    BY <1>1, <1>4, WovenStep
<1>9. /\ \A n \in 0 .. N + M : Woven(all, n) \in Seq(Nat)
      /\ \A n \in 1 .. N + M : Woven(all, n) = Woven(all, n - 1) \o (Labels(all, n - 1) \o <<Prose(all)[n]>>)
    BY <1>0, <1>3, WovenStep
<1> DEFINE S == {k \in 0 .. M : k = 0 \/ Woven(all, N + k) = up(k)}
<1> HIDE DEF N, M, w, l
<1>10. 0 \in S
    BY <1>1
<1>11. ASSUME NEW k \in 1 .. M, k - 1 \in S PROVE k \in S
    <2> DEFINE one == <<p[k]>>
               front == SubSeq(p, 1, k - 1)
    <2>1. /\ N + k \in 1 .. N + M /\ N + k - 1 = N + (k - 1) /\ p[k] \in Nat /\ one \in Seq(Nat)
          /\ front \in Seq(Nat) /\ k \in 0 .. M
        BY <1>1 DEF M
    <2>2. Woven(all, N + k) = Woven(all, N + (k - 1)) \o (Labels(all, N + (k - 1)) \o one)
        <3> DEFINE n == N + k
        <3>1. n \in 1 .. N + M /\ n - 1 = N + (k - 1)
            BY <1>1, <2>1
        <3>2. Prose(all)[n] = p[k]
            BY <1>3
        <3> HIDE DEF n
        <3>3. Woven(all, n) = Woven(all, n - 1) \o (Labels(all, n - 1) \o <<Prose(all)[n]>>)
            BY <1>9, <3>1
        <3>4. Woven(all, n) = Woven(all, N + (k - 1)) \o (Labels(all, N + (k - 1)) \o one)
            BY <3>1, <3>2, <3>3
        <3> QED
            BY <3>4 DEF n
    <2>3. SubSeq(p, 1, k) = front \o one
        <3>1. k \in 1 .. Len(p) /\ 1 \in 1 .. Len(p) /\ k \in 1 .. Len(p)
            BY <1>1 DEF M
        <3> QED
            BY <1>1, <3>1, SubSeqRecursiveSecond
    <2>4. CASE k = 1
        <3>1. front = <<>> /\ N + (k - 1) = N
            BY <1>1, <2>4
        <3> HIDE DEF one, front
        <3>2. Woven(all, N + k) = w \o (l \o one)
            BY <1>5, <1>7, <2>2, <3>1 DEF l
        <3>5. one \in Seq(Nat) /\ w \in Seq(Nat) /\ l \in Seq(Nat)
            BY <1>8, <2>1
        <3>6. (w \o l) \o one = w \o (l \o one)
            BY <3>5, ConcatAssociates
        <3>7. <<>> \o one = one
            BY <3>5
        <3>3. w \o (l \o one) = (w \o l) \o one /\ <<>> \o one = one
            BY <3>6, <3>7
        <3>4. up(k) = (w \o l) \o one
            BY <2>3, <3>1, <3>3
        <3> QED
            BY <2>1, <3>2, <3>3, <3>4
    <2>5. CASE k # 1
        <3>1. N + (k - 1) \notin 0 .. N
            BY <1>1, <2>5
        <3>2. Labels(all, N + (k - 1)) = <<>> /\ <<>> \o one = one
            BY <1>6, <2>1, <3>1
        <3>3. Woven(all, N + (k - 1)) = up(k - 1)
            BY <1>11, <2>5
        <3> DEFINE r == w \o l
        <3>4. r \in Seq(Nat)
            BY <1>8
        <3> HIDE DEF one, front, r
        <3>8. r \in Seq(Nat) /\ front \in Seq(Nat) /\ one \in Seq(Nat)
            BY <2>1, <3>4
        <3>5. (r \o front) \o one = r \o (front \o one)
            BY <3>8
        <3>6. Woven(all, N + k) = (r \o front) \o one
            BY <2>2, <3>2, <3>3 DEF r, front
        <3>7. Woven(all, N + k) = up(k)
            BY <2>3, <3>5, <3>6 DEF r
        <3> QED
            BY <2>1, <3>7
    <2> QED
        BY <2>4, <2>5
<1>12. M \in S
    <2> HIDE DEF S
    <2>1. \A k \in 0 .. M : k \in S
        BY <1>1, <1>10, <1>11, Upwards
    <2> QED
        BY <1>1, <2>1
<1>13. Whole(all) = Woven(all, N + M) \o Labels(all, N + M) /\ Whole(paras) = w \o l
    BY <1>3 DEF Whole, N, w, l
<1>14. CASE M = 0
    <2>1. p = <<>> /\ N + M = N
        BY <1>1, <1>14 DEF M
    <2>2. (w \o l) \o <<>> = w \o l
        BY <1>8
    <2> QED
        BY <1>5, <1>7, <1>13, <2>1, <2>2 DEF l, all
<1>15. CASE M # 0
    <2>1. N + M \notin 0 .. N
        BY <1>1, <1>15
    <2>2. Labels(all, N + M) = <<>>
        BY <1>6, <2>1 DEF N
    <2>3. Woven(all, N + M) = (w \o l) \o p
        <3>1. SubSeq(p, 1, M) = p
            BY <1>1, SubSeqFull DEF M
        <3> QED
            BY <1>12, <1>15, <3>1
    <2>4. (w \o l) \o p \in Seq(Nat)
        BY <1>1, <1>8
    <2>5. ((w \o l) \o p) \o <<>> = (w \o l) \o p
        BY <2>4
    <2> QED
        BY <1>13, <2>2, <2>3, <2>5 DEF all
<1> QED
    BY <1>14, <1>15

LEMMA WovenWhole ==
    ASSUME NEW paras \in Seq(Paragraph)
    PROVE  Whole(paras) = FlattenSeq(paras)
<1> DEFINE G == {s \in Seq(Paragraph) : Whole(s) = FlattenSeq(s)}
<1>1. <<>> \in G
    <2> DEFINE e == <<>>
    <2>1. e \in Seq(Paragraph) /\ FlattenSeq(e) = <<>> /\ Prose(e) = <<>> /\ MediaAt(e, 0) = <<>>
        BY FlattenEmpty DEF Prose, MediaAt
    <2>2. Woven(e, 0) = <<>>
        <3> HIDE DEF e
        <3> QED
            BY <2>1, WovenStep
    <2>3. Labels(e, 0) = <<>> /\ Len(Prose(e)) = 0
        BY <2>1, FlattenEmpty DEF Labels
    <2>4. Whole(e) = <<>> \o <<>>
        BY <2>2, <2>3 DEF Whole
    <2>5. <<>> \o <<>> = <<>>
        OBVIOUS
    <2> QED
        BY <2>1, <2>4, <2>5
<1>2. ASSUME NEW s \in Seq(Paragraph), s \in G, NEW p \in Paragraph
      PROVE  Append(s, p) \in G
    <2>1. Whole(Append(s, p)) = Whole(s) \o p
        BY WholeAppendMedia, WholeAppendProse
    <2>2. FlattenSeq(Append(s, p)) = FlattenSeq(s) \o p
        <3>1. s \in Seq(Seq(Nat)) /\ p \in Seq(Nat)
            BY ParagraphKinds, SubSequences
        <3> QED
            BY <3>1, FlattenAppend
    <2> QED
        BY <1>2, <2>1, <2>2
<1> HIDE DEF G
<1>3. \A s \in Seq(Paragraph) : s \in G
    BY <1>1, <1>2, ListsUpwards
<1> QED
    BY <1>3 DEF G

-----------------------------------------------------------------------------
(* The words of a diff, each with its segment.                              *)
LEMMA FlattenSingles ==
    ASSUME NEW T, NEW s \in Seq(T)
    PROVE  FlattenSeq([k \in DOMAIN s |-> <<s[k]>>]) = s
<1> DEFINE g == [x \in T |-> <<x>>]
           G == {u \in Seq(T) : FlatMap(g, u) = u}
<1>0. Maps(g, T, Seq(T)) /\ \A x \in T : g[x] = <<x>>
    BY DEF Maps
<1>1. Images(g, s) = [k \in DOMAIN s |-> <<s[k]>>]
    BY DEF Images
<1> HIDE DEF g
<1>2. <<>> \in G
    BY FlatMapEmpty
<1>3. ASSUME NEW u \in Seq(T), u \in G, NEW x \in T
      PROVE  Append(u, x) \in G
    <2>1. FlatMap(g, Append(u, x)) = FlatMap(g, u) \o g[x]
        BY <1>0, FlatMapAppend
    <2>2. u \o <<x>> = Append(u, x) /\ Append(u, x) \in Seq(T)
        OBVIOUS
    <2> QED
        BY <1>0, <1>3, <2>1, <2>2
<1> HIDE DEF G
<1>4. \A u \in Seq(T) : u \in G
    BY <1>2, <1>3, ListsUpwards
<1> QED
    BY <1>1, <1>4 DEF G, FlatMap

DiffWord == [seg : Nat, op : Op, word : Word]
WordsOf(diff) == {w \in DiffWord : w.seg # 0 /\ w.op = NewOp(diff, w.seg)}
WordSide(ops) == [w \in DiffWord |-> IF w.op \in ops THEN <<w.word>> ELSE <<>>]

LEMMA WordSideMaps == \A ops : Maps(WordSide(ops), DiffWord, Seq(Word))
<1> TAKE ops
<1>1. \A w \in DiffWord : <<w.word>> \in Seq(Word) /\ <<>> \in Seq(Word)
    BY DEF DiffWord
<1> QED
    BY <1>1 DEF Maps, WordSide

LEMMA WordsShow ==
    ASSUME NEW diff \in Seq(DiffSegment), NEW ops, ops \in {BeforeOps, AfterOps}
    PROVE  /\ Words(diff) \in Seq(WordsOf(diff)) /\ Words(diff) \in Seq(DiffWord)
           /\ FlatMap(WordSide(ops), Words(diff)) = Text(diff, ops)
<1> DEFINE rows == [i \in DOMAIN diff |-> WordRow(diff, i)]
<1>1. /\ Len(diff) \in Nat /\ DOMAIN diff = 1 .. Len(diff)
      /\ \A i \in DOMAIN diff : diff[i] \in DiffSegment
    OBVIOUS
<1>2. ASSUME NEW i \in DOMAIN diff
      PROVE  /\ WordRow(diff, i) \in Seq(WordsOf(diff)) /\ WordRow(diff, i) \in Seq(DiffWord)
             /\ FlatMap(WordSide(ops), WordRow(diff, i)) = IF diff[i].op \in ops THEN diff[i].text ELSE <<>>
    <2> DEFINE s == diff[i].text
               op == NewOp(diff, i)
               row == WordRow(diff, i)
               n == Len(s)
    <2>1. /\ s \in Seq(Word) /\ n \in Nat /\ DOMAIN s = 1 .. n /\ \A k \in 1 .. n : s[k] \in Word
          /\ diff[i].op \in Changes
        BY <1>1, ProseSegments DEF DiffSegment
    <2>2. op \in Op /\ (op \in ops <=> diff[i].op \in ops)
        <3>1. CASE Unchanged(diff)
            BY <3>1 DEF Unchanged, NewOp, Op, BeforeOps, AfterOps
        <3>2. CASE ~Unchanged(diff)
            BY <2>1, <3>2 DEF NewOp, Op, Changes
        <3> QED
            BY <3>1, <3>2
    <2>3. row = [k \in 1 .. n |-> row[k]] /\ \A k \in 1 .. n : row[k] = [seg |-> i, op |-> op, word |-> s[k]]
        BY <2>1 DEF WordRow
    <2> HIDE DEF s, row, n, op
    <2>4. \A k \in 1 .. n : row[k] \in DiffWord /\ row[k] \in WordsOf(diff) /\ row[k].op = op /\ row[k].word = s[k]
        <3> TAKE k \in 1 .. n
        <3> DEFINE w == row[k]
        <3>1. i \in Nat /\ i # 0
            BY <1>1
        <3>2. w \in DiffWord /\ w.op = op /\ w.word = s[k] /\ w.seg = i
            BY <2>1, <2>2, <2>3, <3>1 DEF DiffWord
        <3> HIDE DEF w
        <3>3. w \in WordsOf(diff)
            BY <3>1, <3>2 DEF WordsOf, op
        <3> QED
            BY <3>2, <3>3 DEF w
    <2>5. row \in Seq(WordsOf(diff)) /\ Len(row) = n /\ DOMAIN row = 1 .. n
        BY <2>1, <2>3, <2>4, ListOf
    <2>6. row \in Seq(DiffWord)
        BY <2>1, <2>3, <2>4, ListOf
    <2>7. CASE op \in ops
        <3>1. Images(WordSide(ops), row) = [k \in DOMAIN s |-> <<s[k]>>]
            BY <2>1, <2>4, <2>5, <2>7 DEF Images, WordSide
        <3>2. FlatMap(WordSide(ops), row) = s
            BY <2>1, <3>1, FlattenSingles DEF FlatMap
        <3> QED
            BY <2>2, <2>5, <2>6, <2>7, <3>2 DEF row, s
    <2>8. CASE op \notin ops
        <3>1. Images(WordSide(ops), row) = [k \in 1 .. n |-> <<>>]
            BY <2>1, <2>4, <2>5, <2>8 DEF Images, WordSide
        <3>2. FlatMap(WordSide(ops), row) = <<>>
            BY <2>1, <3>1, FlattenNothing DEF FlatMap
        <3> QED
            BY <2>2, <2>5, <2>6, <2>8, <3>2 DEF row, s
    <2> QED
        BY <2>7, <2>8
<1>3. rows = [i \in 1 .. Len(diff) |-> rows[i]] /\ \A i \in 1 .. Len(diff) : rows[i] = WordRow(diff, i)
    BY <1>1
<1>4. Words(diff) = FlattenSeq(rows)
    BY DEF Words
<1> HIDE DEF rows
<1>5. rows \in Seq(Seq(WordsOf(diff))) /\ DOMAIN rows = 1 .. Len(diff)
    BY <1>1, <1>2, <1>3, ListOf
<1>6. rows \in Seq(Seq(DiffWord))
    BY <1>1, <1>2, <1>3, ListOf
<1>7. FlattenSeq(rows) \in Seq(WordsOf(diff))
    BY <1>5, FlattenType
<1>8. FlattenSeq(rows) \in Seq(DiffWord)
    BY <1>6, FlattenType
<1>9. FlatMap(WordSide(ops), FlattenSeq(rows)) = FlattenSeq([i \in DOMAIN rows |-> FlatMap(WordSide(ops), rows[i])])
    BY <1>6, WordSideMaps, FlatMapFlatten
<1>10. [i \in DOMAIN rows |-> FlatMap(WordSide(ops), rows[i])]
         = [i \in DOMAIN diff |-> IF diff[i].op \in ops THEN diff[i].text ELSE <<>>]
    BY <1>1, <1>2, <1>3, <1>5
<1> QED
    BY <1>4, <1>7, <1>8, <1>9, <1>10 DEF Text

(* The side of a diff after each of its words. *)
SideSoFar(up, words, ops) ==
    /\ up \in [0 .. Len(words) -> Seq(Word)] /\ up[0] = <<>>
    /\ \A n \in 1 .. Len(words) :
          up[n] = up[n - 1] \o (IF words[n].op \in ops THEN <<words[n].word>> ELSE <<>>)

LEMMA WordPrefixes ==
    ASSUME NEW words \in Seq(DiffWord), NEW ops
    PROVE  \E up : SideSoFar(up, words, ops) /\ up[Len(words)] = FlatMap(WordSide(ops), words)
<1> DEFINE m == Images(WordSide(ops), words)
<1>1. m \in Seq(Seq(Word)) /\ Len(m) = Len(words)
    <2> HIDE DEF m
    <2> QED
        BY WordSideMaps, ImagesType DEF m
<1>2. \A n \in 1 .. Len(words) : m[n] = IF words[n].op \in ops THEN <<words[n].word>> ELSE <<>>
    BY DEF Images, WordSide
<1>3. FlatMap(WordSide(ops), words) = FlattenSeq(m)
    BY DEF FlatMap
<1> HIDE DEF m
<1>4. PICK up \in [0 .. Len(m) -> Seq(Word)] : Accumulates(up, m)
    BY <1>1, FlattenAccumulates
<1>5. /\ up \in [0 .. Len(words) -> Seq(Word)]
      /\ up[0] = <<>> /\ up[Len(words)] = FlatMap(WordSide(ops), words)
      /\ \A n \in 1 .. Len(words) :
            up[n] = up[n - 1] \o (IF words[n].op \in ops THEN <<words[n].word>> ELSE <<>>)
    BY <1>1, <1>2, <1>3, <1>4 DEF Accumulates
<1>6. SideSoFar(up, words, ops)
    BY <1>5 DEF SideSoFar
<1> QED
    BY <1>5, <1>6

(* Later words leave what is there alone. *)
Grows(up, N) ==
    \A n \in 1 .. N : up[n] = up[n - 1] \/ \E x \in Word : up[n] = Append(up[n - 1], x)

LEMMA PrefixesGrow ==
    ASSUME NEW N \in Nat, NEW up \in [0 .. N -> Seq(Word)], Grows(up, N)
    PROVE  \A n \in 0 .. N : /\ Len(up[n]) \in Nat /\ Len(up[n]) <= Len(up[N])
                             /\ \A i \in 1 .. Len(up[n]) : up[n][i] = up[N][i]
<1> DEFINE P(n) == /\ Len(up[n]) \in Nat /\ Len(up[n]) <= Len(up[N])
                   /\ \A i \in 1 .. Len(up[n]) : up[n][i] = up[N][i]
           S == {k \in 0 .. N : P(N - k)}
<1>1. \A n \in 0 .. N : up[n] \in Seq(Word) /\ Len(up[n]) \in Nat
    OBVIOUS
<1>2. 0 \in S
    BY <1>1
<1>3. ASSUME NEW k \in 1 .. N, k - 1 \in S PROVE k \in S
    <2> DEFINE n == N - (k - 1)
    <2>1. n \in 1 .. N /\ n - 1 = N - k /\ n \in 0 .. N /\ n - 1 \in 0 .. N /\ k \in 0 .. N
        OBVIOUS
    <2>2. P(n)
        BY <1>3
    <2> HIDE DEF n
    <2>3. up[n] = up[n - 1] \/ \E x \in Word : up[n] = Append(up[n - 1], x)
        BY <2>1 DEF Grows
    <2>4. CASE up[n] = up[n - 1]
        BY <2>1, <2>2, <2>4
    <2>5. CASE \E x \in Word : up[n] = Append(up[n - 1], x)
        <3> PICK x \in Word : up[n] = Append(up[n - 1], x)
            BY <2>5
        <3> DEFINE u == up[n - 1]
                   v == up[n]
        <3>1. u \in Seq(Word) /\ v = Append(u, x) /\ Len(u) \in Nat
            BY <2>1
        <3> HIDE DEF u, v
        <3>2. Len(v) = Len(u) + 1 /\ \A i \in 1 .. Len(u) : v[i] = u[i] /\ i \in 1 .. Len(v)
            BY <3>1
        <3>3. Len(v) <= Len(up[N]) /\ (\A i \in 1 .. Len(v) : v[i] = up[N][i]) /\ Len(up[N]) \in Nat
            BY <1>1, <2>2 DEF v
        <3>4. Len(u) <= Len(up[N]) /\ \A i \in 1 .. Len(u) : u[i] = up[N][i]
            BY <3>1, <3>2, <3>3
        <3> QED
            BY <2>1, <3>1, <3>4 DEF u
    <2> QED
        BY <2>3, <2>4, <2>5
<1> HIDE DEF S
<1>4. \A k \in 0 .. N : k \in S
    BY <1>2, <1>3, Upwards
<1>5. ASSUME NEW n \in 0 .. N PROVE P(n)
    <2>1. N - n \in 0 .. N /\ N - (N - n) = n
        OBVIOUS
    <2>2. P(N - (N - n))
        BY <1>4, <2>1 DEF S
    <2> QED
        BY <2>1, <2>2
<1> QED
    BY <1>5

-----------------------------------------------------------------------------
(* One word after the other, with the placeholders where they stand.        *)
MediaSegment == [op : Changes, text : MediaParagraph]
Segment == ProseSegment \cup MediaSegment

LEMMA WordsAssociate == \A r, s, t \in Seq(Nat) : (r \o s) \o t = r \o (s \o t)
    OBVIOUS

LEMMA Segments ==
    /\ Segment \subseteq AnySegment /\ DiffSegment \subseteq Segment /\ ProseSegment \subseteq Segment
    /\ Seq(Segment) \subseteq Seq(AnySegment)
<1>1. MediaSegment \subseteq AnySegment
    BY ParagraphKinds DEF MediaSegment, AnySegment, Changes, Op
<1>2. Segment \subseteq AnySegment /\ DiffSegment \subseteq Segment /\ ProseSegment \subseteq Segment
    BY <1>1, ProseSegments DEF Segment
<1> HIDE DEF Segment
<1> QED
    BY <1>2, SubSequences

AppendLast(out, word) == [out EXCEPT ![Len(out)].text = Append(@, word)]

LEMMA LastChanged ==
    ASSUME NEW out \in Seq(AnySegment), out # <<>>, NEW word \in Nat, NEW ops
    PROVE  LET L == Len(out)
               all == AppendLast(out, word)
           IN /\ L \in Nat /\ L # 0 /\ all \in Seq(AnySegment) /\ Len(all) = L
              /\ all[L] = [op |-> out[L].op, text |-> Append(out[L].text, word)]
              /\ \A i \in 1 .. L - 1 : all[i] = out[i]
              /\ Text(all, ops) = Text(out, ops) \o (IF out[L].op \in ops THEN <<word>> ELSE <<>>)
<1> DEFINE L == Len(out)
           all == [out EXCEPT ![L].text = Append(@, word)]
           front == SubSeq(out, 1, L - 1)
           old == out[L]
           last == [op |-> old.op, text |-> Append(old.text, word)]
           one == IF old.op \in ops THEN <<word>> ELSE <<>>
<1>1. L \in Nat /\ L # 0 /\ DOMAIN out = 1 .. L
    BY EmptyList
<1>2. old \in AnySegment
    BY <1>1
<1>3. last \in AnySegment /\ last.op = old.op /\ last.text = Append(old.text, word) /\ old.text \in Seq(Nat)
    BY <1>2 DEF AnySegment
<1>4. front \in Seq(AnySegment) /\ Len(front) = L - 1 /\ \A i \in 1 .. L - 1 : front[i] = out[i]
    BY <1>1
<1>5. out = Append(front, old)
    <2>1. out = [i \in DOMAIN out |-> out[i]] /\ L = L - 1 + 1
        BY <1>1
    <2> HIDE DEF L, front, old
    <2> QED
        BY <1>1, <1>2, <1>4, <2>1, ListAppend DEF old
<1>6. all = [i \in DOMAIN all |-> all[i]] /\ DOMAIN all = 1 .. L /\ all[L] = last /\ \A i \in 1 .. L - 1 : all[i] = out[i]
    <2>1. all = [i \in DOMAIN out |-> IF i = L THEN [out[L] EXCEPT !.text = Append(out[L].text, word)] ELSE out[i]]
        BY <1>1
    <2>2. [old EXCEPT !.text = Append(old.text, word)] = last
        <3> DEFINE t == Append(old.text, word)
        <3> HIDE DEF old, t
        <3>1. [old EXCEPT !.text = t] = [op |-> old.op, text |-> t]
            BY <1>2 DEF AnySegment
        <3> QED
            BY <3>1 DEF t
    <2>3. all = [i \in DOMAIN out |-> IF i = L THEN last ELSE out[i]]
        BY <2>1, <2>2
    <2> HIDE DEF all, last, L, old
    <2>4. DOMAIN all = 1 .. L /\ all[L] = last /\ \A i \in 1 .. L - 1 : all[i] = out[i]
        BY <1>1, <2>3
    <2> QED
        BY <1>1, <2>3, <2>4
<1> HIDE DEF L, all, front, old, last
<1>7. all = Append(front, last)
    <2>1. L = L - 1 + 1
        BY <1>1
    <2> QED
        BY <1>1, <1>3, <1>4, <1>6, <2>1, ListAppend
<1>8. all \in Seq(AnySegment) /\ Len(all) = L
    BY <1>1, <1>3, <1>4, <1>7
<1>9. Text(all, ops) = Text(front, ops) \o (IF last.op \in ops THEN last.text ELSE <<>>)
    BY <1>3, <1>4, <1>7, TextAppend
<1>10. Text(out, ops) = Text(front, ops) \o (IF old.op \in ops THEN old.text ELSE <<>>)
    BY <1>2, <1>4, <1>5, TextAppend
<1>11. Text(front, ops) \in Seq(Nat)
    BY <1>4, TextIsFlatMap
<1>12. Text(all, ops) = Text(out, ops) \o one
    <2> DEFINE t == Text(front, ops)
    <2> HIDE DEF t
    <2>1. t \in Seq(Nat)
        BY <1>11 DEF t
    <2>2. CASE old.op \in ops
        <3>1. t \o Append(old.text, word) = (t \o old.text) \o <<word>>
            BY <1>3, <2>1
        <3> QED
            BY <1>3, <1>9, <1>10, <2>2, <3>1 DEF t
    <2>3. CASE old.op \notin ops
        <3>1. (t \o <<>>) \o <<>> = t \o <<>>
            BY <2>1
        <3> QED
            BY <1>3, <1>9, <1>10, <2>3, <3>1 DEF t
    <2> QED
        BY <2>2, <2>3
<1> QED
    BY <1>1, <1>6, <1>8, <1>12 DEF L, all, old, last, AppendLast

LEMMA MediaEach ==
    ASSUME NEW op \in {"delete", "insert"}, NEW paras \in Seq(Paragraph), NEW n, NEW ops
    PROVE  /\ Each(op, MediaAt(paras, n)) \in Seq(Segment)
           /\ Text(Each(op, MediaAt(paras, n)), ops) = IF op \in ops THEN Labels(paras, n) ELSE <<>>
<1> DEFINE at == MediaAt(paras, n)
           each == Each(op, at)
<1>1. at \in Seq(MediaParagraph) /\ at \in Seq(Seq(Nat)) /\ op \in Op /\ op \in Changes
    BY MediaAtType DEF Op, Changes
<1> HIDE DEF at
<1>2. /\ each \in Seq(AnySegment) /\ \A i \in DOMAIN each : i \in DOMAIN at /\ each[i] = Seg(op, at[i])
      /\ Text(each, ops) = IF op \in ops THEN FlattenSeq(at) ELSE <<>>
    BY <1>1, EachText
<1> HIDE DEF each
<1>3. \A i \in DOMAIN each : each[i] \in Segment
    <2> TAKE i \in DOMAIN each
    <2>1. at[i] \in MediaParagraph
        BY <1>1, <1>2
    <2>2. Seg(op, at[i]) \in MediaSegment
        BY <1>1, <2>1 DEF Seg, MediaSegment
    <2> QED
        BY <1>2, <2>2 DEF Segment
<1> HIDE DEF Segment
<1>4. each \in Seq(Segment)
    <2>1. Len(each) \in Nat /\ DOMAIN each = 1 .. Len(each) /\ each = [i \in 1 .. Len(each) |-> each[i]]
        BY <1>2
    <2> QED
        BY <1>3, <2>1, ListOf
<1> QED
    BY <1>2, <1>4 DEF each, at, Labels

State == [a : Nat, b : Nat, aFlushed : Nat, bFlushed : Nat, seg : Nat, out : Seq(Segment)]

(* The placeholders that are due on one side. *)
SideDue(due, ops, paras, pos, flushed) == Text(due, ops) = IF pos >= flushed THEN Labels(paras, pos) ELSE <<>>

LEMMA DueShows ==
    ASSUME NEW st \in State, NEW old \in Seq(Paragraph), NEW new \in Seq(Paragraph)
    PROVE  /\ Due(st, old, new) \in Seq(Segment) /\ Due(st, old, new) \in Seq(AnySegment)
           /\ SideDue(Due(st, old, new), BeforeOps, old, st.a, st.aFlushed)
           /\ SideDue(Due(st, old, new), AfterOps, new, st.b, st.bFlushed)
<1> DEFINE d == IF st.a >= st.aFlushed THEN Each("delete", MediaAt(old, st.a)) ELSE <<>>
           i == IF st.b >= st.bFlushed THEN Each("insert", MediaAt(new, st.b)) ELSE <<>>
           ld == IF st.a >= st.aFlushed THEN Labels(old, st.a) ELSE <<>>
           li == IF st.b >= st.bFlushed THEN Labels(new, st.b) ELSE <<>>
<1>0. /\ "delete" \in BeforeOps /\ "insert" \notin BeforeOps /\ "delete" \notin AfterOps /\ "insert" \in AfterOps
      /\ "delete" \in {"delete", "insert"} /\ "insert" \in {"delete", "insert"}
    BY DEF BeforeOps, AfterOps
<1>1. <<>> \in Seq(Segment) /\ Text(<<>>, BeforeOps) = <<>> /\ Text(<<>>, AfterOps) = <<>>
    BY TextEmpty
<1>2. /\ Each("delete", MediaAt(old, st.a)) \in Seq(Segment)
      /\ Text(Each("delete", MediaAt(old, st.a)), BeforeOps) = Labels(old, st.a)
      /\ Text(Each("delete", MediaAt(old, st.a)), AfterOps) = <<>>
    BY <1>0, MediaEach
<1>3. /\ Each("insert", MediaAt(new, st.b)) \in Seq(Segment)
      /\ Text(Each("insert", MediaAt(new, st.b)), BeforeOps) = <<>>
      /\ Text(Each("insert", MediaAt(new, st.b)), AfterOps) = Labels(new, st.b)
    BY <1>0, MediaEach
<1>4. d \in Seq(Segment) /\ Text(d, BeforeOps) = ld /\ Text(d, AfterOps) = <<>>
    BY <1>1, <1>2
<1>5. i \in Seq(Segment) /\ Text(i, BeforeOps) = <<>> /\ Text(i, AfterOps) = li
    BY <1>1, <1>3
<1>6. Due(st, old, new) = d \o i
    BY DEF Due
<1>7. ld \in Seq(Nat) /\ li \in Seq(Nat)
    BY LabelsType
<1> HIDE DEF d, i, ld, li
<1>8. d \in Seq(AnySegment) /\ i \in Seq(AnySegment) /\ d \o i \in Seq(Segment)
    <2> HIDE DEF Segment
    <2> QED
        BY <1>4, <1>5, Segments
<1>9. Text(d \o i, BeforeOps) = Text(d, BeforeOps) \o Text(i, BeforeOps) /\ d \o i \in Seq(AnySegment)
    BY <1>8, TextConcat
<1>10. Text(d \o i, AfterOps) = Text(d, AfterOps) \o Text(i, AfterOps)
    BY <1>8, TextConcat
<1>11. ld \o <<>> = ld /\ <<>> \o li = li
    BY <1>7
<1> QED
    BY <1>4, <1>5, <1>6, <1>8, <1>9, <1>10, <1>11 DEF ld, li, SideDue

(* One side of the segments made so far: its first words with their         *)
(* placeholders, and those behind the last one if they are out already.     *)
SideOk(out, ops, paras, pos, flushed) ==
    /\ flushed \in {pos, pos + 1}
    /\ Text(out, ops) = Woven(paras, pos) \o (IF flushed = pos + 1 THEN Labels(paras, pos) ELSE <<>>)

SideReady(made, ops, paras, pos) == Text(made, ops) = Woven(paras, pos) \o Labels(paras, pos)

LEMMA SideFlush ==
    ASSUME NEW out \in Seq(AnySegment), NEW due \in Seq(AnySegment), NEW ops, NEW paras \in Seq(Paragraph),
           NEW pos \in 0 .. Len(Prose(paras)), NEW flushed, SideOk(out, ops, paras, pos, flushed),
           SideDue(due, ops, paras, pos, flushed)
    PROVE  SideReady(out \o due, ops, paras, pos)
<1>1. Text(out \o due, ops) = Text(out, ops) \o Text(due, ops)
    BY TextConcat
<1>2. Woven(paras, pos) \in Seq(Nat) /\ Labels(paras, pos) \in Seq(Nat) /\ pos \in Nat
    BY WovenStep, LabelsType, ProseProperties
<1>3. CASE flushed = pos
    <2>1. Woven(paras, pos) \o <<>> = Woven(paras, pos)
        BY <1>2
    <2>2. pos # pos + 1 /\ pos >= flushed
        BY <1>2, <1>3
    <2>3. Text(out, ops) = Woven(paras, pos) /\ Text(due, ops) = Labels(paras, pos)
        BY <1>3, <2>1, <2>2 DEF SideOk, SideDue
    <2> QED
        BY <1>1, <2>3 DEF SideReady
<1>4. CASE flushed = pos + 1
    <2>1. (Woven(paras, pos) \o Labels(paras, pos)) \o <<>> = Woven(paras, pos) \o Labels(paras, pos)
        BY <1>2
    <2>2. ~(pos >= flushed)
        BY <1>2, <1>4
    <2>3. Text(out, ops) = Woven(paras, pos) \o Labels(paras, pos) /\ Text(due, ops) = <<>>
        BY <1>4, <2>2 DEF SideOk, SideDue
    <2> QED
        BY <1>1, <2>1, <2>3 DEF SideReady
<1> QED
    BY <1>3, <1>4 DEF SideOk

Adds(made, out, ops, taken, word) == Text(out, ops) = Text(made, ops) \o (IF taken THEN <<word>> ELSE <<>>)

LEMMA SideWord ==
    ASSUME NEW made, NEW out, NEW ops, NEW paras \in Seq(Paragraph),
           NEW pos \in 0 .. Len(Prose(paras)), NEW word, NEW taken \in BOOLEAN,
           SideReady(made, ops, paras, pos), Adds(made, out, ops, taken, word),
           taken => pos + 1 \in 1 .. Len(Prose(paras)) /\ word = Prose(paras)[pos + 1]
    PROVE  SideOk(out, ops, paras, IF taken THEN pos + 1 ELSE pos, pos + 1)
<1> DEFINE w == Woven(paras, pos)
           l == Labels(paras, pos)
<1>1. w \in Seq(Nat) /\ l \in Seq(Nat) /\ pos \in Nat
    BY WovenStep, LabelsType, ProseProperties
<1> HIDE DEF w, l
<1>4. ASSUME NEW z \in Seq(Nat) PROVE (w \o l) \o z = w \o (l \o z)
    BY <1>1, WordsAssociate
<1>2. CASE ~taken
    <2>1. (w \o l) \o <<>> = w \o l
        BY <1>1
    <2>2. Text(out, ops) = w \o l
        BY <1>2, <2>1 DEF w, l, SideReady, Adds
    <2> QED
        BY <1>1, <1>2, <2>2 DEF SideOk, w, l
<1>3. CASE taken
    <2> DEFINE n == pos + 1
               one == <<word>>
    <2>1. n \in 1 .. Len(Prose(paras)) /\ n - 1 = pos /\ word = Prose(paras)[n] /\ n # n + 1
        BY <1>1, <1>3
    <2>2. one \in Seq(Nat)
        <3>1. word \in Nat
            BY <2>1, ProseProperties DEF Word
        <3> QED
            BY <3>1
    <2> HIDE DEF w, l, n
    <2>3. Woven(paras, n) = w \o (l \o one)
        BY <2>1, WovenStep DEF w, l
    <2> HIDE DEF one
    <2>4. (w \o l) \o one = w \o (l \o one)
        BY <1>4, <2>2
    <2>5. Text(out, ops) = Woven(paras, n)
        BY <1>3, <2>3, <2>4 DEF w, l, one, SideReady, Adds
    <2>6. Woven(paras, n) \in Seq(Nat)
        <3>1. n \in 0 .. Len(Prose(paras))
            BY <2>1, ProseProperties
        <3> QED
            BY <3>1, WovenStep
    <2>7. Woven(paras, n) \o <<>> = Woven(paras, n)
        BY <2>6
    <2> QED
        BY <1>3, <2>1, <2>5, <2>7 DEF SideOk, n
<1> QED
    BY <1>2, <1>3

-----------------------------------------------------------------------------
(* What holds of the segments between two words.                            *)
Placing(diff) ==
    {st \in State : st.seg # 0 => /\ st.out # <<>> /\ st.out[Len(st.out)].text \in ProseText
                                  /\ st.out[Len(st.out)].op = NewOp(diff, st.seg)}

LEMMA PlaceWordAdds ==
    ASSUME NEW diff, NEW st \in Placing(diff), NEW w \in WordsOf(diff),
           NEW old \in Seq(Paragraph), NEW new \in Seq(Paragraph)
    PROVE  LET next == PlaceWord(st, w, old, new)
               made == st.out \o Due(st, old, new)
           IN /\ next \in Placing(diff) /\ made \in Seq(AnySegment)
              /\ Adds(made, next.out, BeforeOps, w.op \in BeforeOps, w.word)
              /\ Adds(made, next.out, AfterOps, w.op \in AfterOps, w.word)
<1> DEFINE next == PlaceWord(st, w, old, new)
           due == Due(st, old, new)
           made == st.out \o due
           one == Seg(w.op, <<w.word>>)
           L == Len(st.out)
<1>1. /\ st \in State /\ st.out \in Seq(Segment) /\ st.out \in Seq(AnySegment)
      /\ st.a \in Nat /\ st.b \in Nat /\ st.seg \in Nat
    <2> HIDE DEF Segment
    <2> QED
        BY Segments DEF Placing, State
<1>2. due \in Seq(Segment) /\ due \in Seq(AnySegment)
    BY <1>1, DueShows
<1>3. w \in DiffWord /\ w.seg \in Nat /\ w.seg # 0 /\ w.op \in Op /\ w.op = NewOp(diff, w.seg) /\ w.word \in Word
    BY DEF WordsOf, DiffWord
<1>4. w.word \in Nat /\ <<w.word>> \in Seq(Nat) /\ <<w.word>> \in ProseText
    BY <1>3, ProseSegments DEF Word
<1>5. one \in ProseSegment /\ one \in Segment /\ one \in AnySegment /\ one.op = w.op /\ one.text = <<w.word>>
    BY <1>3, <1>4 DEF Seg, ProseSegment, Segment, AnySegment
<1> HIDE DEF due, one
<1>6. made \in Seq(Segment) /\ made \in Seq(AnySegment)
    <2> HIDE DEF Segment
    <2> QED
        BY <1>1, <1>2, Segments
<1>7. /\ next.a = (IF w.op = "insert" THEN st.a ELSE st.a + 1)
      /\ next.b = (IF w.op = "delete" THEN st.b ELSE st.b + 1)
      /\ next.aFlushed = st.a + 1 /\ next.bFlushed = st.b + 1 /\ next.seg = w.seg
      /\ next = [a |-> next.a, b |-> next.b, aFlushed |-> next.aFlushed, bFlushed |-> next.bFlushed,
                 seg |-> next.seg, out |-> next.out]
      /\ next.out = IF due = <<>> /\ st.seg = w.seg
                    THEN [st.out EXCEPT ![L].text = Append(@, w.word)]
                    ELSE st.out \o due \o <<one>>
    BY DEF PlaceWord, due, one
<1> DEFINE out == next.out
<1>8. ASSUME out \in Seq(Segment), out # <<>>, out[Len(out)].text \in ProseText, out[Len(out)].op = w.op
      PROVE  next \in Placing(diff)
    <2> HIDE DEF next, Segment
    <2>1. next.a \in Nat /\ next.b \in Nat /\ next.aFlushed \in Nat /\ next.bFlushed \in Nat /\ next.seg \in Nat
        BY <1>1, <1>3, <1>7
    <2>2. next \in State
        BY <1>7, <1>8, <2>1 DEF State
    <2> QED
        BY <1>3, <1>7, <1>8, <2>2 DEF Placing
<1>9. CASE due = <<>> /\ st.seg = w.seg
    <2>1. st.out # <<>> /\ st.out[L].text \in ProseText /\ st.out[L].op = w.op
        BY <1>3, <1>9 DEF Placing
    <2>2. out = [st.out EXCEPT ![L].text = Append(@, w.word)]
        BY <1>7, <1>9
    <2> HIDE DEF L
    <2>3. made = st.out
        <3>1. st.out \o <<>> = st.out
            BY <1>1
        <3> QED
            BY <1>9, <3>1
    <2> HIDE DEF next, made
    <2> DEFINE all == AppendLast(st.out, w.word)
    <2>9. out = all
        BY <2>2 DEF AppendLast, L
    <2>11. \A ops : /\ L \in Nat /\ L # 0 /\ all \in Seq(AnySegment) /\ Len(all) = L
                    /\ all[L] = [op |-> st.out[L].op, text |-> Append(st.out[L].text, w.word)]
                    /\ \A i \in 1 .. L - 1 : all[i] = st.out[i]
                    /\ Text(all, ops) = Text(st.out, ops) \o (IF st.out[L].op \in ops THEN <<w.word>> ELSE <<>>)
        <3> DEFINE o == st.out
                   x == w.word
        <3>1. o \in Seq(AnySegment) /\ o # <<>> /\ x \in Nat
            BY <1>1, <1>4, <2>1
        <3> HIDE DEF o, x
        <3> TAKE ops
        <3>2. LET K == Len(o)
                  al == AppendLast(o, x)
              IN /\ K \in Nat /\ K # 0 /\ al \in Seq(AnySegment) /\ Len(al) = K
                 /\ al[K] = [op |-> o[K].op, text |-> Append(o[K].text, x)]
                 /\ \A i \in 1 .. K - 1 : al[i] = o[i]
                 /\ Text(al, ops) = Text(o, ops) \o (IF o[K].op \in ops THEN <<x>> ELSE <<>>)
            BY <3>1, LastChanged
        <3> QED
            BY <3>2 DEF o, x, L
    <2>4. /\ L \in Nat /\ L # 0 /\ all \in Seq(AnySegment) /\ Len(all) = L
          /\ all[L] = [op |-> st.out[L].op, text |-> Append(st.out[L].text, w.word)]
          /\ \A i \in 1 .. L - 1 : all[i] = st.out[i]
          /\ Text(all, BeforeOps) = Text(st.out, BeforeOps) \o (IF st.out[L].op \in BeforeOps THEN <<w.word>> ELSE <<>>)
          /\ Text(all, AfterOps) = Text(st.out, AfterOps) \o (IF st.out[L].op \in AfterOps THEN <<w.word>> ELSE <<>>)
        BY <2>11
    <2> HIDE DEF all
    <2>6. all[L].text \in ProseText /\ all[L].op = w.op /\ all[L] \in Segment
        <3>1. Append(st.out[L].text, w.word) \in ProseText
            BY <1>3, <2>1, ProseSegments
        <3>2. all[L] \in ProseSegment
            BY <1>3, <2>1, <2>4, <3>1 DEF ProseSegment
        <3> QED
            BY <2>1, <2>4, <3>1, <3>2 DEF Segment
    <2>7. all \in Seq(Segment) /\ all # <<>>
        <3> HIDE DEF Segment
        <3>1. \A i \in 1 .. L - 1 : st.out[i] \in Segment
            BY <1>1 DEF L
        <3>2. \A i \in 1 .. L : i = L \/ i \in 1 .. L - 1
            BY <2>4
        <3>3. \A i \in 1 .. L : all[i] \in Segment
            BY <2>4, <2>6, <3>1, <3>2
        <3>4. all = [i \in 1 .. L |-> all[i]]
            BY <2>4
        <3> QED
            BY <2>4, <3>3, <3>4, ListOf
    <2>8. next \in Placing(diff)
        BY <1>8, <2>4, <2>6, <2>7, <2>9
    <2>10. Adds(made, out, BeforeOps, w.op \in BeforeOps, w.word) /\ Adds(made, out, AfterOps, w.op \in AfterOps, w.word)
        BY <2>1, <2>3, <2>4, <2>9 DEF Adds
    <2> QED
        BY <1>6, <2>8, <2>10 DEF next, made, due
<1>10. CASE ~(due = <<>> /\ st.seg = w.seg)
    <2>1. out = made \o <<one>>
        BY <1>7, <1>10
    <2> HIDE DEF next, made
    <2>2. /\ Text(made \o <<one>>, BeforeOps) = Text(made, BeforeOps) \o Text(<<one>>, BeforeOps)
          /\ Text(made \o <<one>>, AfterOps) = Text(made, AfterOps) \o Text(<<one>>, AfterOps)
        <3>1. <<one>> \in Seq(AnySegment)
            BY <1>5
        <3>2. Text(made \o <<one>>, BeforeOps) = Text(made, BeforeOps) \o Text(<<one>>, BeforeOps)
            BY <1>6, <3>1, TextConcat
        <3>3. Text(made \o <<one>>, AfterOps) = Text(made, AfterOps) \o Text(<<one>>, AfterOps)
            BY <1>6, <3>1, TextConcat
        <3> QED
            BY <3>2, <3>3
    <2>3. /\ Text(<<one>>, BeforeOps) = IF w.op \in BeforeOps THEN <<w.word>> ELSE <<>>
          /\ Text(<<one>>, AfterOps) = IF w.op \in AfterOps THEN <<w.word>> ELSE <<>>
        BY <1>5, TextOne
    <2>4. Adds(made, out, BeforeOps, w.op \in BeforeOps, w.word) /\ Adds(made, out, AfterOps, w.op \in AfterOps, w.word)
        BY <2>1, <2>2, <2>3 DEF Adds
    <2>5. /\ out \in Seq(Segment) /\ Len(out) = Len(made) + 1 /\ out[Len(out)] = one /\ out # <<>>
        <3> HIDE DEF Segment
        <3>1. made \o <<one>> = Append(made, one) /\ Append(made, one) \in Seq(Segment)
            BY <1>5, <1>6
        <3>2. Len(Append(made, one)) = Len(made) + 1 /\ Append(made, one)[Len(made) + 1] = one /\ Len(made) \in Nat
            BY <1>5, <1>6
        <3>3. Len(out) # 0
            BY <2>1, <3>1, <3>2
        <3> HIDE DEF made, one
        <3>4. out # <<>>
            BY <3>3
        <3> QED
            BY <2>1, <3>1, <3>2, <3>4
    <2>6. next \in Placing(diff)
        BY <1>4, <1>5, <1>8, <2>5
    <2> QED
        BY <1>6, <2>4, <2>6 DEF next, made, due
<1> QED
    BY <1>9, <1>10

IsPlaced(h, words, old, new) ==
    h = [n \in 0 .. Len(words) |-> IF n = 0 THEN Start ELSE PlaceWord(h[n - 1], words[n], old, new)]

LEMMA PlacedIsPlaced ==
    ASSUME NEW diff, NEW words \in Seq(WordsOf(diff)), NEW old \in Seq(Paragraph), NEW new \in Seq(Paragraph),
           NEW h, h = CHOOSE g : IsPlaced(g, words, old, new)
    PROVE  /\ h \in [0 .. Len(words) -> Placing(diff)] /\ h[0] = Start
           /\ \A n \in 1 .. Len(words) : h[n] = PlaceWord(h[n - 1], words[n], old, new)
<1> DEFINE N == Len(words)
           D == Placing(diff)
           F == [n \in 1 .. N |-> [st \in D |-> PlaceWord(st, words[n], old, new)]]
           start == Start
<1>1. N \in Nat /\ \A n \in 1 .. N : words[n] \in WordsOf(diff)
    OBVIOUS
<1>2. start \in D
    BY DEF Placing, State, Start
<1>3. \A n \in 1 .. N : \A st \in D : PlaceWord(st, words[n], old, new) \in D
    BY <1>1, PlaceWordAdds
<1> HIDE DEF N, D, start
<1>4. F \in [1 .. N -> [D -> D]] /\ \A n \in 1 .. N : \A st \in D : F[n][st] = PlaceWord(st, words[n], old, new)
    BY <1>3
<1> HIDE DEF F
<1>5. PICK k : Steps(k, N, D, start, F)
    BY <1>1, <1>2, <1>4, StepByStep
<1>6. k \in [0 .. N -> D] /\ k[0] = start /\ \A n \in 1 .. N : k[n] = F[n][k[n - 1]]
    BY <1>5 DEF Steps
<1>7. \A n \in 0 .. N : k[n] = IF n = 0 THEN start ELSE PlaceWord(k[n - 1], words[n], old, new)
    <2> TAKE n \in 0 .. N
    <2>1. CASE n = 0
        BY <1>6, <2>1
    <2>2. CASE n # 0
        <3>1. n \in 1 .. N /\ n - 1 \in 0 .. N
            BY <1>1, <2>2
        <3>2. k[n - 1] \in D
            BY <1>6, <3>1
        <3> QED
            BY <1>4, <1>6, <2>2, <3>1, <3>2
    <2> QED
        BY <2>1, <2>2
<1>8. k = [n \in 0 .. N |-> IF n = 0 THEN start ELSE PlaceWord(k[n - 1], words[n], old, new)]
    BY <1>6, <1>7
<1>9. IsPlaced(k, words, old, new)
    BY <1>8 DEF IsPlaced, N, start
<1>10. IsPlaced(h, words, old, new)
    BY <1>9
<1>11. /\ h = [n \in 0 .. N |-> h[n]] /\ h[0] = start
       /\ \A n \in 0 .. N : n # 0 => h[n] = PlaceWord(h[n - 1], words[n], old, new)
    <2>1. h = [n \in 0 .. N |-> IF n = 0 THEN start ELSE PlaceWord(h[n - 1], words[n], old, new)]
        BY <1>10 DEF IsPlaced, N, start
    <2>2. 0 \in 0 .. N
        BY <1>1
    <2> QED
        BY <2>1, <2>2
<1> DEFINE S == {n \in 0 .. N : h[n] \in D}
<1>12. 0 \in S
    BY <1>1, <1>2, <1>11
<1>13. \A n \in 1 .. N : n - 1 \in S => n \in S
    BY <1>1, <1>3, <1>11
<1> HIDE DEF S
<1>14. \A n \in 0 .. N : n \in S
    BY <1>1, <1>12, <1>13, Upwards
<1>15. h \in [0 .. N -> D]
    BY <1>11, <1>14 DEF S
<1>16. \A n \in 1 .. N : n \in 0 .. N /\ n # 0
    BY <1>1
<1> QED
    BY <1>11, <1>15, <1>16 DEF N, D, start

-----------------------------------------------------------------------------
(* A stretch with placeholders, word by word from its start to its end.     *)
LEMMA WordTaken ==
    ASSUME NEW words \in Seq(DiffWord), NEW ops, NEW up, SideSoFar(up, words, ops)
    PROVE  /\ \A n \in 0 .. Len(words) : Len(up[n]) \in 0 .. Len(up[Len(words)])
           /\ \A n \in 1 .. Len(words) :
                 LET a == Len(up[n - 1])
                 IN IF words[n].op \in ops
                    THEN /\ Len(up[n]) = a + 1 /\ a + 1 \in 1 .. Len(up[Len(words)])
                         /\ words[n].word = up[Len(words)][a + 1]
                    ELSE Len(up[n]) = a
<1> DEFINE N == Len(words)
<1>1. /\ N \in Nat /\ up \in [0 .. N -> Seq(Word)]
      /\ \A n \in 1 .. N : n \in 0 .. N /\ n - 1 \in 0 .. N /\ words[n].word \in Word
      /\ \A n \in 1 .. N : up[n] = up[n - 1] \o (IF words[n].op \in ops THEN <<words[n].word>> ELSE <<>>)
    BY DEF SideSoFar, DiffWord
<1> HIDE DEF N
<1>2. ASSUME NEW n \in 1 .. N
      PROVE  up[n] = IF words[n].op \in ops THEN Append(up[n - 1], words[n].word) ELSE up[n - 1]
    <2> DEFINE u == up[n - 1]
               x == words[n].word
    <2>1. u \in Seq(Word) /\ x \in Word
        BY <1>1
    <2> HIDE DEF u, x
    <2>2. u \o <<x>> = Append(u, x) /\ u \o <<>> = u
        BY <2>1
    <2> QED
        BY <1>1, <2>2 DEF u, x
<1>3. Grows(up, N)
    BY <1>1, <1>2 DEF Grows
<1>4. \A n \in 0 .. N : /\ Len(up[n]) \in Nat /\ Len(up[n]) <= Len(up[N])
                        /\ \A i \in 1 .. Len(up[n]) : up[n][i] = up[N][i]
    BY <1>1, <1>3, PrefixesGrow
<1>5. N \in 0 .. N
    BY <1>1
<1>6. \A n \in 0 .. N : Len(up[n]) \in 0 .. Len(up[N])
    BY <1>4, <1>5
<1>7. ASSUME NEW n \in 1 .. N, words[n].op \in ops
      PROVE  LET a == Len(up[n - 1])
             IN Len(up[n]) = a + 1 /\ a + 1 \in 1 .. Len(up[N]) /\ words[n].word = up[N][a + 1]
    <2> DEFINE u == up[n - 1]
               v == up[n]
               x == words[n].word
               a == Len(u)
    <2>1. u \in Seq(Word) /\ x \in Word /\ v = Append(u, x)
        BY <1>1, <1>2, <1>7
    <2>2. Len(v) <= Len(up[N]) /\ (\A i \in 1 .. Len(v) : v[i] = up[N][i]) /\ Len(up[N]) \in Nat
        BY <1>1, <1>4, <1>5
    <2> HIDE DEF u, v, x
    <2>3. Len(v) = a + 1 /\ v[a + 1] = x /\ a \in Nat /\ a + 1 \in 1 .. Len(v)
        BY <2>1
    <2> HIDE DEF a
    <2>4. a + 1 \in 1 .. Len(up[N]) /\ x = up[N][a + 1]
        BY <2>2, <2>3
    <2> QED
        BY <2>3, <2>4 DEF a, u, v, x
<1> QED
    BY <1>2, <1>6, <1>7 DEF N

LEMMA MediaAfterEnd ==
    ASSUME NEW paras \in Seq(Paragraph), NEW n, n = Len(Prose(paras)), NEW op
    PROVE  Each(op, MediaAfter(paras, n)) = <<>>
<1>1. n \in Nat /\ Len(Prose(paras)) - n = 0
    BY ProseProperties
<1>2. [k \in 1 .. 0 |-> MediaAt(paras, n + k)] = <<>>
    OBVIOUS
<1>3. MediaAfter(paras, n) = <<>>
    BY <1>1, <1>2, FlattenEmpty DEF MediaAfter
<1> QED
    BY <1>3 DEF Each

LEMMA ReplaceUnfold ==
    ASSUME NEW old, NEW new
    PROVE  LET diff == WordDiff(Prose(old), Prose(new))
               words == Words(diff)
               end == (CHOOSE h : IsPlaced(h, words, old, new))[Len(words)]
           IN ReplaceWithMedia(old, new) =
                 end.out \o Due(end, old, new) \o Each("delete", MediaAfter(old, end.a))
                                               \o Each("insert", MediaAfter(new, end.b))
BY DEF ReplaceWithMedia, Finished, PlaceWords, IsPlaced

LEMMA ReplaceShows ==
    ASSUME NEW old \in Seq(Paragraph), NEW new \in Seq(Paragraph), ~TooLong(Prose(old), Prose(new))
    PROVE  /\ ReplaceWithMedia(old, new) \in Seq(Segment)
           /\ Text(ReplaceWithMedia(old, new), BeforeOps) = FlattenSeq(old)
           /\ Text(ReplaceWithMedia(old, new), AfterOps) = FlattenSeq(new)
<1> DEFINE diff == WordDiff(Prose(old), Prose(new))
           words == Words(diff)
           N == Len(words)
           h == CHOOSE h : IsPlaced(h, words, old, new)
           end == h[N]
<1>1. /\ diff \in Seq(DiffSegment) /\ Text(diff, BeforeOps) = Prose(old) /\ Text(diff, AfterOps) = Prose(new)
    <2>1. Prose(old) \in ProseText /\ Prose(new) \in ProseText
        BY ProseProperties, ProseSegments
    <2> QED
        BY <2>1, WordDiffShows
<1>2. ReplaceWithMedia(old, new) =
         end.out \o Due(end, old, new) \o Each("delete", MediaAfter(old, end.a))
                                       \o Each("insert", MediaAfter(new, end.b))
    BY ReplaceUnfold
<1> HIDE DEF diff
<1>3. /\ words \in Seq(WordsOf(diff)) /\ words \in Seq(DiffWord)
      /\ FlatMap(WordSide(BeforeOps), words) = Prose(old)
      /\ FlatMap(WordSide(AfterOps), words) = Prose(new)
    <2>1. BeforeOps \in {BeforeOps, AfterOps} /\ AfterOps \in {BeforeOps, AfterOps}
        OBVIOUS
    <2>2. words \in Seq(WordsOf(diff)) /\ words \in Seq(DiffWord) /\ FlatMap(WordSide(BeforeOps), words) = Text(diff, BeforeOps)
        BY <1>1, <2>1, WordsShow
    <2>3. FlatMap(WordSide(AfterOps), words) = Text(diff, AfterOps)
        BY <1>1, <2>1, WordsShow
    <2> QED
        BY <1>1, <2>2, <2>3
<1> HIDE DEF words
<1>4. N \in Nat /\ \A n \in 1 .. N : n \in 0 .. N /\ n - 1 \in 0 .. N /\ words[n] \in WordsOf(diff) /\ words[n].op \in Op
    <2>1. N \in Nat /\ \A n \in 1 .. N : words[n] \in WordsOf(diff) /\ words[n] \in DiffWord
        BY <1>3
    <2>2. \A n \in 1 .. N : n \in 0 .. N /\ n - 1 \in 0 .. N
        BY <2>1
    <2> QED
        BY <2>1, <2>2 DEF DiffWord
<1>5. /\ h \in [0 .. N -> Placing(diff)] /\ h[0] = Start
      /\ \A n \in 1 .. N : h[n] = PlaceWord(h[n - 1], words[n], old, new)
    BY <1>3, PlacedIsPlaced
<1> HIDE DEF h
<1>6. PICK upA : SideSoFar(upA, words, BeforeOps) /\ upA[N] = Prose(old)
    BY <1>3, WordPrefixes
<1>7. PICK upB : SideSoFar(upB, words, AfterOps) /\ upB[N] = Prose(new)
    BY <1>3, WordPrefixes
<1>8. /\ \A n \in 0 .. N : Len(upA[n]) \in 0 .. Len(Prose(old))
      /\ \A n \in 1 .. N : LET a == Len(upA[n - 1])
                           IN IF words[n].op \in BeforeOps
                              THEN Len(upA[n]) = a + 1 /\ a + 1 \in 1 .. Len(Prose(old)) /\ words[n].word = Prose(old)[a + 1]
                              ELSE Len(upA[n]) = a
    BY <1>3, <1>6, WordTaken
<1>9. /\ \A n \in 0 .. N : Len(upB[n]) \in 0 .. Len(Prose(new))
      /\ \A n \in 1 .. N : LET b == Len(upB[n - 1])
                           IN IF words[n].op \in AfterOps
                              THEN Len(upB[n]) = b + 1 /\ b + 1 \in 1 .. Len(Prose(new)) /\ words[n].word = Prose(new)[b + 1]
                              ELSE Len(upB[n]) = b
    BY <1>3, <1>7, WordTaken
<1> HIDE DEF N
<1> DEFINE Ok(st, n) == /\ st.a = Len(upA[n]) /\ SideOk(st.out, BeforeOps, old, st.a, st.aFlushed)
                        /\ st.b = Len(upB[n]) /\ SideOk(st.out, AfterOps, new, st.b, st.bFlushed)
           S == {n \in 0 .. N : Ok(h[n], n)}
<1>10. Len(upA[0]) = 0 /\ Len(upB[0]) = 0
    BY <1>6, <1>7 DEF SideSoFar
<1>11. ASSUME NEW n \in 0 .. N, Ok(h[n], n)
       PROVE  LET st == h[n]
                  made == st.out \o Due(st, old, new)
              IN /\ st \in Placing(diff) /\ st \in State /\ st.out \in Seq(AnySegment)
                 /\ made \in Seq(Segment) /\ made \in Seq(AnySegment)
                 /\ st.a \in 0 .. Len(Prose(old)) /\ SideReady(made, BeforeOps, old, st.a)
                 /\ st.b \in 0 .. Len(Prose(new)) /\ SideReady(made, AfterOps, new, st.b)
    <2> DEFINE st == h[n]
               due == Due(st, old, new)
               out == st.out
    <2>1. st \in Placing(diff) /\ st \in State
        BY <1>5 DEF Placing
    <2>2. st.a \in 0 .. Len(Prose(old)) /\ st.b \in 0 .. Len(Prose(new))
        BY <1>8, <1>9, <1>11
    <2>3. out \in Seq(Segment) /\ out \in Seq(AnySegment)
        <3> HIDE DEF Segment
        <3> QED
            BY <2>1, Segments DEF State
    <2>4. /\ due \in Seq(Segment) /\ due \in Seq(AnySegment)
          /\ SideDue(due, BeforeOps, old, st.a, st.aFlushed) /\ SideDue(due, AfterOps, new, st.b, st.bFlushed)
        <3> HIDE DEF st
        <3> QED
            BY <2>1, DueShows
    <2>5. SideOk(out, BeforeOps, old, st.a, st.aFlushed) /\ SideOk(out, AfterOps, new, st.b, st.bFlushed)
        BY <1>11
    <2> HIDE DEF st, due, out
    <2>6. SideReady(out \o due, BeforeOps, old, st.a)
        BY <2>2, <2>3, <2>4, <2>5, SideFlush
    <2>7. SideReady(out \o due, AfterOps, new, st.b)
        BY <2>2, <2>3, <2>4, <2>5, SideFlush
    <2>8. out \o due \in Seq(Segment) /\ out \o due \in Seq(AnySegment)
        <3> HIDE DEF Segment
        <3> QED
            BY <2>3, <2>4
    <2> QED
        BY <2>1, <2>2, <2>3, <2>6, <2>7, <2>8 DEF st, due, out
<1>12. 0 \in S
    <2>1. Text(<<>>, BeforeOps) = <<>> /\ Text(<<>>, AfterOps) = <<>> /\ Woven(old, 0) = <<>> /\ Woven(new, 0) = <<>>
        BY TextEmpty, WovenStep
    <2>2. <<>> \o <<>> = <<>>
        OBVIOUS
    <2>3. SideOk(<<>>, BeforeOps, old, 0, 0) /\ SideOk(<<>>, AfterOps, new, 0, 0)
        BY <2>1, <2>2 DEF SideOk
    <2> QED
        BY <1>4, <1>5, <1>10, <2>3 DEF Start
<1>13. ASSUME NEW n \in 1 .. N, n - 1 \in S PROVE n \in S
    <2> DEFINE st == h[n - 1]
               w == words[n]
               next == h[n]
               made == st.out \o Due(st, old, new)
    <2>0. n - 1 \in 0 .. N /\ Ok(st, n - 1) /\ n \in 0 .. N
        BY <1>4, <1>13
    <2>1. next = PlaceWord(st, w, old, new) /\ w \in WordsOf(diff) /\ w.op \in Op
        BY <1>4, <1>5
    <2>2. /\ st \in Placing(diff) /\ st \in State
          /\ st.a \in 0 .. Len(Prose(old)) /\ SideReady(made, BeforeOps, old, st.a)
          /\ st.b \in 0 .. Len(Prose(new)) /\ SideReady(made, AfterOps, new, st.b)
        BY <1>11, <2>0
    <2>3. /\ Adds(made, next.out, BeforeOps, w.op \in BeforeOps, w.word)
          /\ Adds(made, next.out, AfterOps, w.op \in AfterOps, w.word)
        <3> HIDE DEF st, w, next
        <3> QED
            BY <2>1, <2>2, PlaceWordAdds
    <2>4. /\ next.a = (IF w.op \in BeforeOps THEN st.a + 1 ELSE st.a) /\ next.aFlushed = st.a + 1
          /\ next.b = (IF w.op \in AfterOps THEN st.b + 1 ELSE st.b) /\ next.bFlushed = st.b + 1
        BY <2>1 DEF PlaceWord, Op, BeforeOps, AfterOps
    <2>5. /\ Len(upA[n]) = IF w.op \in BeforeOps THEN st.a + 1 ELSE st.a
          /\ w.op \in BeforeOps => st.a + 1 \in 1 .. Len(Prose(old)) /\ w.word = Prose(old)[st.a + 1]
        BY <1>8, <2>0
    <2>6. /\ Len(upB[n]) = IF w.op \in AfterOps THEN st.b + 1 ELSE st.b
          /\ w.op \in AfterOps => st.b + 1 \in 1 .. Len(Prose(new)) /\ w.word = Prose(new)[st.b + 1]
        BY <1>9, <2>0
    <2> DEFINE inA == w.op \in BeforeOps
               inB == w.op \in AfterOps
    <2>7. inA \in BOOLEAN /\ inB \in BOOLEAN
        OBVIOUS
    <2> HIDE DEF st, w, next, made
    <2>8. SideOk(next.out, BeforeOps, old, IF inA THEN st.a + 1 ELSE st.a, st.a + 1)
        <3>1. inA => st.a + 1 \in 1 .. Len(Prose(old)) /\ w.word = Prose(old)[st.a + 1]
            BY <2>5
        <3>2. Adds(made, next.out, BeforeOps, inA, w.word)
            BY <2>3
        <3> HIDE DEF inA
        <3> QED
            BY <2>2, <2>7, <3>1, <3>2, SideWord
    <2>9. SideOk(next.out, AfterOps, new, IF inB THEN st.b + 1 ELSE st.b, st.b + 1)
        <3>1. inB => st.b + 1 \in 1 .. Len(Prose(new)) /\ w.word = Prose(new)[st.b + 1]
            BY <2>6
        <3>2. Adds(made, next.out, AfterOps, inB, w.word)
            BY <2>3
        <3> HIDE DEF inB
        <3> QED
            BY <2>2, <2>7, <3>1, <3>2, SideWord
    <2>10. Ok(next, n)
        BY <2>4, <2>5, <2>6, <2>8, <2>9
    <2> QED
        BY <2>0, <2>10 DEF next
<1>14. Ok(end, N)
    <2> HIDE DEF S
    <2>1. \A n \in 0 .. N : n \in S
        BY <1>4, <1>12, <1>13, Upwards
    <2>2. N \in 0 .. N
        BY <1>4
    <2> QED
        BY <2>1, <2>2 DEF S
<1> DEFINE made == end.out \o Due(end, old, new)
<1>15. /\ made \in Seq(Segment) /\ end.a = Len(Prose(old)) /\ end.b = Len(Prose(new))
       /\ Text(made, BeforeOps) = Whole(old) /\ Text(made, AfterOps) = Whole(new)
    <2>1. N \in 0 .. N
        BY <1>4
    <2>2. /\ made \in Seq(Segment) /\ SideReady(made, BeforeOps, old, end.a) /\ SideReady(made, AfterOps, new, end.b)
        BY <1>11, <1>14, <2>1
    <2>3. end.a = Len(Prose(old)) /\ end.b = Len(Prose(new))
        BY <1>6, <1>7, <1>14
    <2> QED
        BY <2>2, <2>3 DEF SideReady, Whole
<1>16. ReplaceWithMedia(old, new) = made
    <2>1. Each("delete", MediaAfter(old, end.a)) = <<>> /\ Each("insert", MediaAfter(new, end.b)) = <<>>
        BY <1>15, MediaAfterEnd
    <2> HIDE DEF made, Segment
    <2>2. (made \o <<>>) \o <<>> = made
        BY <1>15
    <2> QED
        BY <1>2, <2>1, <2>2 DEF made
<1> QED
    BY <1>15, <1>16, WovenWhole

-----------------------------------------------------------------------------
(* The aligned paragraphs are both versions.                                *)
LEMMA EachParagraph ==
    ASSUME NEW op \in Changes, NEW paras \in Seq(Paragraph), NEW ops
    PROVE  /\ Each(op, paras) \in Seq(Segment)
           /\ Text(Each(op, paras), ops) = IF op \in ops THEN FlattenSeq(paras) ELSE <<>>
<1> DEFINE each == Each(op, paras)
<1>1. paras \in Seq(Seq(Nat)) /\ op \in Op
    BY ParagraphKinds, SubSequences DEF Op, Changes
<1>2. /\ each \in Seq(AnySegment) /\ \A i \in DOMAIN each : i \in DOMAIN paras /\ each[i] = Seg(op, paras[i])
      /\ Text(each, ops) = IF op \in ops THEN FlattenSeq(paras) ELSE <<>>
    BY <1>1, EachText
<1> HIDE DEF each
<1>3. \A i \in DOMAIN each : each[i] \in Segment
    <2> TAKE i \in DOMAIN each
    <2>1. paras[i] \in Paragraph
        BY <1>2
    <2>2. paras[i] \in ProseText => Seg(op, paras[i]) \in ProseSegment
        BY <1>1 DEF Seg, ProseSegment
    <2>3. paras[i] \in MediaParagraph => Seg(op, paras[i]) \in MediaSegment
        BY DEF Seg, MediaSegment
    <2> QED
        BY <1>2, <2>1, <2>2, <2>3 DEF Segment, Paragraph
<1> HIDE DEF Segment
<1>4. each \in Seq(Segment)
    <2>1. Len(each) \in Nat /\ DOMAIN each = 1 .. Len(each) /\ each = [i \in 1 .. Len(each) |-> each[i]]
        BY <1>2
    <2> QED
        BY <1>3, <2>1, ListOf
<1> QED
    BY <1>2, <1>4 DEF each

LEMMA OneParagraph ==
    ASSUME NEW s \in Seq(Paragraph), Len(s) = 1, ~IsMedia(s[1])
    PROVE  s[1] \in ProseText /\ Prose(s) = s[1] /\ FlattenSeq(s) = s[1]
<1> DEFINE p == s[1]
<1>1. p \in Paragraph /\ s = <<p>>
    OBVIOUS
<1>2. p \in ProseText /\ p \in Seq(Nat)
    BY <1>1, ParagraphKinds
<1>3. Prose(s) = FlatMap(ProseOf, s)
    BY ProseProperties
<1> HIDE DEF p
<1>4. FlatMap(ProseOf, <<p>>) = ProseOf[p]
    BY <1>1, ProseMaps, FlatMapOne
<1>5. ProseOf[p] = p
    BY <1>1, <1>2, ParagraphKinds DEF ProseOf
<1>6. FlattenSeq(<<p>>) = p
    BY <1>2, FlattenOne
<1> QED
    BY <1>1, <1>2, <1>3, <1>4, <1>5, <1>6 DEF p

AlignedTooLong(o) == (Mixed(o) \/ Reworded(o)) /\ TooLong(Prose(o.a), Prose(o.b))

LEMMA AlignedShows ==
    ASSUME NEW o \in Code(Paragraph), ~AlignedTooLong(o)
    PROVE  /\ Aligned(o) \in Seq(Segment)
           /\ Text(Aligned(o), BeforeOps) = FlattenSeq(o.a) /\ Text(Aligned(o), AfterOps) = FlattenSeq(o.b)
<1> DEFINE a == o.a
           b == o.b
<1>1. /\ a \in Seq(Paragraph) /\ b \in Seq(Paragraph) /\ (o.equal => a = b) /\ o.equal \in BOOLEAN
      /\ a \in Seq(Seq(Nat)) /\ b \in Seq(Seq(Nat))
    BY ParagraphKinds, SubSequences DEF Code
<1>2. /\ "equal" \in Changes /\ "delete" \in Changes /\ "insert" \in Changes
      /\ "equal" \in BeforeOps /\ "delete" \in BeforeOps /\ "insert" \notin BeforeOps
      /\ "equal" \in AfterOps /\ "delete" \notin AfterOps /\ "insert" \in AfterOps
    BY DEF Changes, BeforeOps, AfterOps
<1>3. CASE o.equal
    <2>1. Aligned(o) = Each("equal", a)
        BY <1>3 DEF Aligned, Mixed, Reworded
    <2>2. Each("equal", a) \in Seq(Segment) /\ Text(Each("equal", a), BeforeOps) = FlattenSeq(a)
        BY <1>1, <1>2, EachParagraph
    <2>3. Text(Each("equal", a), AfterOps) = FlattenSeq(a)
        BY <1>1, <1>2, EachParagraph
    <2> QED
        BY <1>1, <1>3, <2>1, <2>2, <2>3
<1>4. CASE Mixed(o)
    <2>1. Aligned(o) = ReplaceWithMedia(a, b)
        BY <1>4 DEF Aligned, Mixed, Reworded
    <2>2. ~TooLong(Prose(a), Prose(b))
        BY <1>4 DEF AlignedTooLong
    <2> HIDE DEF a, b
    <2> QED
        BY <1>1, <2>1, <2>2, ReplaceShows DEF a, b
<1>5. CASE Reworded(o)
    <2>1. ~Mixed(o) /\ ~o.equal
        BY <1>5 DEF Mixed, Reworded
    <2>2. Aligned(o) = WordDiff(a[1], b[1])
        BY <1>5, <2>1 DEF Aligned
    <2>3. Len(a) = 1 /\ Len(b) = 1 /\ ~IsMedia(a[1]) /\ ~IsMedia(b[1])
        <3>1. Len(a) = 1 /\ Len(b) = 1 /\ \A i \in DOMAIN (a \o b) : ~IsMedia((a \o b)[i])
            BY <1>5 DEF Reworded, HasMedia
        <3> HIDE DEF a, b
        <3>2. DOMAIN (a \o b) = 1 .. 2 /\ (a \o b)[1] = a[1] /\ (a \o b)[2] = b[1]
            <4>5. a \in Seq(Paragraph) /\ b \in Seq(Paragraph)
                BY <1>1
            <4>6. Len(a) = 1 /\ Len(b) = 1
                BY <3>1
            <4>1. Len(a \o b) = 2 /\ a \o b \in Seq(Paragraph)
                BY <4>5, <4>6
            <4>2. DOMAIN (a \o b) = 1 .. 2
                BY <4>1
            <4>3. (a \o b)[1] = a[1]
                BY <4>5, <4>6
            <4>4. (a \o b)[2] = b[1]
                <5>1. 2 \in DOMAIN (a \o b) /\ ~(2 <= Len(a)) /\ 2 - Len(a) = 1
                    BY <4>2, <4>6
                <5>2. \A i \in DOMAIN (a \o b) : ~(i <= Len(a)) =>
                          i - Len(a) \in DOMAIN b /\ (a \o b)[i] = b[i - Len(a)]
                    BY <4>5, ConcatParts
                <5> QED
                    BY <5>1, <5>2
            <4> QED
                BY <4>2, <4>3, <4>4
        <3>3. 1 \in 1 .. 2 /\ 2 \in 1 .. 2
            OBVIOUS
        <3> QED
            BY <3>1, <3>2, <3>3
    <2>4. ~TooLong(Prose(a), Prose(b))
        BY <1>5 DEF AlignedTooLong
    <2> HIDE DEF a, b
    <2>5. a[1] \in ProseText /\ Prose(a) = a[1] /\ FlattenSeq(a) = a[1]
        BY <1>1, <2>3, OneParagraph
    <2>6. b[1] \in ProseText /\ Prose(b) = b[1] /\ FlattenSeq(b) = b[1]
        BY <1>1, <2>3, OneParagraph
    <2>7. /\ WordDiff(a[1], b[1]) \in Seq(DiffSegment)
          /\ Text(WordDiff(a[1], b[1]), BeforeOps) = a[1] /\ Text(WordDiff(a[1], b[1]), AfterOps) = b[1]
        BY <2>4, <2>5, <2>6, WordDiffShows
    <2>8. WordDiff(a[1], b[1]) \in Seq(Segment)
        <3> HIDE DEF Segment
        <3> QED
            BY <2>7, Segments, SubSequences
    <2> QED
        BY <2>2, <2>5, <2>6, <2>7, <2>8 DEF a, b
<1>6. CASE ~o.equal /\ ~Mixed(o) /\ ~Reworded(o)
    <2> DEFINE d == Each("delete", a)
               n == Each("insert", b)
    <2>1. Aligned(o) = d \o n
        BY <1>6 DEF Aligned
    <2>2. d \in Seq(Segment) /\ Text(d, BeforeOps) = FlattenSeq(a)
        BY <1>1, <1>2, EachParagraph
    <2>3. Text(d, AfterOps) = <<>>
        BY <1>1, <1>2, EachParagraph
    <2>4. n \in Seq(Segment) /\ Text(n, AfterOps) = FlattenSeq(b)
        BY <1>1, <1>2, EachParagraph
    <2>5. Text(n, BeforeOps) = <<>>
        BY <1>1, <1>2, EachParagraph
    <2> HIDE DEF d, n
    <2>6. d \in Seq(AnySegment) /\ n \in Seq(AnySegment) /\ d \o n \in Seq(Segment)
        <3> HIDE DEF Segment
        <3> QED
            BY <2>2, <2>4, Segments
    <2>7. Text(d \o n, BeforeOps) = Text(d, BeforeOps) \o Text(n, BeforeOps)
        BY <2>6, TextConcat
    <2>8. Text(d \o n, AfterOps) = Text(d, AfterOps) \o Text(n, AfterOps)
        BY <2>6, TextConcat
    <2>9. FlattenSeq(a) \o <<>> = FlattenSeq(a) /\ <<>> \o FlattenSeq(b) = FlattenSeq(b)
        <3>1. FlattenSeq(a) \in Seq(Nat) /\ FlattenSeq(b) \in Seq(Nat)
            BY <1>1, FlattenType
        <3> QED
            BY <3>1
    <2> QED
        BY <2>1, <2>2, <2>3, <2>4, <2>5, <2>6, <2>7, <2>8, <2>9
<1> QED
    BY <1>1, <1>3, <1>4, <1>5, <1>6

LEMMA AlignShows ==
    ASSUME NEW old \in Seq(Paragraph), NEW new \in Seq(Paragraph), ~AlignTooLong(old, new)
    PROVE  /\ Align(old, new) \in Seq(Segment)
           /\ Text(Align(old, new), BeforeOps) = FlattenSeq(old)
           /\ Text(Align(old, new), AfterOps) = FlattenSeq(new)
<1> DEFINE codes == Opcodes(old, new)
           P == [i \in DOMAIN codes |-> Aligned(codes[i])]
<1>1. Covers(codes, Paragraph, old, new)
    BY OpcodesCover
<1>2. Align(old, new) = FlattenSeq(P)
    BY DEF Align
<1>3. \A i \in DOMAIN codes : ~AlignedTooLong(codes[i])
    BY DEF AlignTooLong, AlignedTooLong
<1> HIDE DEF codes
<1>4. /\ codes \in Seq(Code(Paragraph)) /\ Len(codes) \in Nat /\ DOMAIN codes = 1 .. Len(codes)
      /\ \A i \in DOMAIN codes : codes[i] \in Code(Paragraph)
    BY <1>1 DEF Covers
<1>5. \A i \in DOMAIN codes : /\ P[i] \in Seq(Segment) /\ P[i] \in Seq(AnySegment)
                              /\ Text(P[i], BeforeOps) = FlattenSeq(codes[i].a)
                              /\ Text(P[i], AfterOps) = FlattenSeq(codes[i].b)
    <2> TAKE i \in DOMAIN codes
    <2>1. P[i] = Aligned(codes[i])
        OBVIOUS
    <2> HIDE DEF P, Segment
    <2>2. /\ P[i] \in Seq(Segment)
          /\ Text(P[i], BeforeOps) = FlattenSeq(codes[i].a) /\ Text(P[i], AfterOps) = FlattenSeq(codes[i].b)
        BY <1>3, <1>4, <2>1, AlignedShows
    <2> QED
        BY <2>2, Segments
<1>6. P = [i \in DOMAIN codes |-> P[i]]
    OBVIOUS
<1> HIDE DEF P, Segment
<1>7. PiecesOf(P, codes)
    BY <1>5, <1>6 DEF PiecesOf
<1>8. /\ DOMAIN P = DOMAIN codes
      /\ Text(FlattenSeq(P), BeforeOps) = FlattenSeq(Texts(P, BeforeOps))
      /\ Text(FlattenSeq(P), AfterOps) = FlattenSeq(Texts(P, AfterOps))
      /\ old = FlattenSeq(OldSides(codes)) /\ new = FlattenSeq(NewSides(codes))
    BY <1>1, <1>7, PiecesShow
<1> DEFINE os == OldSides(codes)
           ns == NewSides(codes)
<1>9. /\ os = [i \in 1 .. Len(codes) |-> os[i]] /\ ns = [i \in 1 .. Len(codes) |-> ns[i]]
      /\ \A i \in 1 .. Len(codes) : os[i] = codes[i].a /\ ns[i] = codes[i].b
    BY <1>4 DEF OldSides, NewSides
<1>10. \A i \in 1 .. Len(codes) : os[i] \in Seq(Seq(Nat)) /\ ns[i] \in Seq(Seq(Nat))
    BY <1>4, <1>9, ParagraphKinds, SubSequences DEF Code
<1> HIDE DEF os, ns
<1>11. os \in Seq(Seq(Seq(Nat))) /\ DOMAIN os = 1 .. Len(codes)
    BY <1>4, <1>9, <1>10, ListOf
<1>12. ns \in Seq(Seq(Seq(Nat))) /\ DOMAIN ns = 1 .. Len(codes)
    BY <1>4, <1>9, <1>10, ListOf
<1>13. Texts(P, BeforeOps) = [i \in DOMAIN os |-> FlattenSeq(os[i])]
    <2>1. \A i \in 1 .. Len(codes) : Text(P[i], BeforeOps) = FlattenSeq(os[i])
        BY <1>4, <1>5, <1>9
    <2>2. DOMAIN P = 1 .. Len(codes)
        BY <1>4, <1>8
    <2> QED
        BY <2>1, <2>2, <1>11 DEF Texts
<1>14. Texts(P, AfterOps) = [i \in DOMAIN ns |-> FlattenSeq(ns[i])]
    <2>1. \A i \in 1 .. Len(codes) : Text(P[i], AfterOps) = FlattenSeq(ns[i])
        BY <1>4, <1>5, <1>9
    <2>2. DOMAIN P = 1 .. Len(codes)
        BY <1>4, <1>8
    <2> QED
        BY <2>1, <2>2, <1>12 DEF Texts
<1>15. FlattenSeq(FlattenSeq(os)) = FlattenSeq([i \in DOMAIN os |-> FlattenSeq(os[i])])
    BY <1>11, FlattenFlatten
<1>16. FlattenSeq(FlattenSeq(ns)) = FlattenSeq([i \in DOMAIN ns |-> FlattenSeq(ns[i])])
    BY <1>12, FlattenFlatten
<1>17. P \in Seq(Seq(Segment))
    <2>1. \A i \in 1 .. Len(codes) : P[i] \in Seq(Segment)
        BY <1>4, <1>5
    <2>2. P = [i \in 1 .. Len(codes) |-> P[i]]
        BY <1>4, <1>6
    <2> QED
        BY <1>4, <2>1, <2>2, ListOf
<1>18. FlattenSeq(P) \in Seq(Segment)
    BY <1>17, FlattenType
<1> QED
    BY <1>2, <1>8, <1>13, <1>14, <1>15, <1>16, <1>18 DEF os, ns

-----------------------------------------------------------------------------
(* Sums of sums, and sums of what two lists exchange.                       *)
LEMMA TotalSum ==
    ASSUME NEW S, IsFiniteSet(S), NEW f, NEW g, NEW h,
           \A x \in S : g[x] \in Nat /\ h[x] \in Nat /\ f[x] = g[x] + h[x]
    PROVE  Total(f, S) = Total(g, S) + Total(h, S)
<1> DEFINE bad == {s \in SUBSET S : Total(f, s) # Total(g, s) + Total(h, s)}
<1> SUFFICES ASSUME bad # {}
             PROVE  FALSE
    OBVIOUS
<1>1. bad \in SUBSET SUBSET S
    OBVIOUS
<1> HIDE DEF bad
<1>2. PICK t \in bad : \A s \in bad : s \subseteq t => s = t
    BY <1>1, SmallestSet
<1> USE DEF bad
<1>3. t \in SUBSET S /\ IsFiniteSet(t) /\ IsFiniteSet({})
    BY FS_Subset, FS_EmptySet
<1>4. t # {}
    <2>1. Total(f, {}) = 0 /\ Total(g, {}) = 0 /\ Total(h, {}) = 0
        BY <1>3, TotalStep
    <2>2. Total(f, {}) = Total(g, {}) + Total(h, {})
        BY <2>1
    <2>3. {} \notin bad
        BY <2>2
    <2> QED
        BY <1>2, <2>3
<1> DEFINE x == Chosen(t)
           r == t \ {x}
<1>5. x \in t
    BY <1>4 DEF Chosen
<1>6. r \notin bad /\ r \in SUBSET S /\ IsFiniteSet(r)
    BY <1>2, <1>3, <1>5, FS_Subset
<1>7. Total(f, r) = Total(g, r) + Total(h, r)
    BY <1>6
<1>8. Total(g, r) \in Nat /\ Total(h, r) \in Nat
    BY <1>3, <1>6, TotalNat
<1>9. /\ Total(f, t) = f[x] + Total(f, r) /\ Total(g, t) = g[x] + Total(g, r)
      /\ Total(h, t) = h[x] + Total(h, r)
    BY <1>3, <1>4, TotalStep
<1>10. g[x] \in Nat /\ h[x] \in Nat /\ f[x] = g[x] + h[x]
    BY <1>3, <1>5
<1>11. Total(f, t) # Total(g, t) + Total(h, t)
    OBVIOUS
<1> HIDE DEF bad, x, r
<1> QED
    BY <1>7, <1>8, <1>9, <1>10, <1>11

(* Pairs of places, no place in two of them. *)
Separate(P, n) ==
    /\ \A c \in P : c[1] \in 1 .. n /\ c[2] \in 1 .. n
    /\ \A c, d \in P : c[1] = d[1] \/ c[2] = d[2] => c[1] = d[1] /\ c[2] = d[2]
    /\ \A c, d \in P : c[1] # d[2]
Swapped(P, k) ==
    IF \E c \in P : c[1] = k THEN (CHOOSE c \in P : c[1] = k)[2]
    ELSE IF \E c \in P : c[2] = k THEN (CHOOSE c \in P : c[2] = k)[1] ELSE k
(* What g gives at one place of a pair, f gives at the other.               *)
Exchanges(P, n, f, g) ==
    /\ \A c \in P : g[c[1]] = f[c[2]] /\ g[c[2]] = f[c[1]]
    /\ \A k \in 1 .. n : (\A c \in P : c[1] # k /\ c[2] # k) => g[k] = f[k]

LEMMA Exchange ==
    ASSUME NEW n \in Nat, NEW P, Separate(P, n), NEW f, NEW g, Exchanges(P, n, f, g),
           \A k \in 1 .. n : g[k] \in Nat
    PROVE  Total(g, 1 .. n) = Total(f, 1 .. n)
<1> DEFINE s == [k \in 1 .. n |-> Swapped(P, k)]
<1>1. \A c \in P : Swapped(P, c[1]) = c[2]
    <2> TAKE c \in P
    <2> DEFINE d == CHOOSE d \in P : d[1] = c[1]
    <2>1. d \in P /\ d[1] = c[1]
        OBVIOUS
    <2> HIDE DEF d
    <2>2. d[2] = c[2]
        BY <2>1 DEF Separate
    <2> QED
        BY <2>2 DEF Swapped, d
<1>2. \A c \in P : Swapped(P, c[2]) = c[1]
    <2> TAKE c \in P
    <2> DEFINE d == CHOOSE d \in P : d[2] = c[2]
    <2>1. d \in P /\ d[2] = c[2]
        OBVIOUS
    <2> HIDE DEF d
    <2>2. d[1] = c[1]
        BY <2>1 DEF Separate
    <2>3. ~\E b \in P : b[1] = c[2]
        BY DEF Separate
    <2> QED
        BY <2>2, <2>3 DEF Swapped, d
<1>3. \A k \in 1 .. n : (\A c \in P : c[1] # k /\ c[2] # k) => Swapped(P, k) = k
    BY DEF Swapped
<1>4. \A k \in 1 .. n : /\ Swapped(P, k) \in 1 .. n /\ Swapped(P, Swapped(P, k)) = k
                        /\ g[k] = f[Swapped(P, k)]
    <2> TAKE k \in 1 .. n
    <2>1. CASE \E c \in P : c[1] = k
        BY <1>1, <1>2, <2>1 DEF Separate, Exchanges
    <2>2. CASE \E c \in P : c[2] = k
        BY <1>1, <1>2, <2>2 DEF Separate, Exchanges
    <2>3. CASE \A c \in P : c[1] # k /\ c[2] # k
        BY <1>3, <2>3 DEF Exchanges
    <2> QED
        BY <2>1, <2>2, <2>3
<1>5. s \in [1 .. n -> 1 .. n] /\ \A k \in 1 .. n : s[s[k]] = k /\ g[k] = f[s[k]]
    BY <1>4
<1> HIDE DEF s
<1>6. s \in Bijection(1 .. n, 1 .. n)
    <2>1. \A a, b \in 1 .. n : s[a] = s[b] => a = b
        BY <1>5
    <2>2. \A b \in 1 .. n : \E a \in 1 .. n : s[a] = b
        BY <1>5
    <2> QED
        BY <1>5, <2>1, <2>2 DEF Bijection, Injection, Surjection, IsInjective
<1>7. IsFiniteSet(1 .. n)
    BY FS_Interval
<1>8. \A k \in 1 .. n : g[k] = f[s[k]] /\ g[k] \in Nat
    BY <1>5
<1> QED
    BY <1>6, <1>7, <1>8, TotalRenamed

-----------------------------------------------------------------------------
(* Similarity is a natural number.                                          *)
LEMMA RatioNat ==
    ASSUME NEW T, NEW a \in Seq(T), NEW b \in Seq(T)
    PROVE  Ratio(a, b) \in Nat
<1> DEFINE codes == Opcodes(a, b)
           g == [i \in DOMAIN codes |-> IF codes[i].equal THEN Len(codes[i].a) ELSE 0]
<1>1. codes \in Seq(Code(T))
    BY OpcodesCover DEF Covers
<1> HIDE DEF codes
<1>2. DOMAIN codes = 1 .. Len(codes) /\ Len(codes) \in Nat /\ \A i \in DOMAIN codes : codes[i] \in Code(T)
    BY <1>1
<1>3. IsFiniteSet(DOMAIN codes)
    BY <1>2, FS_Interval
<1>4. \A i \in DOMAIN codes : g[i] \in Nat
    <2> TAKE i \in DOMAIN codes
    <2>1. codes[i].a \in Seq(T)
        BY <1>2 DEF Code
    <2> QED
        BY <2>1
<1> HIDE DEF g
<1>5. Total(g, DOMAIN codes) \in Nat
    BY <1>3, <1>4, TotalNat
<1>6. Matched(a, b) \in Nat
    BY <1>5 DEF Matched, codes, g
<1> DEFINE m == 2000 * Matched(a, b)
           n == Len(a) + Len(b)
<1>7. m \in Nat /\ n \in Nat /\ Ratio(a, b) = IF a = <<>> /\ b = <<>> THEN 1000 ELSE m \div n
    BY <1>6 DEF Ratio
<1>8. ~(a = <<>> /\ b = <<>>) => n > 0
    OBVIOUS
<1> HIDE DEF m, n
<1>9. n > 0 => m \div n \in Nat
    BY <1>7
<1> QED
    BY <1>7, <1>8, <1>9

-----------------------------------------------------------------------------
(* Pairs fixed from the most similar down.                                  *)
OneToOne(s) == \A u, v \in s : u[2] = v[2] \/ u[3] = v[3] => u = v
IsFixed(h, order) ==
    h = [n \in 0 .. Len(order) |->
            IF n = 0 THEN {}
            ELSE IF Clash(h[n - 1], order[n]) THEN h[n - 1] ELSE h[n - 1] \cup {order[n]}]

LEMMA GreedyUnfold ==
    ASSUME NEW candidates
    PROVE  Greedy(candidates) =
              (CHOOSE h : IsFixed(h, Enumerate(candidates, MoreAlike)))[Len(Enumerate(candidates, MoreAlike))]
BY DEF Greedy, IsFixed

LEMMA MoreAlikeOrder ==
    ASSUME NEW candidates \in SUBSET Candidate
    PROVE  StrictOrder(candidates, MoreAlike)
<1>1. \A x \in candidates : x[1] \in Nat /\ x[2] \in Nat /\ x[3] \in Nat /\ x = <<x[1], x[2], x[3]>>
    BY DEF Candidate
<1>2. \A x, y \in candidates : <<x, y>> \in MoreAlike <=>
                \/ x[1] > y[1]
                \/ x[1] = y[1] /\ x[2] < y[2]
                \/ x[1] = y[1] /\ x[2] = y[2] /\ x[3] < y[3]
    BY DEF MoreAlike
<1>3. \A x \in candidates : <<x, x>> \notin MoreAlike
    BY <1>1, <1>2
<1>4. \A x, y \in candidates : x = y \/ <<x, y>> \in MoreAlike \/ <<y, x>> \in MoreAlike
    <2> TAKE x, y \in candidates
    <2>1. x[1] = y[1] /\ x[2] = y[2] /\ x[3] = y[3] => x = y
        BY <1>1
    <2> QED
        BY <1>1, <1>2, <2>1
<1>5. \A x, y, z \in candidates : <<x, y>> \in MoreAlike /\ <<y, z>> \in MoreAlike => <<x, z>> \in MoreAlike
    BY <1>1, <1>2
<1> QED
    BY <1>3, <1>4, <1>5 DEF StrictOrder

LEMMA GreedyProperties ==
    ASSUME NEW candidates \in SUBSET Candidate, IsFiniteSet(candidates)
    PROVE  Greedy(candidates) \subseteq candidates /\ OneToOne(Greedy(candidates))
<1> DEFINE order == Enumerate(candidates, MoreAlike)
           N == Len(order)
           D == {s \in SUBSET candidates : OneToOne(s)}
           F == [n \in 1 .. N |-> [s \in D |-> IF Clash(s, order[n]) THEN s ELSE s \cup {order[n]}]]
<1>1. N \in Nat /\ \A n \in 1 .. N : order[n] \in candidates
    <2>1. StrictOrder(candidates, MoreAlike)
        BY MoreAlikeOrder
    <2>2. order \in Seq(candidates)
        BY <2>1, EnumerateProperties
    <2> HIDE DEF order
    <2> QED
        BY <2>2
<1>2. {} \in D
    BY DEF OneToOne
<1> HIDE DEF order
<1>3. \A n \in 1 .. N : \A s \in D : (IF Clash(s, order[n]) THEN s ELSE s \cup {order[n]}) \in D
    BY <1>1 DEF OneToOne, Clash
<1> HIDE DEF N, D
<1>4. F \in [1 .. N -> [D -> D]]
      /\ \A n \in 1 .. N : \A s \in D : F[n][s] = IF Clash(s, order[n]) THEN s ELSE s \cup {order[n]}
    BY <1>3
<1> HIDE DEF F
<1>5. PICK k : Steps(k, N, D, {}, F)
    BY <1>1, <1>2, <1>4, StepByStep
<1>6. k \in [0 .. N -> D] /\ k[0] = {} /\ \A n \in 1 .. N : k[n] = F[n][k[n - 1]]
    BY <1>5 DEF Steps
<1>7. \A n \in 0 .. N : k[n] = IF n = 0 THEN {} ELSE IF Clash(k[n - 1], order[n]) THEN k[n - 1] ELSE k[n - 1] \cup {order[n]}
    <2> TAKE n \in 0 .. N
    <2>1. CASE n = 0
        BY <1>6, <2>1
    <2>2. CASE n # 0
        <3>1. n \in 1 .. N /\ n - 1 \in 0 .. N
            BY <1>1, <2>2
        <3>2. k[n - 1] \in D
            BY <1>6, <3>1
        <3> QED
            BY <1>4, <1>6, <2>2, <3>1, <3>2
    <2> QED
        BY <2>1, <2>2
<1>8. k = [n \in 0 .. N |-> IF n = 0 THEN {} ELSE IF Clash(k[n - 1], order[n]) THEN k[n - 1] ELSE k[n - 1] \cup {order[n]}]
    BY <1>6, <1>7
<1>9. IsFixed(k, order)
    BY <1>8 DEF IsFixed, N
<1> DEFINE h == CHOOSE h : IsFixed(h, order)
<1>10. IsFixed(h, order)
    BY <1>9
<1> HIDE DEF h
<1>11. \A n \in 0 .. N : h[n] = IF n = 0 THEN {} ELSE IF Clash(h[n - 1], order[n]) THEN h[n - 1] ELSE h[n - 1] \cup {order[n]}
    BY <1>10 DEF IsFixed, N
<1> DEFINE S == {n \in 0 .. N : h[n] \in D}
<1>12. 0 \in S
    <2>1. 0 \in 0 .. N
        BY <1>1
    <2>2. h[0] = {}
        BY <1>11, <2>1
    <2> QED
        BY <1>2, <2>1, <2>2
<1>13. \A n \in 1 .. N : n - 1 \in S => n \in S
    <2> TAKE n \in 1 .. N
    <2>1. n # 0 /\ n \in 0 .. N
        BY <1>1
    <2>2. h[n] = IF Clash(h[n - 1], order[n]) THEN h[n - 1] ELSE h[n - 1] \cup {order[n]}
        BY <1>11, <2>1
    <2> QED
        BY <1>3, <2>1, <2>2
<1> HIDE DEF S
<1>14. \A n \in 0 .. N : n \in S
    BY <1>1, <1>12, <1>13, Upwards
<1>15. h[N] \in D
    BY <1>1, <1>14 DEF S
<1>16. Greedy(candidates) = h[N]
    BY GreedyUnfold DEF h, N, order
<1> QED
    BY <1>15, <1>16 DEF D

-----------------------------------------------------------------------------
(* Counting in the text of segments, and of pieces of segments.             *)
Sides(ss, ops) == [k \in DOMAIN ss |-> IF ss[k].op \in ops THEN ss[k].text ELSE <<>>]
Counts(X, uu) == [k \in DOMAIN uu |-> Count(X, uu[k])]

LEMMA CountsTotal ==
    ASSUME NEW uu \in Seq(Seq(Nat)), NEW X
    PROVE  /\ Count(X, FlattenSeq(uu)) = Total(Counts(X, uu), DOMAIN uu)
           /\ \A k \in DOMAIN uu : Counts(X, uu)[k] = Count(X, uu[k]) /\ Counts(X, uu)[k] \in Nat
<1>1. Count(X, FlattenSeq(uu)) = Total([i \in DOMAIN uu |-> Count(X, uu[i])], DOMAIN uu)
    BY CountFlatten
<1>2. \A k \in DOMAIN uu : uu[k] \in Seq(Nat)
    OBVIOUS
<1>3. \A k \in DOMAIN uu : Count(X, uu[k]) \in Nat
    BY <1>2, CountNat
<1> QED
    BY <1>1, <1>3 DEF Counts

LEMMA SegmentsCount ==
    ASSUME NEW ss \in Seq(AnySegment), NEW X, NEW ops
    PROVE  /\ Count(X, Text(ss, ops)) = Total(Counts(X, Sides(ss, ops)), 1 .. Len(ss))
           /\ \A k \in 1 .. Len(ss) :
                 /\ Counts(X, Sides(ss, ops))[k] = IF ss[k].op \in ops THEN Count(X, ss[k].text) ELSE 0
                 /\ Counts(X, Sides(ss, ops))[k] \in Nat
           /\ Len(ss) \in Nat /\ DOMAIN ss = 1 .. Len(ss)
<1> DEFINE uu == Sides(ss, ops)
<1>1. Len(ss) \in Nat /\ DOMAIN ss = 1 .. Len(ss) /\ Text(ss, ops) = FlattenSeq(uu)
    BY DEF Text, Sides
<1>2. \A k \in 1 .. Len(ss) : /\ uu[k] = IF ss[k].op \in ops THEN ss[k].text ELSE <<>>
                              /\ uu[k] \in Seq(Nat)
    <2>1. \A k \in 1 .. Len(ss) : uu[k] = IF ss[k].op \in ops THEN ss[k].text ELSE <<>>
        BY <1>1 DEF Sides
    <2>2. \A k \in 1 .. Len(ss) : ss[k] \in AnySegment
        BY <1>1
    <2>3. \A s \in AnySegment : s.text \in Seq(Nat)
        BY DEF AnySegment
    <2>4. <<>> \in Seq(Nat)
        OBVIOUS
    <2> HIDE DEF uu
    <2> QED
        BY <2>1, <2>2, <2>3, <2>4
<1>3. uu = [k \in 1 .. Len(ss) |-> uu[k]]
    BY <1>1 DEF Sides
<1> HIDE DEF uu
<1>4. uu \in Seq(Seq(Nat)) /\ DOMAIN uu = 1 .. Len(ss)
    BY <1>1, <1>2, <1>3, ListOf
<1>5. /\ Count(X, FlattenSeq(uu)) = Total(Counts(X, uu), 1 .. Len(ss))
      /\ \A k \in 1 .. Len(ss) : Counts(X, uu)[k] = Count(X, uu[k]) /\ Counts(X, uu)[k] \in Nat
    BY <1>4, CountsTotal
<1>6. \A k \in 1 .. Len(ss) : Counts(X, uu)[k] = IF ss[k].op \in ops THEN Count(X, ss[k].text) ELSE 0
    BY <1>2, <1>5, CountEmpty
<1> QED
    BY <1>1, <1>5, <1>6 DEF uu

LEMMA PiecesCount ==
    ASSUME NEW P \in Seq(Seq(AnySegment)), NEW X, NEW ops
    PROVE  /\ Count(X, Text(FlattenSeq(P), ops)) = Total(Counts(X, Texts(P, ops)), 1 .. Len(P))
           /\ \A k \in 1 .. Len(P) : /\ Counts(X, Texts(P, ops))[k] = Count(X, Text(P[k], ops))
                                     /\ Counts(X, Texts(P, ops))[k] \in Nat
           /\ Len(P) \in Nat /\ DOMAIN P = 1 .. Len(P)
<1> DEFINE uu == Texts(P, ops)
<1>1. Len(P) \in Nat /\ DOMAIN P = 1 .. Len(P) /\ Text(FlattenSeq(P), ops) = FlattenSeq(uu)
    BY TextFlatten DEF Texts
<1>2. \A k \in 1 .. Len(P) : uu[k] = Text(P[k], ops) /\ uu[k] \in Seq(Nat)
    <2>1. \A k \in 1 .. Len(P) : uu[k] = Text(P[k], ops) /\ P[k] \in Seq(AnySegment)
        BY <1>1 DEF Texts
    <2> HIDE DEF uu
    <2> QED
        BY <2>1, TextIsFlatMap
<1>3. uu = [k \in 1 .. Len(P) |-> uu[k]]
    BY <1>1 DEF Texts
<1> HIDE DEF uu
<1>4. uu \in Seq(Seq(Nat)) /\ DOMAIN uu = 1 .. Len(P)
    BY <1>1, <1>2, <1>3, ListOf
<1>5. /\ Count(X, FlattenSeq(uu)) = Total(Counts(X, uu), 1 .. Len(P))
      /\ \A k \in 1 .. Len(P) : Counts(X, uu)[k] = Count(X, uu[k]) /\ Counts(X, uu)[k] \in Nat
    BY <1>4, CountsTotal
<1> QED
    BY <1>1, <1>2, <1>5 DEF uu

(* Pieces that show on one side what the segments they stand for show.      *)
SameSide(P, ss, ops) ==
    /\ DOMAIN P = DOMAIN ss
    /\ \A k \in DOMAIN ss : Text(P[k], ops) = IF ss[k].op \in ops THEN ss[k].text ELSE <<>>

LEMMA PiecesSameText ==
    ASSUME NEW ss \in Seq(AnySegment), NEW P \in Seq(Seq(AnySegment)), NEW ops, SameSide(P, ss, ops)
    PROVE  Text(FlattenSeq(P), ops) = Text(ss, ops)
<1>1. Text(FlattenSeq(P), ops) = FlattenSeq([k \in DOMAIN P |-> Text(P[k], ops)])
    BY TextFlatten
<1>2. [k \in DOMAIN P |-> Text(P[k], ops)] = [k \in DOMAIN ss |-> IF ss[k].op \in ops THEN ss[k].text ELSE <<>>]
    BY DEF SameSide
<1> QED
    BY <1>1, <1>2 DEF Text

-----------------------------------------------------------------------------
(* A pass that finds moved text.                                            *)
LEMMA SegmentKinds ==
    \A s \in Segment : /\ s.op \in Op /\ s.text \in Seq(Nat)
                       /\ IsMedia(s.text) => s \in MediaSegment
                       /\ ~IsMedia(s.text) => s \in ProseSegment /\ s.text \in ProseText
<1> TAKE s \in Segment
<1>1. s.op \in Op /\ s.text \in Seq(Nat)
    BY Segments DEF AnySegment
<1>2. CASE s \in ProseSegment
    BY <1>1, <1>2, ParagraphKinds DEF ProseSegment, Paragraph
<1>3. CASE s \in MediaSegment
    BY <1>1, <1>3, ParagraphKinds DEF MediaSegment, Paragraph
<1> QED
    BY <1>2, <1>3 DEF Segment

LEMMA SubstantialProperties ==
    ASSUME NEW ss \in Seq(Segment), NEW op
    PROVE  /\ Substantial(ss, op) \subseteq 1 .. Len(ss) /\ Substantial(ss, op) \subseteq Nat
           /\ IsFiniteSet(Substantial(ss, op))
           /\ \A k \in Substantial(ss, op) : k \in DOMAIN ss /\ ss[k].op = op /\ ss[k].text \in ProseText
<1>1. Substantial(ss, op) \subseteq 1 .. Len(ss) /\ Len(ss) \in Nat
    BY DEF Substantial
<1>2. IsFiniteSet(1 .. Len(ss))
    BY <1>1, FS_Interval
<1>3. IsFiniteSet(Substantial(ss, op))
    BY <1>1, <1>2, FS_Subset
<1>4. \A k \in Substantial(ss, op) : k \in DOMAIN ss /\ ss[k].op = op /\ ~IsMedia(ss[k].text) /\ ss[k] \in Segment
    <2> HIDE DEF Segment
    <2> QED
        BY DEF Substantial
<1> QED
    BY <1>1, <1>3, <1>4, SegmentKinds

LEMMA MovedPairsProperties ==
    ASSUME NEW ss \in Seq(Segment)
    PROVE  /\ OneToOne(MovedPairs(ss))
           /\ \A c \in MovedPairs(ss) :
                 c[2] \in Substantial(ss, "delete") /\ c[3] \in Substantial(ss, "insert")
<1> DEFINE dd == Substantial(ss, "delete")
           ii == Substantial(ss, "insert")
           all == {<<Ratio(ss[d].text, ss[i].text), d, i>> : d \in dd, i \in ii}
           f == [p \in dd \X ii |-> <<Ratio(ss[p[1]].text, ss[p[2]].text), p[1], p[2]>>]
           candidates == {c \in all : c[1] >= 10 * MATCH_PERCENT}
<1>1. /\ dd \subseteq Nat /\ IsFiniteSet(dd)
      /\ \A k \in dd : ss[k].text \in ProseText
    BY SubstantialProperties
<1>2. /\ ii \subseteq Nat /\ IsFiniteSet(ii)
      /\ \A k \in ii : ss[k].text \in ProseText
    BY SubstantialProperties
<1>3. \A d \in dd, i \in ii : Ratio(ss[d].text, ss[i].text) \in Nat
    BY <1>1, <1>2, RatioNat DEF ProseText
<1> HIDE DEF dd, ii
<1>4. IsFiniteSet(dd \X ii)
    BY <1>1, <1>2, FS_Product
<1>5. f \in Surjection(dd \X ii, all)
    <2>1. f \in [dd \X ii -> all]
        OBVIOUS
    <2>2. ASSUME NEW c \in all
          PROVE  \E p \in dd \X ii : f[p] = c
        <3>1. PICK d \in dd, i \in ii : c = <<Ratio(ss[d].text, ss[i].text), d, i>>
            BY <2>2
        <3>2. <<d, i>> \in dd \X ii /\ f[<<d, i>>] = c
            BY <3>1
        <3> QED
            BY <3>2
    <2> HIDE DEF f, all
    <2> QED
        BY <2>1, <2>2 DEF Surjection
<1>6. IsFiniteSet(all)
    BY <1>4, <1>5, FS_Surjection
<1>7. all \subseteq Candidate
    BY <1>1, <1>2, <1>3 DEF Candidate
<1>8. candidates \subseteq all /\ \A c \in all : c[2] \in dd /\ c[3] \in ii
    OBVIOUS
<1>9. MovedPairs(ss) = Greedy(candidates)
    BY DEF MovedPairs, dd, ii
<1> HIDE DEF all, candidates
<1>10. candidates \in SUBSET Candidate /\ IsFiniteSet(candidates)
    BY <1>6, <1>7, <1>8, FS_Subset
<1>11. Greedy(candidates) \subseteq candidates /\ OneToOne(Greedy(candidates))
    BY <1>10, GreedyProperties
<1> QED
    BY <1>8, <1>9, <1>11 DEF dd, ii

LEMMA SurvivorShows ==
    ASSUME NEW old \in ProseText, NEW new \in ProseText, old # new => ~TooLong(old, new)
    PROVE  /\ Survivor(old, new) \in Seq(Segment) /\ Survivor(old, new) \in Seq(AnySegment)
           /\ Text(Survivor(old, new), BeforeOps) = old /\ Text(Survivor(old, new), AfterOps) = new
<1>1. CASE old = new
    <2> DEFINE s == Seg("moved", new)
    <2>1. /\ s \in ProseSegment /\ s \in Segment /\ s \in AnySegment /\ s.text = new
          /\ s.op \in BeforeOps /\ s.op \in AfterOps
        BY ProseSegments DEF Seg, ProseSegment, Segment, Op, BeforeOps, AfterOps
    <2>2. Survivor(old, new) = <<s>>
        BY <1>1 DEF Survivor
    <2> HIDE DEF s, Segment
    <2>3. Text(<<s>>, BeforeOps) = new
        BY <2>1, TextOne
    <2>4. Text(<<s>>, AfterOps) = new
        BY <2>1, TextOne
    <2> QED
        BY <1>1, <2>1, <2>2, <2>3, <2>4
<1>2. CASE old # new
    <2> HIDE DEF Segment
    <2>1. Survivor(old, new) = WordDiff(old, new)
        BY <1>2 DEF Survivor
    <2>2. /\ WordDiff(old, new) \in Seq(DiffSegment) /\ WordDiff(old, new) \in Seq(AnySegment)
          /\ Text(WordDiff(old, new), BeforeOps) = old /\ Text(WordDiff(old, new), AfterOps) = new
        BY <1>2, WordDiffShows
    <2>3. WordDiff(old, new) \in Seq(Segment)
        BY <2>2, Segments, SubSequences
    <2> QED
        BY <2>1, <2>2, <2>3
<1> QED
    BY <1>1, <1>2

(* What becomes of the segment in place k.                                  *)
Piece(ss, pairs, k) ==
    CASE \E c \in pairs : c[2] = k -> <<>>
      [] \E c \in pairs : c[3] = k -> Survivor(ss[(CHOOSE c \in pairs : c[3] = k)[2]].text, ss[k].text)
      [] OTHER -> <<ss[k]>>

LEMMA PieceCases ==
    ASSUME NEW ss, NEW pairs, OneToOne(pairs), \A c \in pairs : ss[c[2]].op = "delete" /\ ss[c[3]].op = "insert",
           NEW k
    PROVE  /\ (\E c \in pairs : c[2] = k) => Piece(ss, pairs, k) = <<>>
           /\ \A c \in pairs : c[3] = k => Piece(ss, pairs, k) = Survivor(ss[c[2]].text, ss[k].text)
           /\ (\A c \in pairs : c[2] # k /\ c[3] # k) => Piece(ss, pairs, k) = <<ss[k]>>
<1>1. ASSUME \E c \in pairs : c[2] = k
      PROVE  Piece(ss, pairs, k) = <<>>
    <2>1. ~\E c \in pairs : c[3] = k
        BY <1>1
    <2> QED
        BY <1>1, <2>1 DEF Piece
<1>2. ASSUME NEW c \in pairs, c[3] = k
      PROVE  Piece(ss, pairs, k) = Survivor(ss[c[2]].text, ss[k].text)
    <2>1. ~\E d \in pairs : d[2] = k
        BY <1>2
    <2> DEFINE d == CHOOSE d \in pairs : d[3] = k
    <2>2. d \in pairs /\ d[3] = k
        BY <1>2
    <2>3. d = c
        BY <1>2, <2>2 DEF OneToOne
    <2>4. Piece(ss, pairs, k) = Survivor(ss[d[2]].text, ss[k].text)
        BY <1>2, <2>1 DEF Piece
    <2> QED
        BY <2>3, <2>4
<1>3. ASSUME \A c \in pairs : c[2] # k /\ c[3] # k
      PROVE  Piece(ss, pairs, k) = <<ss[k]>>
    BY <1>3 DEF Piece
<1> QED
    BY <1>1, <1>2, <1>3

(* A pass keeps the new version as it is, and every word of the old one.    *)
LEMMA MatchMovedShows ==
    ASSUME NEW ss \in Seq(Segment), ~MoveTooLong(ss)
    PROVE  /\ MatchMoved(ss) \in Seq(Segment)
           /\ Text(MatchMoved(ss), AfterOps) = Text(ss, AfterOps)
           /\ \A X : Count(X, Text(MatchMoved(ss), BeforeOps)) = Count(X, Text(ss, BeforeOps))
<1> DEFINE pairs == MovedPairs(ss)
           n == Len(ss)
           P == [k \in DOMAIN ss |-> Piece(ss, pairs, k)]
<1>1. MatchMoved(ss) = FlattenSeq(P)
    BY DEF MatchMoved, Piece
<1>2. n \in Nat /\ DOMAIN ss = 1 .. n /\ ss \in Seq(AnySegment) /\ \A k \in 1 .. n : ss[k] \in Segment /\ ss[k] \in AnySegment
    <2> HIDE DEF Segment
    <2> QED
        BY Segments
<1>3. OneToOne(pairs) /\ \A c \in pairs : /\ c[2] \in 1 .. n /\ ss[c[2]].op = "delete" /\ ss[c[2]].text \in ProseText
                                          /\ c[3] \in 1 .. n /\ ss[c[3]].op = "insert" /\ ss[c[3]].text \in ProseText
    BY <1>2, MovedPairsProperties, SubstantialProperties
<1>4. \A c \in pairs : ss[c[2]].text # ss[c[3]].text => ~TooLong(ss[c[2]].text, ss[c[3]].text)
    BY DEF MoveTooLong
<1> HIDE DEF pairs, n, Segment
<1>5. \A k \in 1 .. n : P[k] = Piece(ss, pairs, k)
    BY <1>2
<1>6. P = [k \in 1 .. n |-> P[k]] /\ DOMAIN P = 1 .. n
    BY <1>2
<1> HIDE DEF P
<1>7. ASSUME NEW k \in 1 .. n, \E c \in pairs : c[2] = k
      PROVE  P[k] = <<>> /\ ss[k].op = "delete"
    BY <1>3, <1>5, <1>7, PieceCases
<1>8. ASSUME NEW c \in pairs
      PROVE  /\ P[c[3]] \in Seq(Segment)
             /\ Text(P[c[3]], BeforeOps) = ss[c[2]].text /\ Text(P[c[3]], AfterOps) = ss[c[3]].text
    <2>1. P[c[3]] = Survivor(ss[c[2]].text, ss[c[3]].text)
        BY <1>3, <1>5, PieceCases
    <2> QED
        BY <1>3, <1>4, <2>1, SurvivorShows
<1>9. ASSUME NEW k \in 1 .. n, \A c \in pairs : c[2] # k /\ c[3] # k
      PROVE  P[k] = <<ss[k]>>
    BY <1>3, <1>5, <1>9, PieceCases
<1>10. \A k \in 1 .. n : P[k] \in Seq(Segment)
    <2> TAKE k \in 1 .. n
    <2>1. CASE \E c \in pairs : c[2] = k
        <3>1. P[k] = <<>>
            BY <1>7, <2>1
        <3> QED
            BY <3>1
    <2>2. CASE \E c \in pairs : c[3] = k
        BY <1>8, <2>2
    <2>3. CASE \A c \in pairs : c[2] # k /\ c[3] # k
        <3>1. P[k] = <<ss[k]>> /\ ss[k] \in Segment
            BY <1>2, <1>9, <2>3
        <3> QED
            BY <3>1
    <2> QED
        BY <2>1, <2>2, <2>3
<1>11. P \in Seq(Seq(Segment)) /\ P \in Seq(Seq(AnySegment)) /\ Len(P) = n
    <2>1. P \in Seq(Seq(Segment)) /\ Len(P) = n
        BY <1>2, <1>6, <1>10, ListOf
    <2> QED
        BY <2>1, Segments, SubSequences
<1>12. FlattenSeq(P) \in Seq(Segment)
    BY <1>11, FlattenType
<1>13. SameSide(P, ss, AfterOps)
    <2> SUFFICES ASSUME NEW k \in 1 .. n
                 PROVE  Text(P[k], AfterOps) = IF ss[k].op \in AfterOps THEN ss[k].text ELSE <<>>
        BY <1>2, <1>6 DEF SameSide
    <2>1. CASE \E c \in pairs : c[2] = k
        BY <1>7, <2>1, TextEmpty DEF AfterOps
    <2>2. CASE \E c \in pairs : c[3] = k
        BY <1>3, <1>8, <2>2 DEF AfterOps
    <2>3. CASE \A c \in pairs : c[2] # k /\ c[3] # k
        BY <1>2, <1>9, <2>3, TextOne
    <2> QED
        BY <2>1, <2>2, <2>3
<1>14. Text(FlattenSeq(P), AfterOps) = Text(ss, AfterOps)
    BY <1>2, <1>11, <1>13, PiecesSameText
<1>15. ASSUME NEW X
       PROVE  Count(X, Text(FlattenSeq(P), BeforeOps)) = Count(X, Text(ss, BeforeOps))
    <2> DEFINE f == Counts(X, Sides(ss, BeforeOps))
               g == Counts(X, Texts(P, BeforeOps))
               Q == {<<c[2], c[3]>> : c \in pairs}
    <2>1. /\ Count(X, Text(ss, BeforeOps)) = Total(f, 1 .. n)
          /\ \A k \in 1 .. n : f[k] = IF ss[k].op \in BeforeOps THEN Count(X, ss[k].text) ELSE 0
        BY <1>2, SegmentsCount DEF n
    <2>2. /\ Count(X, Text(FlattenSeq(P), BeforeOps)) = Total(g, 1 .. n)
          /\ \A k \in 1 .. n : g[k] = Count(X, Text(P[k], BeforeOps)) /\ g[k] \in Nat
        BY <1>11, PiecesCount
    <2> HIDE DEF f, g
    <2>3. Separate(Q, n)
        <3>1. \A q \in Q : \E c \in pairs : q[1] = c[2] /\ q[2] = c[3]
            OBVIOUS
        <3> HIDE DEF Q
        <3>2. \A q \in Q : q[1] \in 1 .. n /\ q[2] \in 1 .. n /\ ss[q[1]].op = "delete" /\ ss[q[2]].op = "insert"
            BY <1>3, <3>1
        <3>3. \A q, r \in Q : q[1] = r[1] \/ q[2] = r[2] => q[1] = r[1] /\ q[2] = r[2]
            BY <1>3, <3>1 DEF OneToOne
        <3>4. \A q, r \in Q : q[1] # r[2]
            <4> TAKE q, r \in Q
            <4>1. ss[q[1]].op = "delete" /\ ss[r[2]].op = "insert"
                BY <3>2
            <4> QED
                BY <4>1
        <3> QED
            BY <3>2, <3>3, <3>4 DEF Separate
    <2>4. Exchanges(Q, n, f, g)
        <3>1. ASSUME NEW c \in pairs
              PROVE  g[c[2]] = f[c[3]] /\ g[c[3]] = f[c[2]]
            <4>1. g[c[2]] = 0
                BY <1>3, <1>7, <2>2, TextEmpty, CountEmpty
            <4>2. f[c[3]] = 0
                BY <1>3, <2>1 DEF BeforeOps
            <4>3. g[c[3]] = Count(X, ss[c[2]].text)
                BY <1>3, <1>8, <2>2
            <4>4. f[c[2]] = Count(X, ss[c[2]].text)
                BY <1>3, <2>1 DEF BeforeOps
            <4> QED
                BY <4>1, <4>2, <4>3, <4>4
        <3>2. ASSUME NEW k \in 1 .. n, \A c \in pairs : c[2] # k /\ c[3] # k
              PROVE  g[k] = f[k]
            <4>1. P[k] = <<ss[k]>> /\ ss[k] \in AnySegment
                BY <1>2, <1>9, <3>2
            <4>2. Text(P[k], BeforeOps) = IF ss[k].op \in BeforeOps THEN ss[k].text ELSE <<>>
                BY <4>1, TextOne
            <4> QED
                BY <2>1, <2>2, <4>2, CountEmpty
        <3>3. \A q \in Q : \E c \in pairs : q[1] = c[2] /\ q[2] = c[3]
            OBVIOUS
        <3>4. \A c \in pairs : \E q \in Q : q[1] = c[2] /\ q[2] = c[3]
            <4> TAKE c \in pairs
            <4>1. <<c[2], c[3]>> \in Q
                OBVIOUS
            <4> QED
                BY <4>1
        <3> HIDE DEF Q
        <3>5. \A q \in Q : g[q[1]] = f[q[2]] /\ g[q[2]] = f[q[1]]
            BY <3>1, <3>3
        <3>6. \A k \in 1 .. n : (\A q \in Q : q[1] # k /\ q[2] # k) => g[k] = f[k]
            <4> SUFFICES ASSUME NEW k \in 1 .. n, \A q \in Q : q[1] # k /\ q[2] # k
                         PROVE  g[k] = f[k]
                OBVIOUS
            <4>1. \A c \in pairs : c[2] # k /\ c[3] # k
                BY <3>4
            <4> QED
                BY <3>2, <4>1
        <3> QED
            BY <3>5, <3>6 DEF Exchanges
    <2> HIDE DEF Q
    <2>5. Total(g, 1 .. n) = Total(f, 1 .. n)
        BY <1>2, <2>2, <2>3, <2>4, Exchange
    <2> QED
        BY <2>1, <2>2, <2>5
<1> QED
    BY <1>1, <1>12, <1>14, <1>15

-----------------------------------------------------------------------------
(* The images of two versions are paired off.                               *)
IsVersion(v) == v.paras \in Seq(Paragraph)
PairedOff(P) == \A c, d \in P : c[1] = d[1] \/ c[2] = d[2] => c = d
Pairing(P, K, v, w) == P \subseteq LabelsIn(v, K) \X LabelsIn(w, K) /\ PairedOff(P)

LEMMA LabelsFinite ==
    ASSUME NEW v, IsVersion(v), NEW K \in SUBSET Label
    PROVE  /\ IsFiniteSet(LabelsIn(v, K)) /\ LabelsIn(v, K) \subseteq K /\ LabelsIn(v, K) \subseteq Nat
           /\ \A l \in LabelsIn(v, K) : \E i \in DOMAIN v.paras : v.paras[i] = <<l>>
<1> DEFINE paras == v.paras
           places == {i \in DOMAIN paras : \E l \in K : paras[i] = <<l>>}
           f == [i \in places |-> paras[i][1]]
<1>1. Len(paras) \in Nat /\ DOMAIN paras = 1 .. Len(paras)
    BY DEF IsVersion
<1>2. IsFiniteSet(places)
    <2>1. places \subseteq 1 .. Len(paras) /\ IsFiniteSet(1 .. Len(paras))
        BY <1>1, FS_Interval
    <2> QED
        BY <2>1, FS_Subset
<1>3. \A l \in LabelsIn(v, K) : l \in K /\ \E i \in DOMAIN paras : paras[i] = <<l>>
    BY DEF LabelsIn, Range
<1>4. \A l \in K : \A i \in DOMAIN paras : paras[i] = <<l>> => l \in LabelsIn(v, K)
    BY DEF LabelsIn, Range
<1>5. f \in Surjection(places, LabelsIn(v, K))
    <2>1. \A i \in places : f[i] \in LabelsIn(v, K)
        <3> TAKE i \in places
        <3>1. PICK l \in K : paras[i] = <<l>> /\ i \in DOMAIN paras
            OBVIOUS
        <3>2. f[i] = l
            BY <3>1
        <3> QED
            BY <1>4, <3>1, <3>2
    <2>2. \A l \in LabelsIn(v, K) : \E i \in places : f[i] = l
        <3> TAKE l \in LabelsIn(v, K)
        <3>1. PICK i \in DOMAIN paras : paras[i] = <<l>>
            BY <1>3
        <3>2. i \in places /\ f[i] = l
            BY <1>3, <3>1
        <3> QED
            BY <3>2
    <2>3. f \in [places -> LabelsIn(v, K)]
        BY <2>1
    <2> HIDE DEF f, places
    <2> QED
        BY <2>2, <2>3 DEF Surjection
<1>6. IsFiniteSet(LabelsIn(v, K))
    BY <1>2, <1>5, FS_Surjection
<1> QED
    BY <1>3, <1>6, VersionAssumption

(* Alike pairs with their similarity, fixed greedily.                       *)
Fixed(alike) == {<<c[2], c[3]>> : c \in Greedy(alike)}
Weighed(alike, weight, pairs, A, B) ==
    /\ IsFiniteSet(A) /\ A \subseteq Nat /\ IsFiniteSet(B) /\ B \subseteq Nat
    /\ pairs \subseteq A \X B /\ \A p \in pairs : weight[p] \in Nat
    /\ alike \subseteq {<<weight[p], p[1], p[2]>> : p \in pairs}

LEMMA GreedyPairs ==
    ASSUME NEW A, NEW B, NEW alike, NEW weight, NEW pairs, Weighed(alike, weight, pairs, A, B)
    PROVE  Fixed(alike) \subseteq A \X B /\ PairedOff(Fixed(alike))
<1> DEFINE all == {<<weight[p], p[1], p[2]>> : p \in pairs}
           f == [p \in pairs |-> <<weight[p], p[1], p[2]>>]
           fixed == Fixed(alike)
<1>0. /\ IsFiniteSet(A) /\ A \subseteq Nat /\ IsFiniteSet(B) /\ B \subseteq Nat
      /\ pairs \subseteq A \X B /\ \A p \in pairs : weight[p] \in Nat
      /\ alike \subseteq all
    BY DEF Weighed
<1>1. IsFiniteSet(A \X B)
    BY <1>0, FS_Product
<1>2. IsFiniteSet(pairs)
    BY <1>0, <1>1, FS_Subset
<1>3. f \in Surjection(pairs, all)
    BY DEF Surjection
<1>4. IsFiniteSet(all)
    BY <1>2, <1>3, FS_Surjection
<1>5. IsFiniteSet(alike)
    BY <1>0, <1>4, FS_Subset
<1>6. \A c \in alike : c \in Candidate /\ c[2] \in A /\ c[3] \in B
    <2> TAKE c \in alike
    <2>1. PICK p \in pairs : c = <<weight[p], p[1], p[2]>>
        BY <1>0
    <2>2. p[1] \in A /\ p[2] \in B /\ weight[p] \in Nat
        BY <1>0, <2>1
    <2> QED
        BY <1>0, <2>1, <2>2 DEF Candidate
<1>7. Greedy(alike) \subseteq alike /\ OneToOne(Greedy(alike))
    <2>1. alike \in SUBSET Candidate
        BY <1>6
    <2> QED
        BY <1>5, <2>1, GreedyProperties
<1>8. fixed \subseteq A \X B
    BY <1>6, <1>7 DEF Fixed
<1>9. PairedOff(fixed)
    <2>1. \A p \in fixed : \E c \in Greedy(alike) : p = <<c[2], c[3]>>
        BY DEF Fixed
    <2> HIDE DEF fixed
    <2> SUFFICES ASSUME NEW p \in fixed, NEW q \in fixed, p[1] = q[1] \/ p[2] = q[2]
                 PROVE  p = q
        BY DEF PairedOff
    <2>2. PICK c \in Greedy(alike) : p = <<c[2], c[3]>>
        BY <2>1
    <2>3. PICK d \in Greedy(alike) : q = <<d[2], d[3]>>
        BY <2>1
    <2>4. c[2] = d[2] \/ c[3] = d[3]
        BY <2>2, <2>3
    <2>5. c = d
        BY <1>7, <2>4 DEF OneToOne
    <2> QED
        BY <2>2, <2>3, <2>5
<1> QED
    BY <1>8, <1>9

LEMMA FiguresPaired ==
    ASSUME NEW v, NEW w, IsVersion(v), IsVersion(w)
    PROVE  Pairing(RematchMediaLabels(v, w), Figures, v, w)
<1> DEFINE old == LabelsIn(v, Figures)
           new == LabelsIn(w, Figures)
           pairs == {c \in old \X new : v.picture[c[1]] = w.picture[c[2]]}
           weight == [c \in pairs |-> IF c[1] = c[2] THEN 1 ELSE 0]
           alike == {<<IF c[1] = c[2] THEN 1 ELSE 0, c[1], c[2]>> : c \in pairs}
           sure == Fixed(alike)
           rest == {<<l, l>> : l \in {l \in old \cap new : \A c \in sure : c[1] # l /\ c[2] # l}}
<1>1. IsFiniteSet(old) /\ old \subseteq Nat /\ IsFiniteSet(new) /\ new \subseteq Nat
    <2>1. Figures \in SUBSET Label
        BY DEF Label
    <2> QED
        BY <2>1, LabelsFinite
<1>2. RematchMediaLabels(v, w) = sure \cup rest
    BY DEF RematchMediaLabels, Fixed
<1> HIDE DEF old, new
<1>3. pairs \in SUBSET (old \X new) /\ \A p \in pairs : weight[p] \in Nat
    OBVIOUS
<1>4. Weighed(alike, weight, pairs, old, new)
    BY <1>1, <1>3 DEF Weighed
<1> HIDE DEF pairs, weight, alike, sure, rest
<1>5. sure \subseteq old \X new /\ PairedOff(sure)
    <2>1. Fixed(alike) \subseteq old \X new /\ PairedOff(Fixed(alike))
        BY <1>4, GreedyPairs
    <2> QED
        BY <2>1 DEF sure
<1>6. \A c \in rest : \E l \in old \cap new : c = <<l, l>> /\ \A d \in sure : d[1] # l /\ d[2] # l
    BY DEF rest
<1>7. sure \cup rest \subseteq old \X new
    BY <1>5, <1>6
<1>8. PairedOff(sure \cup rest)
    BY <1>5, <1>6 DEF PairedOff
<1> QED
    BY <1>2, <1>7, <1>8 DEF Pairing, old, new

LEMMA BoxesPaired ==
    ASSUME NEW v, NEW w, IsVersion(v), IsVersion(w)
    PROVE  Pairing(MatchBoxes(v, w), Boxes, v, w)
<1> DEFINE old == LabelsIn(v, Boxes)
           new == LabelsIn(w, Boxes)
           pairs == (old \ new) \X (new \ old)
           weight == [c \in pairs |-> Ratio(BoxText[c[1]], BoxText[c[2]])]
           alike == {<<Ratio(BoxText[c[1]], BoxText[c[2]]), c[1], c[2]>> : c \in pairs}
           enough == {c \in alike : c[1] >= 10 * BOX_PERCENT}
           sure == Fixed(enough)
           rest == {<<l, l>> : l \in old \cap new}
<1>1. /\ IsFiniteSet(old) /\ old \subseteq Nat /\ IsFiniteSet(new) /\ new \subseteq Nat
      /\ old \subseteq Boxes /\ new \subseteq Boxes
    <2>1. Boxes \in SUBSET Label
        BY DEF Label
    <2> QED
        BY <2>1, LabelsFinite
<1>2. MatchBoxes(v, w) = sure \cup rest
    BY DEF MatchBoxes, Fixed
<1> HIDE DEF old, new
<1>3. pairs \in SUBSET ((old \ new) \X (new \ old)) /\ \A p \in pairs : weight[p] \in Nat
    <2>1. \A p \in pairs : BoxText[p[1]] \in Seq(Nat) /\ BoxText[p[2]] \in Seq(Nat)
        BY <1>1, VersionAssumption
    <2>2. \A p \in pairs : Ratio(BoxText[p[1]], BoxText[p[2]]) \in Nat
        BY <2>1, RatioNat
    <2> QED
        BY <2>2
<1>5. IsFiniteSet(old \ new) /\ old \ new \subseteq Nat /\ IsFiniteSet(new \ old) /\ new \ old \subseteq Nat
    BY <1>1, FS_Difference
<1>4. Weighed(enough, weight, pairs, old \ new, new \ old)
    BY <1>3, <1>5 DEF Weighed
<1> HIDE DEF pairs, weight, alike, enough
<1>6. sure \subseteq (old \ new) \X (new \ old) /\ PairedOff(sure)
    BY <1>4, GreedyPairs
<1> HIDE DEF sure
<1>7. \A c \in rest : \E l \in old \cap new : c = <<l, l>>
    OBVIOUS
<1> HIDE DEF rest
<1>8. sure \cup rest \subseteq old \X new
    BY <1>6, <1>7
<1>9. PairedOff(sure \cup rest)
    <2>1. \A c \in sure : c[1] \in old \ new /\ c[2] \in new \ old
        BY <1>6
    <2> QED
        BY <1>6, <1>7, <2>1 DEF PairedOff
<1> QED
    BY <1>2, <1>8, <1>9 DEF Pairing, old, new

Texted == IsVersion(before) /\ IsVersion(after)

LEMMA ImagesPaired ==
    ASSUME Texted
    PROVE  /\ PairedOff(ImagePairs)
           /\ \A c \in ImagePairs :
                 /\ c = <<c[1], c[2]>> /\ c[1] \in Label /\ c[2] \in Label
                 /\ \E i \in DOMAIN before.paras : before.paras[i] = <<c[1]>>
                 /\ \E i \in DOMAIN after.paras : after.paras[i] = <<c[2]>>
<1> DEFINE figures == RematchMediaLabels(before, after)
           boxes == MatchBoxes(before, after)
           equations == {<<l, l>> : l \in LabelsIn(before, Equations) \cap LabelsIn(after, Equations)}
<1>1. Pairing(figures, Figures, before, after) /\ Pairing(boxes, Boxes, before, after)
    BY FiguresPaired, BoxesPaired DEF Texted
<1>2. Pairing(equations, Equations, before, after)
    BY DEF Pairing, PairedOff
<1>3. ImagePairs = figures \cup boxes \cup equations
    BY DEF ImagePairs
<1> HIDE DEF figures, boxes, equations
<1>4. \A K \in {Figures, Boxes, Equations} : /\ LabelsIn(before, K) \subseteq K
                                             /\ \A l \in LabelsIn(before, K) : \E i \in DOMAIN before.paras : before.paras[i] = <<l>>
    BY LabelsFinite DEF Texted, Label
<1>5. \A K \in {Figures, Boxes, Equations} : /\ LabelsIn(after, K) \subseteq K
                                             /\ \A l \in LabelsIn(after, K) : \E i \in DOMAIN after.paras : after.paras[i] = <<l>>
    BY LabelsFinite DEF Texted, Label
<1>6. \A c \in ImagePairs :
          \E K \in {Figures, Boxes, Equations} : c \in LabelsIn(before, K) \X LabelsIn(after, K)
    BY <1>1, <1>2, <1>3 DEF Pairing
<1>7. ASSUME NEW c \in ImagePairs
      PROVE  /\ c = <<c[1], c[2]>> /\ c[1] \in Label /\ c[2] \in Label
             /\ \E i \in DOMAIN before.paras : before.paras[i] = <<c[1]>>
             /\ \E i \in DOMAIN after.paras : after.paras[i] = <<c[2]>>
    <2>1. PICK K \in {Figures, Boxes, Equations} : c \in LabelsIn(before, K) \X LabelsIn(after, K)
        BY <1>6
    <2>2. c[1] \in LabelsIn(before, K) /\ c[2] \in LabelsIn(after, K) /\ c = <<c[1], c[2]>>
        BY <2>1
    <2>3. K \subseteq Label
        BY DEF Label
    <2> QED
        BY <1>4, <1>5, <2>2, <2>3
<1>8. PairedOff(ImagePairs)
    <2>1. \A c \in figures : c[1] \in Figures /\ c[2] \in Figures
        BY <1>1, <1>4, <1>5 DEF Pairing
    <2>2. \A c \in boxes : c[1] \in Boxes /\ c[2] \in Boxes
        BY <1>1, <1>4, <1>5 DEF Pairing
    <2>3. \A c \in equations : c[1] \in Equations /\ c[2] \in Equations
        BY <1>2, <1>4, <1>5 DEF Pairing
    <2>4. PairedOff(figures) /\ PairedOff(boxes) /\ PairedOff(equations)
        BY <1>1, <1>2 DEF Pairing
    <2> QED
        BY <1>3, <2>1, <2>2, <2>3, <2>4, VersionAssumption DEF PairedOff
<1> QED
    BY <1>7, <1>8

LEMMA TargetProperties ==
    ASSUME Texted
    PROVE  /\ Keys \subseteq Label /\ Involved \subseteq Label
           /\ \A l : l \notin Keys => Target(l) = l
           /\ \A c \in ImagePairs : Target(c[1]) = c[2]
           /\ \A c \in ImagePairs : c[1] # c[2] => c[1] \in Keys /\ c[1] \in Involved /\ c[2] \in Involved
           /\ \A c \in ImagePairs : c[1] = c[2] => c[1] \notin Involved
           /\ \A c \in ImagePairs : \A l : Target(l) = c[2] =>
                 l = c[1] \/ (l \notin Keys /\ c[1] \in Keys)
<1>1. /\ PairedOff(ImagePairs)
      /\ \A c \in ImagePairs : c = <<c[1], c[2]>> /\ c[1] \in Label /\ c[2] \in Label
    BY ImagesPaired
<1>2. \A l \in Keys : \E c \in ImagePairs : c[1] = l /\ c[1] # c[2]
    BY DEF Keys, Renumbered
<1>3. \A l \in Involved : \E c \in ImagePairs : (c[1] = l \/ c[2] = l) /\ c[1] # c[2]
    BY DEF Involved, Keys, Renumbered
<1>4. \A c \in ImagePairs : c[1] # c[2] => c[1] \in Keys /\ c[1] \in Involved /\ c[2] \in Involved
    BY DEF Involved, Keys, Renumbered
<1>5. \A c \in ImagePairs : c[1] = c[2] => c[1] \notin Involved
    BY <1>1, <1>3 DEF PairedOff
<1>6. \A l : l \notin Keys => Target(l) = l
    BY DEF Target
<1>7. ASSUME NEW c \in ImagePairs
      PROVE  Target(c[1]) = c[2]
    <2>1. CASE c[1] = c[2]
        <3>1. c[1] \notin Keys
            BY <1>5, <2>1 DEF Involved
        <3> QED
            BY <1>6, <2>1, <3>1
    <2>2. CASE c[1] # c[2]
        <3> DEFINE d == CHOOSE d \in Renumbered : d[1] = c[1]
        <3>1. c \in Renumbered /\ c[1] \in Keys
            BY <1>4, <2>2 DEF Renumbered
        <3>2. d \in Renumbered /\ d[1] = c[1]
            BY <3>1
        <3>3. Target(c[1]) = d[2]
            BY <3>1 DEF Target
        <3> HIDE DEF d
        <3>4. d = c
            BY <1>1, <3>2 DEF PairedOff, Renumbered
        <3> QED
            BY <3>3, <3>4
    <2> QED
        BY <2>1, <2>2
<1>8. ASSUME NEW c \in ImagePairs, NEW l, Target(l) = c[2]
      PROVE  l = c[1] \/ (l \notin Keys /\ c[1] \in Keys)
    <2>1. CASE l \in Keys
        <3>1. PICK d \in ImagePairs : d[1] = l
            BY <1>2, <2>1
        <3>2. d[2] = c[2]
            BY <1>7, <1>8, <3>1
        <3>3. d = c
            BY <1>1, <3>2 DEF PairedOff
        <3> QED
            BY <3>1, <3>3
    <2>2. CASE l \notin Keys
        BY <1>4, <1>6, <1>8, <2>2
    <2> QED
        BY <2>1, <2>2
<1> QED
    BY <1>1, <1>2, <1>3, <1>4, <1>5, <1>6, <1>7, <1>8

-----------------------------------------------------------------------------
(* Equal placeholders of renumbered images come apart.                      *)
Tied(s) == s.op = "equal" /\ IsMedia(s.text) /\ s.text[1] \in Involved
LooseSegment == {s \in Segment : ~Tied(s)}
Apart(s) == IF Tied(s) THEN <<Seg("delete", s.text), Seg("insert", s.text)>> ELSE <<s>>

LEMMA ApartShows ==
    ASSUME NEW s \in Segment
    PROVE  /\ Apart(s) \in Seq(LooseSegment) /\ Apart(s) \in Seq(AnySegment)
           /\ Text(Apart(s), BeforeOps) = IF s.op \in BeforeOps THEN s.text ELSE <<>>
           /\ Text(Apart(s), AfterOps) = IF s.op \in AfterOps THEN s.text ELSE <<>>
<1>1. s \in AnySegment /\ s.text \in Seq(Nat)
    BY Segments, SegmentKinds
<1>2. CASE Tied(s)
    <2> DEFINE d == Seg("delete", s.text)
               i == Seg("insert", s.text)
    <2>1. s.op = "equal" /\ s.text \in MediaParagraph
        BY <1>2, SegmentKinds DEF Tied, MediaSegment
    <2>2. d \in MediaSegment /\ i \in MediaSegment /\ d.op = "delete" /\ i.op = "insert" /\ d.text = s.text /\ i.text = s.text
        BY <2>1 DEF Seg, MediaSegment, Changes
    <2>3. Apart(s) = <<d, i>> /\ <<d, i>> = <<d>> \o <<i>>
        BY <1>2 DEF Apart
    <2> HIDE DEF d, i
    <2>4. d \in LooseSegment /\ i \in LooseSegment /\ d \in AnySegment /\ i \in AnySegment
        <3>1. d \in Segment /\ i \in Segment
            BY <2>2 DEF Segment
        <3> QED
            BY <2>2, <3>1, Segments DEF LooseSegment, Tied
    <2>5. Text(<<d>>, BeforeOps) = s.text /\ Text(<<i>>, BeforeOps) = <<>>
        BY <2>2, <2>4, TextOne DEF BeforeOps
    <2>6. Text(<<d>>, AfterOps) = <<>> /\ Text(<<i>>, AfterOps) = s.text
        BY <2>2, <2>4, TextOne DEF AfterOps
    <2>7. <<d>> \in Seq(AnySegment) /\ <<i>> \in Seq(AnySegment)
        BY <2>4
    <2>8. Text(<<d>> \o <<i>>, BeforeOps) = Text(<<d>>, BeforeOps) \o Text(<<i>>, BeforeOps)
        BY <2>7, TextConcat
    <2>9. Text(<<d>> \o <<i>>, AfterOps) = Text(<<d>>, AfterOps) \o Text(<<i>>, AfterOps)
        BY <2>7, TextConcat
    <2>10. s.text \o <<>> = s.text /\ <<>> \o s.text = s.text
        BY <1>1
    <2>11. s.op \in BeforeOps /\ s.op \in AfterOps
        BY <2>1 DEF BeforeOps, AfterOps
    <2>12. <<d, i>> \in Seq(LooseSegment) /\ <<d, i>> \in Seq(AnySegment)
        BY <2>4
    <2> QED
        BY <2>3, <2>5, <2>6, <2>8, <2>9, <2>10, <2>11, <2>12
<1>3. CASE ~Tied(s)
    <2>1. Apart(s) = <<s>> /\ s \in LooseSegment
        BY <1>3 DEF Apart, LooseSegment
    <2>2. <<s>> \in Seq(LooseSegment) /\ <<s>> \in Seq(AnySegment)
        BY <1>1, <2>1
    <2>3. Text(<<s>>, BeforeOps) = IF s.op \in BeforeOps THEN s.text ELSE <<>>
        BY <1>1, TextOne
    <2>4. Text(<<s>>, AfterOps) = IF s.op \in AfterOps THEN s.text ELSE <<>>
        BY <1>1, TextOne
    <2> QED
        BY <2>1, <2>2, <2>3, <2>4
<1> QED
    BY <1>2, <1>3

LEMMA LoosenedShows ==
    ASSUME NEW given \in Seq(Segment)
    PROVE  /\ Loosened(given) \in Seq(LooseSegment)
           /\ Text(Loosened(given), BeforeOps) = Text(given, BeforeOps)
           /\ Text(Loosened(given), AfterOps) = Text(given, AfterOps)
<1> DEFINE P == [i \in DOMAIN given |-> Apart(given[i])]
           n == Len(given)
<1>1. Loosened(given) = FlattenSeq(P)
    BY DEF Loosened, Apart, Tied
<1> HIDE DEF Segment
<1>2. n \in Nat /\ DOMAIN given = 1 .. n /\ given \in Seq(AnySegment) /\ \A k \in 1 .. n : given[k] \in Segment
    BY Segments
<1>3. \A k \in 1 .. n : P[k] = Apart(given[k])
    BY <1>2
<1>4. P = [k \in 1 .. n |-> P[k]]
    BY <1>2
<1> HIDE DEF P, n
<1>5. \A k \in 1 .. n : /\ P[k] \in Seq(LooseSegment) /\ P[k] \in Seq(AnySegment)
                        /\ Text(P[k], BeforeOps) = IF given[k].op \in BeforeOps THEN given[k].text ELSE <<>>
                        /\ Text(P[k], AfterOps) = IF given[k].op \in AfterOps THEN given[k].text ELSE <<>>
    BY <1>2, <1>3, ApartShows
<1>6. P \in Seq(Seq(LooseSegment)) /\ DOMAIN P = 1 .. n
    BY <1>2, <1>4, <1>5, ListOf
<1>7. P \in Seq(Seq(AnySegment))
    BY <1>2, <1>4, <1>5, ListOf
<1>8. SameSide(P, given, BeforeOps) /\ SameSide(P, given, AfterOps)
    BY <1>2, <1>5, <1>6 DEF SameSide
<1>9. FlattenSeq(P) \in Seq(LooseSegment)
    BY <1>6, FlattenType
<1>10. Text(FlattenSeq(P), BeforeOps) = Text(given, BeforeOps)
    BY <1>2, <1>7, <1>8, PiecesSameText
<1>11. Text(FlattenSeq(P), AfterOps) = Text(given, AfterOps)
    BY <1>2, <1>7, <1>8, PiecesSameText
<1> QED
    BY <1>1, <1>9, <1>10, <1>11

-----------------------------------------------------------------------------
(* The deleted placeholders: those whose new number is known go first.      *)
LEMMA AscendingIsStrict == \A S \in SUBSET Nat : StrictOrder(S, Ascending)
BY DEF StrictOrder, Ascending

IsOrder(ss, order) ==
    /\ Len(order) \in Nat /\ \A n \in 1 .. Len(order) : order[n] \in Gone(ss)
    /\ \A m, n \in 1 .. Len(order) : order[m] = order[n] => m = n
    /\ \A i \in Gone(ss) : \E n \in 1 .. Len(order) : order[n] = i
    /\ \A m, n \in 1 .. Len(order) : m < n /\ ss[order[n]].text[1] \in Keys => ss[order[m]].text[1] \in Keys

LEMMA OrderProperties ==
    ASSUME NEW ss \in Seq(Segment)
    PROVE  IsOrder(ss, DeletesInOrder(ss, Keys))
<1> DEFINE known == {i \in Gone(ss) : ss[i].text[1] \in Keys}
           rest == Gone(ss) \ known
           e == Enumerate(known, Ascending)
           u == Enumerate(rest, Ascending)
           order == e \o u
<1>1. DeletesInOrder(ss, Keys) = order
    BY DEF DeletesInOrder
<1>2. Gone(ss) \subseteq 1 .. Len(ss) /\ Len(ss) \in Nat
    BY DEF Gone
<1>3. IsFiniteSet(Gone(ss)) /\ Gone(ss) \subseteq Nat
    <2>1. IsFiniteSet(1 .. Len(ss))
        BY <1>2, FS_Interval
    <2> QED
        BY <1>2, <2>1, FS_Subset
<1>4. known \in SUBSET Gone(ss) /\ rest \in SUBSET Gone(ss) /\ known \cap rest = {} /\ Gone(ss) = known \cup rest
      /\ \A i \in Gone(ss) : i \in known <=> ss[i].text[1] \in Keys
    OBVIOUS
<1> HIDE DEF known, rest
<1>5. /\ IsFiniteSet(known) /\ StrictOrder(known, Ascending)
      /\ IsFiniteSet(rest) /\ StrictOrder(rest, Ascending)
    <2>1. known \in SUBSET Nat /\ rest \in SUBSET Nat
        BY <1>3, <1>4
    <2> QED
        BY <1>3, <1>4, <2>1, FS_Subset, AscendingIsStrict
<1>6. /\ e \in Seq(known) /\ \A i, j \in DOMAIN e : e[i] = e[j] => i = j
      /\ \A x \in known : \E k \in DOMAIN e : e[k] = x
    BY <1>5, EnumerateProperties
<1>7. /\ u \in Seq(rest) /\ \A i, j \in DOMAIN u : u[i] = u[j] => i = j
      /\ \A x \in rest : \E k \in DOMAIN u : u[k] = x
    BY <1>5, EnumerateProperties
<1> HIDE DEF e, u
<1> DEFINE a == Len(e)
           b == Len(u)
<1>8. a \in Nat /\ b \in Nat /\ DOMAIN e = 1 .. a /\ DOMAIN u = 1 .. b /\ Len(order) = a + b
    BY <1>6, <1>7
<1>9. /\ \A n \in 1 .. a : order[n] = e[n] /\ e[n] \in known
      /\ \A n \in 1 .. b : order[a + n] = u[n] /\ u[n] \in rest
    BY <1>6, <1>7
<1> HIDE DEF order, a, b
<1>10. \A n \in 1 .. a + b : n \in 1 .. a \/ (n - a \in 1 .. b /\ n = a + (n - a))
    BY <1>8
<1>11. \A n \in 1 .. a + b : /\ n \in 1 .. a => order[n] = e[n] /\ order[n] \in known
                             /\ n \notin 1 .. a => n - a \in 1 .. b /\ order[n] = u[n - a] /\ order[n] \in rest
    BY <1>9, <1>10
<1>12. \A n \in 1 .. a + b : order[n] \in Gone(ss)
    BY <1>4, <1>11
<1>13. \A m, n \in 1 .. a + b : order[m] = order[n] => m = n
    <2> SUFFICES ASSUME NEW m \in 1 .. a + b, NEW n \in 1 .. a + b, order[m] = order[n]
                 PROVE  m = n
        OBVIOUS
    <2>1. CASE m \in 1 .. a /\ n \in 1 .. a
        BY <1>6, <1>8, <1>11, <2>1
    <2>2. CASE m \notin 1 .. a /\ n \notin 1 .. a
        <3>1. m - a \in 1 .. b /\ n - a \in 1 .. b /\ u[m - a] = u[n - a]
            BY <1>11, <2>2
        <3>2. m - a = n - a
            BY <1>7, <1>8, <3>1
        <3> QED
            BY <1>8, <3>2
    <2>3. CASE (m \in 1 .. a) # (n \in 1 .. a)
        BY <1>4, <1>11, <2>3
    <2> QED
        BY <2>1, <2>2, <2>3
<1>14. \A i \in Gone(ss) : \E n \in 1 .. a + b : order[n] = i
    <2> TAKE i \in Gone(ss)
    <2>1. CASE i \in known
        <3>1. PICK k \in 1 .. a : e[k] = i
            BY <1>6, <1>8, <2>1
        <3>2. k \in 1 .. a + b /\ order[k] = i
            BY <1>8, <1>9, <3>1
        <3> QED
            BY <3>2
    <2>2. CASE i \in rest
        <3>1. PICK k \in 1 .. b : u[k] = i
            BY <1>7, <1>8, <2>2
        <3>2. a + k \in 1 .. a + b /\ order[a + k] = i
            BY <1>8, <1>9, <3>1
        <3> QED
            BY <3>2
    <2> QED
        BY <1>4, <2>1, <2>2
<1>15. \A m, n \in 1 .. a + b : m < n /\ ss[order[n]].text[1] \in Keys => ss[order[m]].text[1] \in Keys
    <2> SUFFICES ASSUME NEW m \in 1 .. a + b, NEW n \in 1 .. a + b, m < n, ss[order[n]].text[1] \in Keys
                 PROVE  ss[order[m]].text[1] \in Keys
        OBVIOUS
    <2>1. order[n] \in known
        BY <1>4, <1>12
    <2>2. n \in 1 .. a
        BY <1>4, <1>11, <2>1
    <2>3. m \in 1 .. a
        BY <1>8, <2>2
    <2> QED
        BY <1>4, <1>11, <1>12, <2>3
<1> QED
    BY <1>1, <1>8, <1>12, <1>13, <1>14, <1>15 DEF IsOrder

-----------------------------------------------------------------------------
(* Each of them takes the first free placeholder with its new number.       *)
Fits(ss, d, j) == j \in DOMAIN ss /\ ss[j].op = "insert" /\ ss[j].text = <<Target(ss[d].text[1])>>
IsTaken(h, ss, order) ==
    h = [n \in 0 .. Len(order) |-> IF n = 0 THEN {} ELSE Take(ss, h[n - 1], order[n])]

LEMMA TakenUnfold ==
    ASSUME NEW ss
    PROVE  Taken(ss) = (CHOOSE h : IsTaken(h, ss, DeletesInOrder(ss, Keys)))[Len(DeletesInOrder(ss, Keys))]
BY DEF Taken, TakenInOrder, IsTaken

LEMMA FreeProperties ==
    ASSUME NEW ss \in Seq(Segment), NEW s, NEW d
    PROVE  /\ Free(ss, s, d) # {} => First(ss, s, d) \in Free(ss, s, d)
           /\ \A j \in Free(ss, s, d) : j \in Nat /\ Fits(ss, d, j) /\ \A t \in s : t[2] # j
           /\ \A j : Fits(ss, d, j) => j \in Free(ss, s, d) \/ \E t \in s : t[2] = j
<1>1. \A j \in Free(ss, s, d) : j \in Nat /\ Fits(ss, d, j) /\ \A t \in s : t[2] # j
    BY DEF Free, Fits
<1>2. \A j : Fits(ss, d, j) => j \in Free(ss, s, d) \/ \E t \in s : t[2] = j
    BY DEF Free, Fits
<1>3. Free(ss, s, d) \in SUBSET Nat
    BY <1>1
<1>4. ASSUME Free(ss, s, d) # {}
      PROVE  First(ss, s, d) \in Free(ss, s, d)
    <2>1. \E j \in Free(ss, s, d) : \A k \in Free(ss, s, d) : j <= k
        BY <1>3, <1>4, LeastNatural
    <2> QED
        BY <2>1 DEF First
<1> QED
    BY <1>1, <1>2, <1>4

(* What is taken after the first n of them.                                 *)
Good(ss, order, n, s) ==
    /\ \A t \in s : Fits(ss, t[1], t[2]) /\ \E m \in 1 .. n : t[1] = order[m]
    /\ PairedOff(s)
    /\ \A m \in 1 .. n : \/ \E t \in s : t[1] = order[m]
                         \/ \A j : Fits(ss, order[m], j) => \E t \in s, q \in 1 .. m - 1 : t[2] = j /\ t[1] = order[q]

LEMMA GoodStep ==
    ASSUME NEW ss \in Seq(Segment), NEW order, IsOrder(ss, order), NEW n \in 1 .. Len(order), NEW s,
           Good(ss, order, n - 1, s)
    PROVE  Good(ss, order, n, Take(ss, s, order[n]))
<1> DEFINE d == order[n]
           j == First(ss, s, d)
           t == <<d, j>>
<1>1. n \in Nat /\ \A m \in 1 .. n - 1 : m \in 1 .. n /\ m \in 1 .. Len(order) /\ m # n
    BY DEF IsOrder
<1>2. \A m \in 1 .. n : m = n \/ m \in 1 .. n - 1
    BY <1>1
<1>3. \A m \in 1 .. n - 1 : order[m] # d
    BY <1>1 DEF IsOrder
<1> HIDE DEF d
<1>4. CASE Free(ss, s, d) = {}
    <2>1. Take(ss, s, d) = s
        BY <1>4 DEF Take
    <2>2. \A k : Fits(ss, d, k) => \E u \in s, q \in 1 .. n - 1 : u[2] = k /\ u[1] = order[q]
        <3> SUFFICES ASSUME NEW k, Fits(ss, d, k)
                     PROVE  \E u \in s, q \in 1 .. n - 1 : u[2] = k /\ u[1] = order[q]
            OBVIOUS
        <3>1. PICK u \in s : u[2] = k
            BY <1>4, FreeProperties
        <3>2. PICK q \in 1 .. n - 1 : u[1] = order[q]
            BY DEF Good
        <3> QED
            BY <3>1, <3>2
    <2>3. \A u \in s : Fits(ss, u[1], u[2]) /\ \E m \in 1 .. n : u[1] = order[m]
        BY <1>1 DEF Good
    <2>4. ASSUME NEW m \in 1 .. n
          PROVE  \/ \E u \in s : u[1] = order[m]
                 \/ \A k : Fits(ss, order[m], k) => \E u \in s, q \in 1 .. m - 1 : u[2] = k /\ u[1] = order[q]
        <3>1. CASE m = n
            BY <2>2, <3>1 DEF d
        <3>2. CASE m \in 1 .. n - 1
            BY <3>2 DEF Good
        <3> QED
            BY <1>2, <3>1, <3>2
    <2>5. PairedOff(s)
        BY DEF Good
    <2>6. Good(ss, order, n, s)
        BY <2>3, <2>4, <2>5 DEF Good
    <2> QED
        BY <2>1, <2>6 DEF d
<1>5. CASE Free(ss, s, d) # {}
    <2>1. Take(ss, s, d) = s \cup {t}
        BY <1>5 DEF Take
    <2>2. Fits(ss, d, j) /\ (\A u \in s : u[2] # j) /\ t[1] = d /\ t[2] = j
        BY <1>5, FreeProperties
    <2> HIDE DEF j, t
    <2>3. \A u \in s \cup {t} : Fits(ss, u[1], u[2]) /\ \E m \in 1 .. n : u[1] = order[m]
        <3> TAKE u \in s \cup {t}
        <3>1. CASE u \in s
            BY <1>1, <3>1 DEF Good
        <3>2. CASE u = t
            BY <1>1, <2>2, <3>2 DEF d
        <3> QED
            BY <3>1, <3>2
    <2>4. PairedOff(s \cup {t})
        <3>1. \A u \in s : u[1] # t[1] /\ u[2] # t[2]
            BY <1>3, <2>2 DEF Good
        <3>2. PairedOff(s)
            BY DEF Good
        <3> QED
            BY <3>1, <3>2 DEF PairedOff
    <2>5. ASSUME NEW m \in 1 .. n
          PROVE  \/ \E u \in s \cup {t} : u[1] = order[m]
                 \/ \A k : Fits(ss, order[m], k) => \E u \in s \cup {t}, q \in 1 .. m - 1 : u[2] = k /\ u[1] = order[q]
        <3>1. CASE m = n
            BY <2>2, <3>1 DEF d
        <3>2. CASE m \in 1 .. n - 1
            <4>1. \/ \E u \in s : u[1] = order[m]
                  \/ \A k : Fits(ss, order[m], k) => \E u \in s, q \in 1 .. m - 1 : u[2] = k /\ u[1] = order[q]
                BY <3>2 DEF Good
            <4> QED
                BY <4>1
        <3> QED
            BY <1>2, <3>1, <3>2
    <2>6. Good(ss, order, n, s \cup {t})
        BY <2>3, <2>4, <2>5 DEF Good
    <2> QED
        BY <2>1, <2>6 DEF d
<1> QED
    BY <1>4, <1>5

LEMMA TakenProperties ==
    ASSUME NEW ss \in Seq(Segment)
    PROVE  LET order == DeletesInOrder(ss, Keys) IN Good(ss, order, Len(order), Taken(ss))
<1> DEFINE order == DeletesInOrder(ss, Keys)
           N == Len(order)
           D == SUBSET (Nat \X Nat)
           F == [n \in 1 .. N |-> [s \in D |-> Take(ss, s, order[n])]]
<1>1. IsOrder(ss, order)
    BY OrderProperties
<1> HIDE DEF order
<1>2. N \in Nat /\ \A n \in 1 .. N : order[n] \in Nat
    BY <1>1 DEF IsOrder, Gone
<1>3. {} \in D
    OBVIOUS
<1>4. ASSUME NEW n \in 1 .. N, NEW s \in D
      PROVE  Take(ss, s, order[n]) \in D
    <2>1. CASE Free(ss, s, order[n]) = {}
        BY <2>1 DEF Take
    <2>2. CASE Free(ss, s, order[n]) # {}
        <3>1. First(ss, s, order[n]) \in Nat
            BY <2>2, FreeProperties
        <3> QED
            BY <1>2, <2>2, <3>1 DEF Take
    <2> QED
        BY <2>1, <2>2
<1> HIDE DEF N, D
<1>5. F \in [1 .. N -> [D -> D]] /\ \A n \in 1 .. N : \A s \in D : F[n][s] = Take(ss, s, order[n])
    BY <1>4
<1> HIDE DEF F
<1>6. PICK k : Steps(k, N, D, {}, F)
    BY <1>2, <1>3, <1>5, StepByStep
<1>7. k \in [0 .. N -> D] /\ k[0] = {} /\ \A n \in 1 .. N : k[n] = F[n][k[n - 1]]
    BY <1>6 DEF Steps
<1>8. \A n \in 0 .. N : k[n] = IF n = 0 THEN {} ELSE Take(ss, k[n - 1], order[n])
    <2> TAKE n \in 0 .. N
    <2>1. CASE n = 0
        BY <1>7, <2>1
    <2>2. CASE n # 0
        <3>1. n \in 1 .. N /\ n - 1 \in 0 .. N
            BY <1>2, <2>2
        <3>2. k[n - 1] \in D
            BY <1>7, <3>1
        <3> QED
            BY <1>5, <1>7, <2>2, <3>1, <3>2
    <2> QED
        BY <2>1, <2>2
<1>9. k = [n \in 0 .. N |-> IF n = 0 THEN {} ELSE Take(ss, k[n - 1], order[n])]
    BY <1>7, <1>8
<1>10. IsTaken(k, ss, order)
    BY <1>9 DEF IsTaken, N
<1> DEFINE h == CHOOSE h : IsTaken(h, ss, order)
<1>11. IsTaken(h, ss, order)
    BY <1>10
<1> HIDE DEF h
<1>12. \A n \in 0 .. N : h[n] = IF n = 0 THEN {} ELSE Take(ss, h[n - 1], order[n])
    BY <1>11 DEF IsTaken, N
<1> DEFINE S == {n \in 0 .. N : Good(ss, order, n, h[n])}
<1>13. 0 \in S
    <2>1. 0 \in 0 .. N
        BY <1>2
    <2>2. h[0] = {}
        BY <1>12, <2>1
    <2>3. Good(ss, order, 0, {})
        BY DEF Good, PairedOff
    <2> QED
        BY <2>1, <2>2, <2>3
<1>14. \A n \in 1 .. N : n - 1 \in S => n \in S
    <2> SUFFICES ASSUME NEW n \in 1 .. N, n - 1 \in S
                 PROVE  n \in S
        OBVIOUS
    <2>1. n # 0 /\ n \in 0 .. N /\ Good(ss, order, n - 1, h[n - 1])
        BY <1>2
    <2>2. h[n] = Take(ss, h[n - 1], order[n])
        BY <1>12, <2>1
    <2>3. Good(ss, order, n, h[n])
        BY <1>1, <2>1, <2>2, GoodStep DEF N
    <2> QED
        BY <2>1, <2>3
<1> HIDE DEF S
<1>15. \A n \in 0 .. N : n \in S
    BY <1>2, <1>13, <1>14, Upwards
<1>16. Good(ss, order, N, h[N])
    BY <1>2, <1>15 DEF S
<1>17. Taken(ss) = h[N]
    BY TakenUnfold DEF h, N, order
<1> QED
    BY <1>16, <1>17 DEF order, N

-----------------------------------------------------------------------------
(* Merging: a deleted placeholder and its new number become one moved one.  *)
Shown == {"equal", "moved"}
MergedPiece(ss, taken, i) ==
    CASE \E t \in taken : t[1] = i -> <<>>
      [] \E t \in taken : t[2] = i -> <<Seg("moved", ss[i].text)>>
      [] OTHER -> <<ss[i]>>

(* Taken placeholders, and what becomes of each segment.                    *)
Merging(ss, T, P, n) ==
    /\ n \in Nat /\ DOMAIN ss = 1 .. n /\ ss \in Seq(AnySegment) /\ \A k \in 1 .. n : ss[k] \in LooseSegment
    /\ Separate(T, n)
    /\ \A t \in T : /\ ss[t[1]].op = "delete" /\ \E l \in Label : /\ ss[t[1]].text = <<l>>
                                                                 /\ ss[t[2]].text = <<Target(l)>>
                    /\ ss[t[2]].op = "insert"
                    /\ P[t[1]] = <<>> /\ P[t[2]] = <<Seg("moved", ss[t[2]].text)>>
    /\ \A k \in 1 .. n : (\A t \in T : t[1] # k /\ t[2] # k) => P[k] = <<ss[k]>>
    /\ P \in Seq(Seq(AnySegment)) /\ DOMAIN P = 1 .. n /\ Len(P) = n

LEMMA MergingHolds ==
    ASSUME NEW ss \in Seq(LooseSegment)
    PROVE  LET P == [i \in DOMAIN ss |-> MergedPiece(ss, Taken(ss), i)]
           IN Merging(ss, Taken(ss), P, Len(ss))
<1> DEFINE T == Taken(ss)
           P == [i \in DOMAIN ss |-> MergedPiece(ss, T, i)]
           n == Len(ss)
           order == DeletesInOrder(ss, Keys)
<1>1. ss \in Seq(Segment)
    <2>1. LooseSegment \subseteq Segment
        BY DEF LooseSegment
    <2> HIDE DEF Segment
    <2> QED
        BY <2>1, SubSequences
<1>2. Good(ss, order, Len(order), T) /\ IsOrder(ss, order)
    BY <1>1, TakenProperties, OrderProperties
<1>3. n \in Nat /\ DOMAIN ss = 1 .. n /\ \A k \in 1 .. n : ss[k] \in LooseSegment
    OBVIOUS
<1>4. ss \in Seq(AnySegment) /\ \A k \in 1 .. n : ss[k] \in Segment /\ ss[k] \in AnySegment
    <2> HIDE DEF Segment
    <2> QED
        BY <1>1, Segments
<1> HIDE DEF order, T
<1>5. \A t \in T : /\ t[1] \in 1 .. n /\ ss[t[1]].op = "delete" /\ IsMedia(ss[t[1]].text)
                   /\ t[2] \in 1 .. n /\ ss[t[2]].op = "insert"
                   /\ ss[t[2]].text = <<Target(ss[t[1]].text[1])>>
    <2> TAKE t \in T
    <2>1. PICK m \in 1 .. Len(order) : t[1] = order[m]
        BY <1>2 DEF Good
    <2>2. t[1] \in Gone(ss)
        BY <1>2, <2>1 DEF IsOrder
    <2>3. Fits(ss, t[1], t[2])
        BY <1>2 DEF Good
    <2> QED
        BY <1>3, <2>2, <2>3 DEF Gone, Fits
<1>6. \A t, u \in T : t[1] = u[1] \/ t[2] = u[2] => t = u
    BY <1>2 DEF Good, PairedOff
<1>7. \A t, u \in T : t[1] # u[2]
    <2> TAKE t, u \in T
    <2>1. ss[t[1]].op = "delete" /\ ss[u[2]].op = "insert"
        BY <1>5
    <2> QED
        BY <2>1
<1>8. Separate(T, n)
    BY <1>5, <1>6, <1>7 DEF Separate
<1>9. \A t \in T : \E l \in Label : ss[t[1]].text = <<l>> /\ ss[t[2]].text = <<Target(l)>>
    <2> TAKE t \in T
    <2> DEFINE s == ss[t[1]]
    <2>1. s \in Segment /\ IsMedia(s.text)
        BY <1>4, <1>5
    <2>2. s.text \in MediaParagraph
        BY <2>1, SegmentKinds DEF MediaSegment
    <2>3. PICK l \in Label : s.text = <<l>>
        BY <2>2 DEF MediaParagraph
    <2>4. s.text[1] = l
        BY <2>3
    <2> QED
        BY <1>5, <2>3, <2>4
<1>10. \A k \in 1 .. n : P[k] = MergedPiece(ss, T, k)
    BY <1>3
<1>11. P = [k \in 1 .. n |-> P[k]]
    BY <1>3
<1> HIDE DEF P, n
<1>12. \A t \in T : P[t[1]] = <<>>
    BY <1>5, <1>10 DEF MergedPiece
<1>13. \A t \in T : P[t[2]] = <<Seg("moved", ss[t[2]].text)>>
    <2> TAKE t \in T
    <2>1. ~\E u \in T : u[1] = t[2]
        BY <1>7
    <2> QED
        BY <1>5, <1>10, <2>1 DEF MergedPiece
<1>14. \A k \in 1 .. n : (\A t \in T : t[1] # k /\ t[2] # k) => P[k] = <<ss[k]>>
    BY <1>10 DEF MergedPiece
<1>15. \A k \in 1 .. n : P[k] \in Seq(AnySegment)
    <2> TAKE k \in 1 .. n
    <2>1. CASE \E t \in T : t[1] = k
        <3>1. P[k] = <<>>
            BY <1>12, <2>1
        <3> QED
            BY <3>1
    <2>2. CASE \E t \in T : t[2] = k
        <3> DEFINE s == Seg("moved", ss[k].text)
        <3>1. P[k] = <<s>>
            BY <1>13, <2>2
        <3>2. s \in AnySegment
            <4>1. ss[k].text \in Seq(Nat)
                BY <1>4 DEF AnySegment
            <4> QED
                BY <4>1 DEF Seg, AnySegment, Op
        <3> HIDE DEF s
        <3> QED
            BY <3>1, <3>2
    <2>3. CASE \A t \in T : t[1] # k /\ t[2] # k
        <3>1. P[k] = <<ss[k]>> /\ ss[k] \in AnySegment
            BY <1>4, <1>14, <2>3
        <3> QED
            BY <3>1
    <2> QED
        BY <2>1, <2>2, <2>3
<1>16. P \in Seq(Seq(AnySegment)) /\ DOMAIN P = 1 .. n /\ Len(P) = n
    BY <1>3, <1>11, <1>15, ListOf DEF n
<1>17. Merging(ss, T, P, n)
    BY <1>3, <1>4, <1>5, <1>8, <1>9, <1>12, <1>13, <1>14, <1>16 DEF Merging
<1> QED
    BY <1>17 DEF P, T, n

LEMMA MovedPiece ==
    ASSUME NEW text \in Seq(Nat)
    PROVE  /\ Text(<<Seg("moved", text)>>, AfterOps) = text
           /\ Text(<<Seg("moved", text)>>, Shown) = text
           /\ Text(<<Seg("moved", text)>>, {"delete"}) = <<>>
<1> DEFINE s == Seg("moved", text)
<1>1. s \in AnySegment /\ s.op = "moved" /\ s.text = text
    BY DEF Seg, AnySegment, Op
<1> HIDE DEF s
<1>2. Text(<<s>>, AfterOps) = text
    BY <1>1, TextOne DEF AfterOps
<1>3. Text(<<s>>, Shown) = text
    BY <1>1, TextOne DEF Shown
<1>4. Text(<<s>>, {"delete"}) = <<>>
    BY <1>1, TextOne
<1> QED
    BY <1>2, <1>3, <1>4 DEF s

(* The new version stays word for word.                                     *)
LEMMA MergedAfter ==
    ASSUME NEW ss, NEW T, NEW P, NEW n, Merging(ss, T, P, n)
    PROVE  Text(FlattenSeq(P), AfterOps) = Text(ss, AfterOps)
<1>1. \A k \in 1 .. n : Text(P[k], AfterOps) = IF ss[k].op \in AfterOps THEN ss[k].text ELSE <<>>
    <2> TAKE k \in 1 .. n
    <2>0. ss[k] \in AnySegment /\ ss[k].text \in Seq(Nat)
        <3>1. ss[k] \in AnySegment
            BY DEF Merging
        <3> QED
            BY <3>1 DEF AnySegment
    <2>1. CASE \E t \in T : t[1] = k
        <3>1. P[k] = <<>> /\ ss[k].op = "delete"
            BY <2>1 DEF Merging
        <3> QED
            BY <3>1, TextEmpty DEF AfterOps
    <2>2. CASE \E t \in T : t[2] = k
        <3>1. P[k] = <<Seg("moved", ss[k].text)>> /\ ss[k].op = "insert"
            BY <2>2 DEF Merging
        <3> QED
            BY <2>0, <3>1, MovedPiece DEF AfterOps
    <2>3. CASE \A t \in T : t[1] # k /\ t[2] # k
        <3>1. P[k] = <<ss[k]>>
            BY <2>3 DEF Merging
        <3> QED
            BY <2>0, <3>1, TextOne
    <2> QED
        BY <2>1, <2>2, <2>3
<1>2. SameSide(P, ss, AfterOps) /\ ss \in Seq(AnySegment) /\ P \in Seq(Seq(AnySegment))
    BY <1>1 DEF SameSide, Merging
<1> QED
    BY <1>2, PiecesSameText

(* No word of the old version gets lost or doubled: it is shown under its   *)
(* new name or gone under the old one.                                      *)
NamedTo(y) == {w \in Nat : Target(w) = y}

LEMMA WordsNamed ==
    ASSUME Texted, NEW s \in LooseSegment, s.op \in Shown, NEW y
    PROVE  Count(NamedTo(y), s.text) = Count({y}, s.text)
<1>1. s \in Segment /\ ~Tied(s) /\ s.text \in Seq(Nat)
    BY SegmentKinds DEF LooseSegment
<1>2. \A i \in DOMAIN s.text : s.text[i] \in Nat /\ Target(s.text[i]) = s.text[i]
    <2> TAKE i \in DOMAIN s.text
    <2>1. s.text[i] \in Nat
        BY <1>1
    <2>2. CASE ~IsMedia(s.text)
        <3>1. s.text \in ProseText
            BY <1>1, <2>2, SegmentKinds
        <3>2. s.text[i] \notin Label
            BY <3>1 DEF ProseText
        <3> QED
            BY <2>1, <3>2, TargetProperties
    <2>3. CASE IsMedia(s.text)
        <3>1. s \in MediaSegment
            BY <1>1, <2>3, SegmentKinds
        <3>2. s.op = "equal" /\ s.text \in MediaParagraph
            BY <3>1 DEF MediaSegment, Changes, Shown
        <3>3. s.text[1] \notin Involved
            BY <1>1, <2>3, <3>2 DEF Tied
        <3>4. i = 1
            BY <3>2 DEF MediaParagraph
        <3>5. s.text[i] \notin Keys
            BY <3>3, <3>4 DEF Involved
        <3> QED
            BY <2>1, <3>5, TargetProperties
    <2> QED
        BY <2>2, <2>3
<1>3. {i \in DOMAIN s.text : s.text[i] \in NamedTo(y)} = {i \in DOMAIN s.text : s.text[i] \in {y}}
    BY <1>2 DEF NamedTo
<1> QED
    BY <1>3 DEF Count

LEMMA MergedBefore ==
    ASSUME Texted, NEW ss, NEW T, NEW P, NEW n, Merging(ss, T, P, n), NEW y
    PROVE  Count(NamedTo(y), Text(ss, BeforeOps)) =
              Count({y}, Text(FlattenSeq(P), Shown)) + Count(NamedTo(y), Text(FlattenSeq(P), {"delete"}))
<1> DEFINE N == NamedTo(y)
           f == Counts(N, Sides(ss, BeforeOps))
           g == Counts({y}, Texts(P, Shown))
           h == Counts(N, Texts(P, {"delete"}))
           e == [k \in 1 .. n |-> g[k] + h[k]]
<1>1. n \in Nat /\ ss \in Seq(AnySegment) /\ Len(ss) = n /\ P \in Seq(Seq(AnySegment)) /\ Len(P) = n
    BY DEF Merging
<1> HIDE DEF N
<1>2. /\ Count(N, Text(ss, BeforeOps)) = Total(f, 1 .. n)
      /\ \A k \in 1 .. n : f[k] = IF ss[k].op \in BeforeOps THEN Count(N, ss[k].text) ELSE 0
    <2>1. /\ Count(N, Text(ss, BeforeOps)) = Total(f, 1 .. Len(ss))
          /\ \A k \in 1 .. Len(ss) : f[k] = IF ss[k].op \in BeforeOps THEN Count(N, ss[k].text) ELSE 0
        <3>1. Count(N, Text(ss, BeforeOps)) = Total(f, 1 .. Len(ss))
            BY <1>1, SegmentsCount
        <3>2. ASSUME NEW k \in 1 .. Len(ss)
              PROVE  f[k] = IF ss[k].op \in BeforeOps THEN Count(N, ss[k].text) ELSE 0
            BY <1>1, SegmentsCount
        <3> HIDE DEF f
        <3> QED
            BY <3>1, <3>2
    <2> QED
        BY <1>1, <2>1
<1>3. /\ Count({y}, Text(FlattenSeq(P), Shown)) = Total(g, 1 .. n)
      /\ \A k \in 1 .. n : g[k] = Count({y}, Text(P[k], Shown)) /\ g[k] \in Nat
    BY <1>1, PiecesCount
<1>4. /\ Count(N, Text(FlattenSeq(P), {"delete"})) = Total(h, 1 .. n)
      /\ \A k \in 1 .. n : h[k] = Count(N, Text(P[k], {"delete"})) /\ h[k] \in Nat
    <2>1. /\ Count(N, Text(FlattenSeq(P), {"delete"})) = Total(h, 1 .. Len(P))
          /\ \A k \in 1 .. Len(P) : h[k] = Count(N, Text(P[k], {"delete"})) /\ h[k] \in Nat
        BY <1>1, PiecesCount
    <2> QED
        BY <1>1, <2>1
<1> HIDE DEF f, g, h
<1>5. IsFiniteSet(1 .. n)
    BY <1>1, FS_Interval
<1>6. \A k \in 1 .. n : e[k] = g[k] + h[k] /\ e[k] \in Nat
    BY <1>3, <1>4
<1> HIDE DEF e
<1>7. Total(e, 1 .. n) = Total(g, 1 .. n) + Total(h, 1 .. n)
    BY <1>3, <1>4, <1>5, <1>6, TotalSum
<1>8. Exchanges(T, n, f, e)
    <2>1. ASSUME NEW t \in T
          PROVE  e[t[1]] = f[t[2]] /\ e[t[2]] = f[t[1]]
        <3>1. t[1] \in 1 .. n /\ t[2] \in 1 .. n
            BY DEF Merging, Separate
        <3>2. P[t[1]] = <<>> /\ ss[t[2]].op = "insert" /\ ss[t[1]].op = "delete"
            BY DEF Merging
        <3>3. e[t[1]] = 0
            <4>1. g[t[1]] = 0
                BY <1>3, <3>1, <3>2, TextEmpty, CountEmpty
            <4>2. h[t[1]] = 0
                BY <1>4, <3>1, <3>2, TextEmpty, CountEmpty
            <4> QED
                BY <1>6, <3>1, <4>1, <4>2
        <3>4. f[t[2]] = 0
            BY <1>2, <3>1, <3>2 DEF BeforeOps
        <3>5. PICK l \in Label : ss[t[1]].text = <<l>> /\ ss[t[2]].text = <<Target(l)>>
            BY DEF Merging
        <3>6. ss[t[2]].text \in Seq(Nat) /\ l \in Nat
            <4>1. ss[t[2]] \in AnySegment
                BY <3>1 DEF Merging
            <4> QED
                BY <4>1, VersionAssumption DEF AnySegment
        <3>7. P[t[2]] = <<Seg("moved", ss[t[2]].text)>>
            BY DEF Merging
        <3>8. Text(P[t[2]], Shown) = <<Target(l)>> /\ Text(P[t[2]], {"delete"}) = <<>>
            BY <3>5, <3>6, <3>7, MovedPiece
        <3>9. g[t[2]] = (IF Target(l) \in {y} THEN 1 ELSE 0) /\ h[t[2]] = 0
            BY <1>3, <1>4, <3>1, <3>8, CountOne, CountEmpty
        <3>10. f[t[1]] = IF l \in N THEN 1 ELSE 0
            <4>1. f[t[1]] = Count(N, <<l>>)
                BY <1>2, <3>1, <3>2, <3>5 DEF BeforeOps
            <4> QED
                BY <4>1, CountOne
        <3>11. e[t[2]] = f[t[1]]
            BY <1>6, <3>1, <3>6, <3>9, <3>10 DEF NamedTo, N
        <3> QED
            BY <3>3, <3>4, <3>11
    <2>2. ASSUME NEW k \in 1 .. n, \A t \in T : t[1] # k /\ t[2] # k
          PROVE  e[k] = f[k]
        <3>1. P[k] = <<ss[k]>> /\ ss[k] \in AnySegment /\ ss[k] \in LooseSegment
            BY <2>2 DEF Merging
        <3> DEFINE s == ss[k]
        <3>2. s.op \in Op /\ s.text \in Seq(Nat)
            BY <3>1 DEF AnySegment
        <3>3. Count({y}, s.text) \in Nat /\ Count(N, s.text) \in Nat
            BY <3>2, CountNat
        <3> HIDE DEF s
        <3>4. Text(P[k], Shown) = IF s.op \in Shown THEN s.text ELSE <<>>
            BY <3>1, TextOne DEF s
        <3>5. Text(P[k], {"delete"}) = IF s.op \in {"delete"} THEN s.text ELSE <<>>
            BY <3>1, TextOne DEF s
        <3>6. g[k] = IF s.op \in Shown THEN Count({y}, s.text) ELSE 0
            BY <1>3, <3>4, CountEmpty
        <3>7. h[k] = IF s.op \in {"delete"} THEN Count(N, s.text) ELSE 0
            BY <1>4, <3>5, CountEmpty
        <3>8. s.op \in Shown => Count(N, s.text) = Count({y}, s.text)
            BY <3>1, WordsNamed DEF s, N
        <3>9. f[k] = IF s.op \in BeforeOps THEN Count(N, s.text) ELSE 0
            BY <1>2 DEF s
        <3> QED
            BY <1>6, <3>2, <3>3, <3>6, <3>7, <3>8, <3>9 DEF Op, Shown, BeforeOps
    <2> QED
        BY <2>1, <2>2 DEF Exchanges
<1>9. Separate(T, n)
    BY DEF Merging
<1>10. Total(e, 1 .. n) = Total(f, 1 .. n)
    BY <1>1, <1>6, <1>8, <1>9, Exchange
<1> QED
    BY <1>2, <1>3, <1>4, <1>7, <1>10 DEF N

-----------------------------------------------------------------------------
(* Counting ones.                                                           *)
LEMMA TotalOnes ==
    ASSUME NEW S, IsFiniteSet(S), NEW f, NEW X, \A x \in S : f[x] = IF x \in X THEN 1 ELSE 0
    PROVE  Total(f, S) = Cardinality(S \cap X)
<1> DEFINE bad == {s \in SUBSET S : Total(f, s) # Cardinality(s \cap X)}
<1> SUFFICES ASSUME bad # {}
             PROVE  FALSE
    OBVIOUS
<1>1. bad \in SUBSET SUBSET S
    OBVIOUS
<1> HIDE DEF bad
<1>2. PICK t \in bad : \A s \in bad : s \subseteq t => s = t
    BY <1>1, SmallestSet
<1>0. \A s \in SUBSET S : s \in bad <=> Total(f, s) # Cardinality(s \cap X)
    BY DEF bad
<1>3. t \in SUBSET S /\ IsFiniteSet(t) /\ IsFiniteSet({})
    BY <1>1, <1>2, FS_Subset, FS_EmptySet
<1>4. t # {}
    <2>1. Total(f, {}) = 0
        BY <1>3, TotalStep
    <2>2. {} \cap X = {} /\ Cardinality({}) = 0
        BY FS_EmptySet
    <2>3. {} \notin bad
        BY <1>0, <2>1, <2>2
    <2> QED
        BY <1>2, <2>3
<1> DEFINE x == Chosen(t)
           r == t \ {x}
<1>5. x \in t
    BY <1>4 DEF Chosen
<1>6. r \notin bad /\ r \in SUBSET S /\ IsFiniteSet(r)
    BY <1>2, <1>3, <1>5, FS_Subset
<1>7. Total(f, r) = Cardinality(r \cap X)
    BY <1>0, <1>6
<1>8. Total(f, t) = f[x] + Total(f, r)
    BY <1>3, <1>4, TotalStep
<1>9. f[x] = IF x \in X THEN 1 ELSE 0
    BY <1>3, <1>5
<1>10. IsFiniteSet(r \cap X) /\ Cardinality(r \cap X) \in Nat
    <2>1. IsFiniteSet(r \cap X)
        BY <1>6, FS_Intersection
    <2> QED
        BY <2>1, FS_CardinalityType
<1>11. x \notin r \cap X /\ t \cap X = IF x \in X THEN (r \cap X) \cup {x} ELSE r \cap X
    BY <1>5
<1> HIDE DEF x, r
<1>12. Cardinality((r \cap X) \cup {x}) = Cardinality(r \cap X) + 1
    BY <1>10, <1>11, FS_AddElement
<1>13. Total(f, t) = Cardinality(t \cap X)
    <2>1. CASE x \in X
        <3>1. Cardinality(t \cap X) = Cardinality(r \cap X) + 1 /\ f[x] = 1
            BY <1>9, <1>11, <1>12, <2>1
        <3>2. Total(f, t) = 1 + Cardinality(r \cap X)
            BY <1>7, <1>8, <3>1
        <3> QED
            BY <1>10, <3>1, <3>2
    <2>2. CASE x \notin X
        <3>1. Cardinality(t \cap X) = Cardinality(r \cap X) /\ f[x] = 0
            BY <1>9, <1>11, <2>2
        <3>2. Total(f, t) = 0 + Cardinality(r \cap X)
            BY <1>7, <1>8, <3>1
        <3> QED
            BY <1>10, <3>1, <3>2
    <2> QED
        BY <2>1, <2>2
<1> QED
    BY <1>0, <1>2, <1>3, <1>13

LEMMA CountSome ==
    ASSUME NEW T, NEW uu \in Seq(Seq(T)), NEW X, NEW k \in DOMAIN uu, Count(X, uu[k]) # 0
    PROVE  Count(X, FlattenSeq(uu)) # 0
<1> DEFINE g == [i \in DOMAIN uu |-> Count(X, uu[i])]
<1>1. Count(X, FlattenSeq(uu)) = Total(g, DOMAIN uu)
    BY CountFlatten
<1>2. DOMAIN uu = 1 .. Len(uu) /\ Len(uu) \in Nat /\ \A i \in DOMAIN uu : uu[i] \in Seq(T)
    OBVIOUS
<1>3. IsFiniteSet(DOMAIN uu)
    BY <1>2, FS_Interval
<1>4. \A i \in DOMAIN uu : g[i] \in Nat
    BY <1>2, CountNat
<1>5. g[k] # 0
    OBVIOUS
<1> HIDE DEF g
<1>6. Total(g, DOMAIN uu) = g[k] + Total(g, DOMAIN uu \ {k})
    BY <1>3, <1>4, TotalRemove
<1>7. Total(g, DOMAIN uu \ {k}) \in Nat
    <2>1. IsFiniteSet(DOMAIN uu \ {k})
        BY <1>3, FS_Subset
    <2> QED
        BY <1>4, <2>1, TotalNat
<1>8. g[k] \in Nat
    BY <1>4
<1> QED
    BY <1>1, <1>5, <1>6, <1>7, <1>8

LEMMA CountFound ==
    ASSUME NEW X, NEW s, Count(X, s) # 0
    PROVE  \E i \in DOMAIN s : s[i] \in X
<1> SUFFICES ASSUME \A i \in DOMAIN s : s[i] \notin X
             PROVE  FALSE
    OBVIOUS
<1>1. {i \in DOMAIN s : s[i] \in X} = {}
    OBVIOUS
<1> QED
    BY <1>1, FS_EmptySet DEF Count

-----------------------------------------------------------------------------
(* What is in the merged diff.                                              *)
LEMMA MergedElements ==
    ASSUME NEW ss, NEW T, NEW P, NEW n, Merging(ss, T, P, n)
    PROVE  /\ \A i \in DOMAIN FlattenSeq(P) :
                 \/ FlattenSeq(P)[i].op = "moved"
                 \/ \E k \in 1 .. n : FlattenSeq(P)[i] = ss[k] /\ \A t \in T : t[1] # k /\ t[2] # k
           /\ \A t \in T : \E i \in DOMAIN FlattenSeq(P) : FlattenSeq(P)[i] = Seg("moved", ss[t[2]].text)
<1> DEFINE free == {k \in 1 .. n : \A t \in T : t[1] # k /\ t[2] # k}
           E == {s \in AnySegment : s.op = "moved" \/ \E k \in free : s = ss[k]}
<1>1. \A k \in 1 .. n : P[k] \in Seq(E)
    <2> TAKE k \in 1 .. n
    <2>0. ss[k] \in AnySegment
        BY DEF Merging
    <2>1. CASE \E t \in T : t[1] = k
        <3>1. P[k] = <<>>
            BY <2>1 DEF Merging
        <3> HIDE DEF E
        <3> QED
            BY <3>1
    <2>2. CASE \E t \in T : t[2] = k
        <3> DEFINE s == Seg("moved", ss[k].text)
        <3>1. P[k] = <<s>>
            BY <2>2 DEF Merging
        <3>2. s \in E
            <4>1. ss[k].text \in Seq(Nat)
                BY <2>0 DEF AnySegment
            <4>2. s \in AnySegment /\ s.op = "moved"
                BY <4>1 DEF Seg, AnySegment, Op
            <4> HIDE DEF s
            <4> QED
                BY <4>2
        <3> HIDE DEF s, E
        <3> QED
            BY <3>1, <3>2
    <2>3. CASE \A t \in T : t[1] # k /\ t[2] # k
        <3>1. P[k] = <<ss[k]>>
            BY <2>3 DEF Merging
        <3>2. ss[k] \in E
            BY <2>0, <2>3
        <3> HIDE DEF E
        <3> QED
            BY <3>1, <3>2
    <2> QED
        BY <2>1, <2>2, <2>3
<1>2. n \in Nat /\ DOMAIN P = 1 .. n /\ P = [k \in 1 .. n |-> P[k]] /\ P \in Seq(Seq(AnySegment))
    BY DEF Merging
<1>3. \A s \in E : s.op = "moved" \/ \E k \in 1 .. n : s = ss[k] /\ \A t \in T : t[1] # k /\ t[2] # k
    OBVIOUS
<1> HIDE DEF E
<1>4. P \in Seq(Seq(E))
    BY <1>1, <1>2, ListOf
<1>5. FlattenSeq(P) \in Seq(E)
    BY <1>4, FlattenType
<1>6. \A i \in DOMAIN FlattenSeq(P) : FlattenSeq(P)[i] \in E
    BY <1>5
<1>7. ASSUME NEW t \in T
      PROVE  \E i \in DOMAIN FlattenSeq(P) : FlattenSeq(P)[i] = Seg("moved", ss[t[2]].text)
    <2> DEFINE s == Seg("moved", ss[t[2]].text)
    <2>1. t[2] \in 1 .. n /\ P[t[2]] = <<s>>
        BY DEF Merging, Separate
    <2> HIDE DEF s
    <2>2. Count({s}, P[t[2]]) # 0
        BY <2>1, CountOne
    <2>3. Count({s}, FlattenSeq(P)) # 0
        BY <1>2, <2>1, <2>2, CountSome
    <2>4. PICK i \in DOMAIN FlattenSeq(P) : FlattenSeq(P)[i] \in {s}
        BY <2>3, CountFound
    <2> QED
        BY <2>4 DEF s
<1> QED
    BY <1>3, <1>6, <1>7

-----------------------------------------------------------------------------
(* A label in the text of one side: one place for each time it is shown.    *)
Spots(ss, op, l) == {k \in DOMAIN ss : ss[k].op = op /\ ss[k].text = <<l>>}

LEMMA LabelCount ==
    ASSUME NEW s \in Segment, NEW l \in Label
    PROVE  /\ Count({l}, s.text) = IF s.text = <<l>> THEN 1 ELSE 0
           /\ s.text = <<l>> => s.op \in Changes
<1>1. CASE ~IsMedia(s.text)
    <2>1. s.text \in ProseText
        BY <1>1, SegmentKinds
    <2>2. \A i \in DOMAIN s.text : s.text[i] # l
        BY <2>1 DEF ProseText
    <2>3. {i \in DOMAIN s.text : s.text[i] \in {l}} = {}
        BY <2>2
    <2>4. s.text # <<l>>
        <3> SUFFICES ASSUME s.text = <<l>>
                     PROVE  FALSE
            OBVIOUS
        <3>1. 1 \in DOMAIN s.text /\ s.text[1] = l
            OBVIOUS
        <3> QED
            BY <2>2, <3>1
    <2>5. Count({l}, s.text) = 0
        BY <2>3, FS_EmptySet DEF Count
    <2> QED
        BY <2>4, <2>5
<1>2. CASE IsMedia(s.text)
    <2>1. s \in MediaSegment
        BY <1>2, SegmentKinds
    <2>2. s.op \in Changes /\ s.text \in MediaParagraph
        BY <2>1 DEF MediaSegment
    <2>3. PICK m \in Label : s.text = <<m>>
        BY <2>2 DEF MediaParagraph
    <2>4. Count({l}, s.text) = IF m \in {l} THEN 1 ELSE 0
        BY <2>3, CountOne
    <2>5. s.text = <<l>> <=> m = l
        BY <2>3
    <2> QED
        BY <2>2, <2>4, <2>5
<1> QED
    BY <1>1, <1>2

LEMMA SpotsFinite ==
    ASSUME NEW ss \in Seq(AnySegment), NEW op, NEW l
    PROVE  /\ IsFiniteSet(Spots(ss, op, l)) /\ Cardinality(Spots(ss, op, l)) \in Nat
           /\ Spots(ss, op, l) \subseteq 1 .. Len(ss)
<1>1. Spots(ss, op, l) \subseteq 1 .. Len(ss) /\ Len(ss) \in Nat
    BY DEF Spots
<1>2. IsFiniteSet(1 .. Len(ss))
    BY <1>1, FS_Interval
<1>3. IsFiniteSet(Spots(ss, op, l))
    BY <1>1, <1>2, FS_Subset
<1> QED
    BY <1>1, <1>3, FS_CardinalityType

LEMMA SideCount ==
    ASSUME NEW ss \in Seq(Segment), NEW l \in Label, NEW op \in {"delete", "insert"}, NEW ops,
           ops \cap Changes = {"equal", op}
    PROVE  /\ Count({l}, Text(ss, ops)) = Cardinality(Spots(ss, op, l)) + Cardinality(Spots(ss, "equal", l))
<1> DEFINE f == Counts({l}, Sides(ss, ops))
           n == Len(ss)
           A == Spots(ss, op, l)
           E == Spots(ss, "equal", l)
<1>1. ss \in Seq(AnySegment) /\ n \in Nat /\ DOMAIN ss = 1 .. n /\ \A k \in 1 .. n : ss[k] \in Segment
    <2> HIDE DEF Segment
    <2> QED
        BY Segments
<1>2. Count({l}, Text(ss, ops)) = Total(f, 1 .. n)
    BY <1>1, SegmentsCount
<1>3. ASSUME NEW k \in 1 .. n
      PROVE  f[k] = IF ss[k].op \in ops THEN Count({l}, ss[k].text) ELSE 0
    BY <1>1, SegmentsCount
<1>4. A \subseteq 1 .. n /\ IsFiniteSet(A) /\ Cardinality(A) \in Nat
    BY <1>1, SpotsFinite
<1>5. E \subseteq 1 .. n /\ IsFiniteSet(E) /\ Cardinality(E) \in Nat
    BY <1>1, SpotsFinite
<1>6. \A k \in 1 .. n : k \in A \cup E <=> ss[k].op \in {"equal", op} /\ ss[k].text = <<l>>
    BY <1>1 DEF Spots
<1>7. A \cap E = {}
    BY DEF Spots
<1> HIDE DEF f, n, A, E
<1>8. \A k \in 1 .. n : f[k] = IF k \in A \cup E THEN 1 ELSE 0
    <2> TAKE k \in 1 .. n
    <2>1. /\ Count({l}, ss[k].text) = IF ss[k].text = <<l>> THEN 1 ELSE 0
          /\ ss[k].text = <<l>> => ss[k].op \in Changes
        BY <1>1, LabelCount
    <2>2. ss[k].op \in Changes => (ss[k].op \in ops <=> ss[k].op \in {"equal", op})
        <3>1. \A x \in Changes : x \in ops <=> x \in ops \cap Changes
            OBVIOUS
        <3> QED
            BY <3>1
    <2>3. CASE ss[k].text = <<l>>
        <3>1. k \in A \cup E <=> ss[k].op \in ops
            BY <1>6, <2>1, <2>2, <2>3
        <3> QED
            BY <1>3, <2>1, <2>3, <3>1
    <2>4. CASE ss[k].text # <<l>>
        <3>1. k \notin A \cup E
            BY <1>6, <2>4
        <3> QED
            BY <1>3, <2>1, <2>4, <3>1
    <2> QED
        BY <2>3, <2>4
<1>9. IsFiniteSet(1 .. n)
    BY <1>1, FS_Interval
<1>10. Total(f, 1 .. n) = Cardinality((1 .. n) \cap (A \cup E))
    BY <1>8, <1>9, TotalOnes
<1>11. (1 .. n) \cap (A \cup E) = A \cup E
    BY <1>4, <1>5
<1>12. Cardinality(A \cup E) = Cardinality(A) + Cardinality(E) - Cardinality(A \cap E)
    BY <1>4, <1>5, FS_Union
<1>13. Cardinality(A \cap E) = 0
    BY <1>7, FS_EmptySet
<1>14. Cardinality(A \cup E) = Cardinality(A) + Cardinality(E)
    BY <1>4, <1>5, <1>12, <1>13
<1>15. Count({l}, Text(ss, ops)) = Cardinality(A) + Cardinality(E)
    BY <1>2, <1>10, <1>11, <1>14
<1> QED
    BY <1>15 DEF A, E

(* Sets paired one to one, with an element to spare.                        *)
LEMMA OneToSpare ==
    ASSUME NEW A, IsFiniteSet(A), NEW B, NEW b \in B, IsFiniteSet(B), NEW f \in [A -> B \ {b}],
           \A x, y \in A : f[x] = f[y] => x = y
    PROVE  Cardinality(A) < Cardinality(B)
<1>1. f \in Injection(A, B \ {b})
    BY DEF Injection, IsInjective
<1>2. IsFiniteSet(B \ {b}) /\ Cardinality(B \ {b}) = Cardinality(B) - 1
    BY FS_RemoveElement
<1>3. Cardinality(A) <= Cardinality(B \ {b})
    BY <1>1, <1>2, FS_Injection
<1>4. Cardinality(A) \in Nat /\ Cardinality(B) \in Nat
    BY FS_CardinalityType
<1> QED
    BY <1>2, <1>3, <1>4

-----------------------------------------------------------------------------
(* The placeholders of a pair of images after merging.                      *)
Old(c) == Count({c[1]}, FlattenSeq(before.paras))
New(c) == Count({c[2]}, FlattenSeq(after.paras))
Deleted(ss, c) == Spots(ss, "delete", c[1])
Inserted(ss, c) == Spots(ss, "insert", c[2])

(* Segments that show both versions.                                        *)
Shows(ss) ==
    /\ Text(ss, AfterOps) = FlattenSeq(after.paras)
    /\ \A X \in SUBSET Nat : Count(X, Text(ss, BeforeOps)) = Count(X, FlattenSeq(before.paras))

LEMMA SpotsBalance ==
    ASSUME Texted, NEW ss \in Seq(LooseSegment), Shows(ss), NEW c \in ImagePairs
    PROVE  /\ Old(c) > New(c) <=> Cardinality(Deleted(ss, c)) > Cardinality(Inserted(ss, c))
           /\ New(c) > Old(c) <=> Cardinality(Inserted(ss, c)) > Cardinality(Deleted(ss, c))
           /\ c[1] # c[2] => Deleted(ss, c) # {} /\ Inserted(ss, c) # {}
<1> DEFINE E == Spots(ss, "equal", c[1])
           F == Spots(ss, "equal", c[2])
           D == Deleted(ss, c)
           I == Inserted(ss, c)
<1>1. ss \in Seq(Segment) /\ ss \in Seq(AnySegment) /\ \A k \in DOMAIN ss : ~Tied(ss[k])
    <2>1. LooseSegment \subseteq Segment
        BY DEF LooseSegment
    <2>2. \A k \in DOMAIN ss : ss[k] \in LooseSegment
        OBVIOUS
    <2> HIDE DEF Segment
    <2>3. ss \in Seq(Segment)
        BY <2>1, SubSequences
    <2> QED
        BY <2>2, <2>3, Segments DEF LooseSegment
<1>2. /\ c[1] \in Label /\ c[2] \in Label
      /\ (\E i \in DOMAIN before.paras : before.paras[i] = <<c[1]>>)
      /\ (\E i \in DOMAIN after.paras : after.paras[i] = <<c[2]>>)
    BY ImagesPaired
<1>3. Old(c) = Cardinality(D) + Cardinality(E)
    <2>1. BeforeOps \cap Changes = {"equal", "delete"}
        BY DEF BeforeOps, Changes
    <2>2. Count({c[1]}, Text(ss, BeforeOps)) = Cardinality(D) + Cardinality(E)
        BY <1>1, <1>2, <2>1, SideCount DEF Deleted
    <2>3. {c[1]} \in SUBSET Nat
        BY <1>2, VersionAssumption
    <2> QED
        BY <2>2, <2>3 DEF Shows, Old
<1>4. New(c) = Cardinality(I) + Cardinality(F)
    <2>1. AfterOps \cap Changes = {"equal", "insert"}
        BY DEF AfterOps, Changes
    <2>2. Count({c[2]}, Text(ss, AfterOps)) = Cardinality(I) + Cardinality(F)
        BY <1>1, <1>2, <2>1, SideCount DEF Inserted
    <2> QED
        BY <2>2 DEF Shows, New
<1>5. /\ Cardinality(D) \in Nat /\ Cardinality(I) \in Nat
      /\ Cardinality(E) \in Nat /\ Cardinality(F) \in Nat
    BY <1>1, SpotsFinite DEF Deleted, Inserted
<1>6. c[1] # c[2] => Cardinality(E) = 0 /\ Cardinality(F) = 0
    <2> SUFFICES ASSUME c[1] # c[2]
                 PROVE  Cardinality(E) = 0 /\ Cardinality(F) = 0
        OBVIOUS
    <2>1. c[1] \in Involved /\ c[2] \in Involved
        BY TargetProperties
    <2>2. \A l \in Involved \cap Label : \A k \in DOMAIN ss : ~(ss[k].op = "equal" /\ ss[k].text = <<l>>)
        <3> SUFFICES ASSUME NEW l \in Involved \cap Label, NEW k \in DOMAIN ss,
                            ss[k].op = "equal", ss[k].text = <<l>>
                     PROVE  FALSE
            OBVIOUS
        <3>1. IsMedia(ss[k].text) /\ ss[k].text[1] = l
            BY DEF IsMedia
        <3> QED
            BY <1>1, <3>1 DEF Tied
    <2>3. E = {} /\ F = {}
        BY <1>2, <2>1, <2>2 DEF Spots
    <2> QED
        BY <2>3, FS_EmptySet
<1>7. Cardinality(E) = Cardinality(F)
    BY <1>6
<1>8. Old(c) # 0
    <2>1. before.paras \in Seq(Seq(Nat))
        BY ParagraphKinds, SubSequences DEF Texted, IsVersion
    <2>2. PICK i \in DOMAIN before.paras : before.paras[i] = <<c[1]>>
        BY <1>2
    <2>3. Count({c[1]}, before.paras[i]) # 0
        BY <2>2, CountOne
    <2> QED
        BY <2>1, <2>3, CountSome DEF Old
<1>9. New(c) # 0
    <2>1. after.paras \in Seq(Seq(Nat))
        BY ParagraphKinds, SubSequences DEF Texted, IsVersion
    <2>2. PICK i \in DOMAIN after.paras : after.paras[i] = <<c[2]>>
        BY <1>2
    <2>3. Count({c[2]}, after.paras[i]) # 0
        BY <2>2, CountOne
    <2> QED
        BY <2>1, <2>3, CountSome DEF New
<1> HIDE DEF D, I, E, F
<1>10. c[1] # c[2] => D # {} /\ I # {}
    <2> SUFFICES ASSUME c[1] # c[2]
                 PROVE  D # {} /\ I # {}
        OBVIOUS
    <2>1. Cardinality(D) # 0 /\ Cardinality(I) # 0
        BY <1>3, <1>4, <1>5, <1>6, <1>8, <1>9
    <2> QED
        BY <2>1, FS_EmptySet
<1>11. /\ Old(c) > New(c) <=> Cardinality(D) > Cardinality(I)
       /\ New(c) > Old(c) <=> Cardinality(I) > Cardinality(D)
    BY <1>3, <1>4, <1>5, <1>7
<1> QED
    BY <1>10, <1>11 DEF D, I

(* Who takes whom among the placeholders of a pair.                         *)
LEMMA TakersOfPair ==
    ASSUME Texted, NEW ss \in Seq(LooseSegment), NEW c \in ImagePairs
    PROVE  LET T == Taken(ss)
               D == Deleted(ss, c)
               I == Inserted(ss, c)
           IN /\ PairedOff(T)
              /\ \A t \in T : t[1] \in D => t[2] \in I
              /\ \A d \in D : \/ \E t \in T : t[1] = d
                              \/ \A j \in I : \E t \in T : t[2] = j /\ t[1] \in D
<1> DEFINE T == Taken(ss)
           D == Deleted(ss, c)
           I == Inserted(ss, c)
           order == DeletesInOrder(ss, Keys)
<1>1. ss \in Seq(Segment) /\ \A k \in DOMAIN ss : ss[k] \in Segment
    <2>1. LooseSegment \subseteq Segment
        BY DEF LooseSegment
    <2> HIDE DEF Segment
    <2> QED
        BY <2>1, SubSequences
<1>2. Good(ss, order, Len(order), T) /\ IsOrder(ss, order)
    BY <1>1, TakenProperties, OrderProperties
<1>3. c[1] \in Label /\ c[2] \in Label /\ Target(c[1]) = c[2]
    BY ImagesPaired, TargetProperties
<1> HIDE DEF T, order
<1>4. \A d \in D : d \in Gone(ss) /\ ss[d].text = <<c[1]>> /\ ss[d].text[1] = c[1]
    <2> TAKE d \in D
    <2>1. d \in DOMAIN ss /\ ss[d].op = "delete" /\ ss[d].text = <<c[1]>>
        BY DEF Deleted, Spots
    <2> DEFINE text == ss[d].text
    <2>2. Len(text) = 1 /\ text[1] = c[1]
        BY <2>1
    <2>3. IsMedia(text)
        BY <1>3, <2>2 DEF IsMedia
    <2> QED
        BY <2>1, <2>2, <2>3 DEF Gone
<1>5. \A d \in D : \A j : Fits(ss, d, j) <=> j \in I
    BY <1>3, <1>4 DEF Fits, Inserted, Spots
<1>6. ASSUME NEW t \in T, t[1] \in D
      PROVE  t[2] \in I
    BY <1>2, <1>5, <1>6 DEF Good
<1>7. ASSUME NEW d \in D, ~\E t \in T : t[1] = d, NEW j \in I
      PROVE  \E t \in T : t[2] = j /\ t[1] \in D
    <2>1. PICK m \in 1 .. Len(order) : order[m] = d
        BY <1>2, <1>4 DEF IsOrder
    <2>2. \A k : Fits(ss, order[m], k) => \E t \in T, q \in 1 .. m - 1 : t[2] = k /\ t[1] = order[q]
        BY <1>2, <1>7, <2>1 DEF Good
    <2>3. PICK t \in T, q \in 1 .. m - 1 : t[2] = j /\ t[1] = order[q]
        BY <1>5, <1>7, <2>1, <2>2
    <2>4. q \in 1 .. Len(order) /\ q < m
        BY <1>2, <2>1 DEF IsOrder
    <2>5. t[1] \in Gone(ss)
        BY <1>2, <2>3, <2>4 DEF IsOrder
    <2>6. Fits(ss, t[1], j)
        BY <1>2, <2>3 DEF Good
    <2> DEFINE s == ss[t[1]]
               l == s.text[1]
    <2>7. s \in Segment /\ s.op = "delete" /\ IsMedia(s.text) /\ t[1] \in DOMAIN ss
        BY <1>1, <2>5 DEF Gone
    <2>8. s.text = <<l>>
        <3>1. s.text \in MediaParagraph
            BY <2>7, SegmentKinds DEF MediaSegment
        <3> QED
            BY <3>1 DEF MediaParagraph
    <2>9. Target(l) = c[2]
        <3>1. ss[j].text = <<Target(l)>>
            BY <2>6 DEF Fits
        <3>2. ss[j].text = <<c[2]>>
            BY <1>7 DEF Inserted, Spots
        <3>3. <<Target(l)>>[1] = <<c[2]>>[1]
            BY <3>1, <3>2
        <3> QED
            BY <3>3
    <2>10. l = c[1] \/ (l \notin Keys /\ c[1] \in Keys)
        BY <2>9, TargetProperties
    <2>11. c[1] \in Keys => l \in Keys
        <3>1. ss[order[m]].text[1] = c[1]
            BY <1>4, <2>1
        <3>2. c[1] \in Keys => ss[order[q]].text[1] \in Keys
            BY <1>2, <2>1, <2>4, <3>1 DEF IsOrder
        <3> QED
            BY <2>3, <3>2
    <2>12. l = c[1]
        BY <2>10, <2>11
    <2>13. t[1] \in D
        BY <2>7, <2>8, <2>12 DEF Deleted, Spots
    <2> QED
        BY <2>3, <2>13
<1>8. PairedOff(T)
    BY <1>2 DEF Good
<1> QED
    BY <1>6, <1>7, <1>8 DEF T

LEMMA DeletedLeft ==
    ASSUME Texted, NEW ss \in Seq(LooseSegment), Shows(ss), NEW c \in ImagePairs,
           NEW d \in Deleted(ss, c), ~\E t \in Taken(ss) : t[1] = d
    PROVE  Old(c) > New(c)
<1> DEFINE T == Taken(ss)
           D == Deleted(ss, c)
           I == Inserted(ss, c)
           f == [j \in I |-> (CHOOSE t \in T : t[2] = j /\ t[1] \in D)[1]]
<1>1. PairedOff(T) /\ \A j \in I : \E t \in T : t[2] = j /\ t[1] \in D
    BY TakersOfPair
<1>2. ss \in Seq(AnySegment)
    <2>1. LooseSegment \subseteq AnySegment
        BY Segments DEF LooseSegment
    <2> QED
        BY <2>1, SubSequences
<1>3. IsFiniteSet(D) /\ IsFiniteSet(I) /\ Cardinality(D) \in Nat /\ Cardinality(I) \in Nat
    BY <1>2, SpotsFinite DEF Deleted, Inserted
<1> HIDE DEF T, D, I
<1>4. \A j \in I : \E t \in T : t[2] = j /\ t[1] \in D /\ f[j] = t[1]
    <2> TAKE j \in I
    <2> DEFINE t == CHOOSE t \in T : t[2] = j /\ t[1] \in D
    <2>1. t \in T /\ t[2] = j /\ t[1] \in D
        BY <1>1
    <2>2. f[j] = t[1]
        OBVIOUS
    <2> HIDE DEF t, f
    <2> QED
        BY <2>1, <2>2
<1>5. f = [j \in I |-> f[j]]
    OBVIOUS
<1> HIDE DEF f
<1>6. d \in D /\ \A t \in T : t[1] # d
    BY DEF D, T
<1>7. f \in [I -> D \ {d}]
    <2>1. \A j \in I : f[j] \in D \ {d}
        BY <1>4, <1>6
    <2> QED
        BY <1>5, <2>1
<1>8. \A j, k \in I : f[j] = f[k] => j = k
    BY <1>1, <1>4 DEF PairedOff
<1>9. Cardinality(I) < Cardinality(D)
    BY <1>3, <1>6, <1>7, <1>8, OneToSpare
<1> QED
    BY <1>3, <1>9, SpotsBalance DEF D, I

LEMMA InsertedLeft ==
    ASSUME Texted, NEW ss \in Seq(LooseSegment), Shows(ss), NEW c \in ImagePairs,
           NEW j \in Inserted(ss, c), ~\E t \in Taken(ss) : t[2] = j
    PROVE  New(c) > Old(c)
<1> DEFINE T == Taken(ss)
           D == Deleted(ss, c)
           I == Inserted(ss, c)
           f == [d \in D |-> (CHOOSE t \in T : t[1] = d)[2]]
<1>1. PairedOff(T) /\ (\A t \in T : t[1] \in D => t[2] \in I) /\ \A d \in D : \E t \in T : t[1] = d
    BY TakersOfPair
<1>2. ss \in Seq(AnySegment)
    <2>1. LooseSegment \subseteq AnySegment
        BY Segments DEF LooseSegment
    <2> QED
        BY <2>1, SubSequences
<1>3. IsFiniteSet(D) /\ IsFiniteSet(I) /\ Cardinality(D) \in Nat /\ Cardinality(I) \in Nat
    BY <1>2, SpotsFinite DEF Deleted, Inserted
<1> HIDE DEF T, D, I
<1>4. \A d \in D : \E t \in T : t[1] = d /\ t[2] \in I /\ f[d] = t[2]
    <2> TAKE d \in D
    <2> DEFINE t == CHOOSE t \in T : t[1] = d
    <2>1. t \in T /\ t[1] = d
        BY <1>1
    <2>2. f[d] = t[2]
        OBVIOUS
    <2> HIDE DEF t, f
    <2> QED
        BY <1>1, <2>1, <2>2
<1>5. f = [d \in D |-> f[d]]
    OBVIOUS
<1> HIDE DEF f
<1>6. j \in I /\ \A t \in T : t[2] # j
    BY DEF I, T
<1>7. f \in [D -> I \ {j}]
    <2>1. \A d \in D : f[d] \in I \ {j}
        BY <1>4, <1>6
    <2> QED
        BY <1>5, <2>1
<1>8. \A d, e \in D : f[d] = f[e] => d = e
    BY <1>1, <1>4 DEF PairedOff
<1>9. Cardinality(D) < Cardinality(I)
    BY <1>3, <1>6, <1>7, <1>8, OneToSpare
<1> QED
    BY <1>3, <1>9, SpotsBalance DEF D, I

-----------------------------------------------------------------------------
(* The merged diff shows both versions, and the pairs of images.            *)
Balanced(ss, c) ==
    /\ Seg("delete", <<c[1]>>) \in Range(ss) => Old(c) > New(c)
    /\ Seg("insert", <<c[2]>>) \in Range(ss) => New(c) > Old(c)
    /\ c[1] # c[2] => Seg("moved", <<c[2]>>) \in Range(ss)
MergedWell(ss) ==
    /\ ss \in Seq(AnySegment)
    /\ Text(ss, AfterOps) = FlattenSeq(after.paras)
    /\ \A y : Count(NamedTo(y), FlattenSeq(before.paras)) =
                 Count({y}, Text(ss, Shown)) + Count(NamedTo(y), Text(ss, {"delete"}))
    /\ \A c \in ImagePairs : Balanced(ss, c)

LEMMA RangeOfList == \A s, x : x \in Range(s) <=> \E i \in DOMAIN s : s[i] = x
BY DEF Range

LEMMA MergeShows ==
    ASSUME Texted, NEW given \in Seq(Segment), Shows(given)
    PROVE  MergedWell(MergeMediaPlaceholders(given))
<1> DEFINE ss == Loosened(given)
           T == Taken(ss)
           P == [i \in DOMAIN ss |-> MergedPiece(ss, T, i)]
           n == Len(ss)
           R == FlattenSeq(P)
<1>1. MergeMediaPlaceholders(given) = R
    BY DEF MergeMediaPlaceholders, Merge, MergedPiece
<1>2. ss \in Seq(LooseSegment) /\ Shows(ss)
    BY LoosenedShows DEF Shows
<1> HIDE DEF ss
<1>3. Merging(ss, T, P, n)
    BY <1>2, MergingHolds
<1> HIDE DEF P, n
<1>4. R \in Seq(AnySegment)
    <2>1. P \in Seq(Seq(AnySegment))
        BY <1>3 DEF Merging
    <2> QED
        BY <2>1, FlattenType
<1>5. Text(R, AfterOps) = FlattenSeq(after.paras)
    BY <1>2, <1>3, MergedAfter DEF Shows
<1>6. \A y : Count(NamedTo(y), FlattenSeq(before.paras)) =
                 Count({y}, Text(R, Shown)) + Count(NamedTo(y), Text(R, {"delete"}))
    <2> TAKE y
    <2>1. Count(NamedTo(y), Text(ss, BeforeOps)) = Count({y}, Text(R, Shown)) + Count(NamedTo(y), Text(R, {"delete"}))
        BY <1>3, MergedBefore
    <2>2. NamedTo(y) \in SUBSET Nat
        BY DEF NamedTo
    <2> QED
        BY <1>2, <2>1, <2>2 DEF Shows
<1> HIDE DEF R
<1>7. /\ \A i \in DOMAIN R : R[i].op = "moved" \/ \E k \in 1 .. n : R[i] = ss[k] /\ \A t \in T : t[1] # k /\ t[2] # k
      /\ \A t \in T : \E i \in DOMAIN R : R[i] = Seg("moved", ss[t[2]].text)
    BY <1>3, MergedElements DEF R
<1>8. DOMAIN ss = 1 .. n
    BY <1>3 DEF Merging
<1> HIDE DEF T
<1>9. ASSUME NEW c \in ImagePairs
      PROVE  Balanced(R, c)
    <2>1. ASSUME Seg("delete", <<c[1]>>) \in Range(R)
          PROVE  Old(c) > New(c)
        <3>1. PICK i \in DOMAIN R : R[i] = Seg("delete", <<c[1]>>)
            BY <2>1, RangeOfList
        <3>2. R[i].op = "delete" /\ R[i].text = <<c[1]>>
            BY <3>1 DEF Seg
        <3>3. PICK k \in 1 .. n : R[i] = ss[k] /\ \A t \in T : t[1] # k /\ t[2] # k
            BY <1>7, <3>2
        <3>4. k \in Deleted(ss, c)
            BY <1>8, <3>2, <3>3 DEF Deleted, Spots
        <3> QED
            BY <1>2, <3>3, <3>4, DeletedLeft DEF T
    <2>2. ASSUME Seg("insert", <<c[2]>>) \in Range(R)
          PROVE  New(c) > Old(c)
        <3>1. PICK i \in DOMAIN R : R[i] = Seg("insert", <<c[2]>>)
            BY <2>2, RangeOfList
        <3>2. R[i].op = "insert" /\ R[i].text = <<c[2]>>
            BY <3>1 DEF Seg
        <3>3. PICK k \in 1 .. n : R[i] = ss[k] /\ \A t \in T : t[1] # k /\ t[2] # k
            BY <1>7, <3>2
        <3>4. k \in Inserted(ss, c)
            BY <1>8, <3>2, <3>3 DEF Inserted, Spots
        <3> QED
            BY <1>2, <3>3, <3>4, InsertedLeft DEF T
    <2>3. ASSUME c[1] # c[2]
          PROVE  Seg("moved", <<c[2]>>) \in Range(R)
        <3>1. PICK d \in Deleted(ss, c) : TRUE
            BY <1>2, <2>3, SpotsBalance
        <3>2. PICK j \in Inserted(ss, c) : TRUE
            BY <1>2, <2>3, SpotsBalance
        <3>3. /\ \A t \in T : t[1] \in Deleted(ss, c) => t[2] \in Inserted(ss, c)
              /\ \/ \E t \in T : t[1] = d
                 \/ \E t \in T : t[2] = j
            BY <1>2, TakersOfPair DEF T
        <3>4. PICK t \in T : t[2] \in Inserted(ss, c)
            BY <3>3
        <3>5. PICK i \in DOMAIN R : R[i] = Seg("moved", ss[t[2]].text)
            BY <1>7
        <3>6. ss[t[2]].text = <<c[2]>>
            BY <3>4 DEF Inserted, Spots
        <3> QED
            BY <3>5, <3>6, RangeOfList
    <2> QED
        BY <2>1, <2>2, <2>3 DEF Balanced
<1>10. MergedWell(R)
    BY <1>4, <1>5, <1>6, <1>9 DEF MergedWell
<1> QED
    BY <1>1, <1>10

-----------------------------------------------------------------------------
(* Before the merging, what is shown and what is gone are the old version.  *)
LEMMA SidesSplit ==
    ASSUME NEW ss \in Seq(AnySegment), NEW X
    PROVE  Count(X, Text(ss, BeforeOps)) = Count(X, Text(ss, Shown)) + Count(X, Text(ss, {"delete"}))
<1> DEFINE n == Len(ss)
           f == Counts(X, Sides(ss, BeforeOps))
           g == Counts(X, Sides(ss, Shown))
           h == Counts(X, Sides(ss, {"delete"}))
<1>1. /\ n \in Nat /\ Count(X, Text(ss, BeforeOps)) = Total(f, 1 .. n)
      /\ \A k \in 1 .. n : f[k] = IF ss[k].op \in BeforeOps THEN Count(X, ss[k].text) ELSE 0
    BY SegmentsCount
<1>2. /\ Count(X, Text(ss, Shown)) = Total(g, 1 .. n)
      /\ \A k \in 1 .. n : g[k] = (IF ss[k].op \in Shown THEN Count(X, ss[k].text) ELSE 0) /\ g[k] \in Nat
    BY SegmentsCount
<1>3. /\ Count(X, Text(ss, {"delete"})) = Total(h, 1 .. n)
      /\ \A k \in 1 .. n : h[k] = (IF ss[k].op \in {"delete"} THEN Count(X, ss[k].text) ELSE 0) /\ h[k] \in Nat
    BY SegmentsCount
<1>4. \A k \in 1 .. n : ss[k].op \in Op /\ Count(X, ss[k].text) \in Nat
    <2> TAKE k \in 1 .. n
    <2>0. ss[k] \in AnySegment
        OBVIOUS
    <2>1. ss[k].op \in Op /\ ss[k].text \in Seq(Nat)
        BY <2>0 DEF AnySegment
    <2> QED
        BY <2>1, CountNat
<1> HIDE DEF f, g, h, n
<1>5. \A k \in 1 .. n : f[k] = g[k] + h[k]
    <2> TAKE k \in 1 .. n
    <2> DEFINE s == ss[k]
               c == Count(X, s.text)
    <2>1. s.op \in Op /\ c \in Nat
        BY <1>4
    <2>2. f[k] = IF s.op \in BeforeOps THEN c ELSE 0
        BY <1>1
    <2>3. g[k] = IF s.op \in Shown THEN c ELSE 0
        BY <1>2
    <2>4. h[k] = IF s.op \in {"delete"} THEN c ELSE 0
        BY <1>3
    <2> HIDE DEF s, c
    <2> QED
        BY <2>1, <2>2, <2>3, <2>4 DEF Op, BeforeOps, Shown
<1>6. IsFiniteSet(1 .. n)
    BY <1>1, FS_Interval
<1>7. Total(f, 1 .. n) = Total(g, 1 .. n) + Total(h, 1 .. n)
    BY <1>2, <1>3, <1>5, <1>6, TotalSum
<1> QED
    BY <1>1, <1>2, <1>3, <1>7

LEMMA CountWithin ==
    ASSUME NEW s, NEW X, NEW Y, \A w \in Range(s) : w \in X <=> w \in Y
    PROVE  Count(X, s) = Count(Y, s)
<1>1. {i \in DOMAIN s : s[i] \in X} = {i \in DOMAIN s : s[i] \in Y}
    BY RangeOfList
<1> QED
    BY <1>1 DEF Count

-----------------------------------------------------------------------------
(* The inductive invariant: what the segments show at each stage. *)
DiffInv ==
    /\ diffed \in {"new", "moving", "merging", "done"}
    /\ Texted
    /\ diffed \in {"moving", "merging"} /\ ~cut => segs \in Seq(Segment) /\ Shows(segs)
    /\ diffed = "done" /\ ~cut => MergedWell(segs)
    /\ ~cut => BeforeInOrder

LEMMA DiffInvHolds == DiffInv => DiffFaithful
<1> SUFFICES ASSUME DiffInv, ~cut
             PROVE  AfterIsExact /\ BeforeIsWhole /\ PicturesPaired
    BY DEF DiffInv, DiffFaithful
<1> DEFINE old == FlattenSeq(before.paras)
           shown == Text(segs, {"equal", "moved"})
           gone == Text(segs, {"delete"})
           words == Range(old) \cup Range(shown) \cup Range(gone)
           newName == [x \in words |-> IF diffed = "done" THEN Target(x) ELSE x]
           named(x) == {w \in words : newName[w] = newName[x]}
<1>0. AfterOps = {"equal", "insert", "moved"} /\ Shown = {"equal", "moved"}
    BY DEF AfterOps, Shown
<1>1. CASE diffed = "new"
    BY <1>1 DEF AfterIsExact, BeforeIsWhole, PicturesPaired
<1>2. diffed # "new" => words \subseteq Nat
    <2> SUFFICES ASSUME diffed # "new"
                 PROVE  words \subseteq Nat
        OBVIOUS
    <2>1. segs \in Seq(AnySegment)
        <3> HIDE DEF Segment
        <3> QED
            BY Segments DEF DiffInv, MergedWell
    <2>2. shown \in Seq(Nat) /\ gone \in Seq(Nat)
        BY <2>1, TextIsFlatMap
    <2>3. old \in Seq(Nat)
        <3>1. before.paras \in Seq(Seq(Nat))
            BY ParagraphKinds, SubSequences DEF DiffInv, Texted, IsVersion
        <3> QED
            BY <3>1, FlattenType
    <2> HIDE DEF old, shown, gone
    <2>4. \A s \in Seq(Nat) : Range(s) \subseteq Nat
        BY RangeOfList
    <2> QED
        BY <2>2, <2>3, <2>4
<1>3. CASE diffed \in {"moving", "merging"}
    <2>1. segs \in Seq(AnySegment) /\ Shows(segs)
        <3> HIDE DEF Segment
        <3> QED
            BY <1>3, Segments DEF DiffInv
    <2>2. AfterIsExact
        BY <1>0, <2>1 DEF AfterIsExact, Shows
    <2>3. \A x \in words : Count({x}, old) = Count({x}, shown) + Count({x}, gone)
        <3> TAKE x \in words
        <3>1. {x} \in SUBSET Nat
            BY <1>2, <1>3
        <3>2. Count({x}, Text(segs, BeforeOps)) = Count({x}, old)
            BY <2>1, <3>1 DEF Shows
        <3>3. Count({x}, Text(segs, BeforeOps)) = Count({x}, Text(segs, Shown)) + Count({x}, gone)
            BY <2>1, SidesSplit
        <3> QED
            BY <1>0, <3>2, <3>3
    <2>4. \A x \in words : {w \in words : w = x} = {x}
        OBVIOUS
    <2> HIDE DEF words, old, shown, gone
    <2>5. BeforeIsWhole
        <3>1. \A x \in words : newName[x] = x
            BY <1>3
        <3>2. \A x \in words : named(x) = {x}
            BY <2>4, <3>1
        <3> HIDE DEF newName, named
        <3>3. \A x \in words : Count(named(x), old) = Count({newName[x]}, shown) + Count(named(x), gone)
            BY <2>3, <3>1, <3>2
        <3> QED
            BY <3>3 DEF BeforeIsWhole, words, old, shown, gone, newName, named
    <2> QED
        BY <1>3, <2>2, <2>5 DEF PicturesPaired
<1>4. CASE diffed = "done"
    <2>1. MergedWell(segs)
        BY <1>4 DEF DiffInv
    <2>2. AfterIsExact
        BY <1>0, <2>1 DEF AfterIsExact, MergedWell
    <2>3. \A x \in words : newName[x] = Target(x)
        BY <1>4
    <2> HIDE DEF words, old, shown, gone, newName
    <2>4. BeforeIsWhole
        <3>1. ASSUME NEW x \in words
              PROVE  Count(named(x), old) = Count({newName[x]}, shown) + Count(named(x), gone)
            <4> DEFINE y == newName[x]
            <4>1. \A w \in words : w \in named(x) <=> w \in NamedTo(y)
                BY <1>2, <1>4, <2>3 DEF NamedTo
            <4> HIDE DEF named, y
            <4>2. Count(named(x), old) = Count(NamedTo(y), old)
                BY <4>1, CountWithin DEF words
            <4>3. Count(named(x), gone) = Count(NamedTo(y), gone)
                BY <4>1, CountWithin DEF words
            <4>4. Count(NamedTo(y), old) = Count({y}, shown) + Count(NamedTo(y), gone)
                BY <1>0, <2>1 DEF MergedWell, old, shown, gone
            <4> QED
                BY <4>2, <4>3, <4>4 DEF y
        <3> HIDE DEF named
        <3> QED
            BY <3>1 DEF BeforeIsWhole, words, old, shown, gone, newName, named
    <2>5. PicturesPaired
        BY <1>4, <2>1 DEF PicturesPaired, MergedWell, Balanced, Old, New
    <2> QED
        BY <2>2, <2>4, <2>5
<1> QED
    BY <1>1, <1>3, <1>4 DEF DiffInv

LEMMA DiffInitInv == DiffInit => DiffInv
<1> SUFFICES ASSUME DiffInit
             PROVE  DiffInv
    OBVIOUS
<1>1. Texted
    BY VersionAssumption DEF DiffInit, Texted, IsVersion, Paragraph
<1> QED
    BY <1>1 DEF DiffInit, DiffInv, BeforeInOrder

LEMMA VersionsStay ==
    ASSUME UNCHANGED <<before, after>>
    PROVE  /\ ImagePairs' = ImagePairs /\ (\A y : NamedTo(y)' = NamedTo(y))
           /\ Texted' <=> Texted
           /\ \A ss : Shows(ss)' <=> Shows(ss)
           /\ \A ss : MergedWell(ss)' <=> MergedWell(ss)
<1>1. ImagePairs' = ImagePairs
    BY DEF ImagePairs
<1>2. Renumbered' = Renumbered
    BY <1>1 DEF Renumbered
<1>3. Keys' = Keys
    BY <1>2 DEF Keys
<1>4. \A l : Target(l)' = Target(l)
    BY <1>2, <1>3 DEF Target
<1>5. \A y : NamedTo(y)' = NamedTo(y)
    BY <1>4 DEF NamedTo
<1>6. Texted' <=> Texted
    BY DEF Texted
<1>7. \A ss : Shows(ss)' <=> Shows(ss)
    BY DEF Shows
<1>8. \A ss, c : Balanced(ss, c)' <=> Balanced(ss, c)
    BY DEF Balanced, Old, New
<1>9. \A ss : MergedWell(ss)' <=> MergedWell(ss)
    BY <1>1, <1>5, <1>8 DEF MergedWell
<1> QED
    BY <1>1, <1>5, <1>6, <1>7, <1>9

(* A merge that takes nothing leaves the old side as it is.                 *)
LEMMA NothingTaken ==
    ASSUME NEW given \in Seq(Segment), Taken(Loosened(given)) = {}
    PROVE  Text(MergeMediaPlaceholders(given), BeforeOps) = Text(given, BeforeOps)
<1> DEFINE ss == Loosened(given)
           P == [i \in DOMAIN ss |-> MergedPiece(ss, {}, i)]
<1>1. MergeMediaPlaceholders(given) = FlattenSeq(P)
    BY DEF MergeMediaPlaceholders, Merge, MergedPiece
<1>2. ss \in Seq(LooseSegment) /\ Text(ss, BeforeOps) = Text(given, BeforeOps)
    BY LoosenedShows
<1>3. P = [i \in DOMAIN ss |-> <<ss[i]>>]
    BY DEF MergedPiece
<1> HIDE DEF ss, P
<1>4. FlattenSeq(P) = ss
    BY <1>2, <1>3, FlattenSingles
<1> QED
    BY <1>1, <1>2, <1>4

LEMMA DiffStepInv == DiffInv /\ [DiffNext]_diffVars => DiffInv'
<1> SUFFICES ASSUME DiffInv, [DiffNext]_diffVars
             PROVE  DiffInv'
    OBVIOUS
<1> HIDE DEF Segment
<1>0. UNCHANGED <<before, after>>
    BY DEF DiffNext, AlignParagraphs, MovePass, MergePlaceholders, diffVars
<1>1. Texted /\ Texted'
    BY <1>0, VersionsStay DEF DiffInv
<1>o. \A ss : OldText(ss) = Text(ss, BeforeOps)
    BY DEF OldText, BeforeOps
<1>2. ASSUME AlignParagraphs
      PROVE  DiffInv'
    <2>1. /\ segs' = Align(before.paras, after.paras) /\ diffed' = "moving"
          /\ cut' = AlignTooLong(before.paras, after.paras)
        BY <1>2 DEF AlignParagraphs
    <2>2. ASSUME ~cut'
          PROVE  segs' \in Seq(Segment) /\ Shows(segs')
        <3>1. before.paras \in Seq(Paragraph) /\ after.paras \in Seq(Paragraph)
            BY <1>1 DEF Texted, IsVersion
        <3> QED
            BY <2>1, <2>2, <3>1, AlignShows DEF Shows
    <2>3. ~cut' => segs' \in Seq(Segment) /\ Shows(segs)'
        BY <1>0, <2>2 DEF Shows
    <2>4. ~cut' => BeforeInOrder'
        <3>1. before.paras \in Seq(Paragraph) /\ after.paras \in Seq(Paragraph)
            BY <1>1 DEF Texted, IsVersion
        <3>2. ~cut' => Text(segs', BeforeOps) = FlattenSeq(before.paras)
            BY <2>1, <3>1, AlignShows
        <3>3. OldText(segs)' = Text(segs', BeforeOps)
            BY DEF OldText, BeforeOps
        <3> QED
            BY <1>0, <3>2, <3>3 DEF BeforeInOrder
    <2> QED
        BY <1>1, <2>1, <2>3, <2>4 DEF DiffInv
<1>3. ASSUME MovePass
      PROVE  DiffInv'
    <2>1. /\ segs' = MatchMoved(segs) /\ diffed = "moving" /\ diffed' \in {"moving", "merging"}
          /\ cut' = (cut \/ MoveTooLong(segs))
        BY <1>3 DEF MovePass
    <2>2. ASSUME ~cut'
          PROVE  segs' \in Seq(Segment) /\ Shows(segs')
        <3>1. ~cut /\ ~MoveTooLong(segs)
            BY <2>1, <2>2
        <3>2. segs \in Seq(Segment) /\ Shows(segs)
            BY <2>1, <3>1 DEF DiffInv
        <3>3. /\ MatchMoved(segs) \in Seq(Segment)
              /\ Text(MatchMoved(segs), AfterOps) = Text(segs, AfterOps)
              /\ \A X : Count(X, Text(MatchMoved(segs), BeforeOps)) = Count(X, Text(segs, BeforeOps))
            BY <3>1, <3>2, MatchMovedShows
        <3> QED
            BY <2>1, <3>2, <3>3 DEF Shows
    <2>3. ~cut' => segs' \in Seq(Segment) /\ Shows(segs)'
        BY <1>0, <2>2 DEF Shows
    <2>4. diffed' \in {"new", "moving", "merging", "done"} /\ diffed' # "done"
        BY <2>1
    <2>5. ~cut' => BeforeInOrder'
        <3> SUFFICES ASSUME ~cut', ~rearranged'
                     PROVE  OldText(segs)' = FlattenSeq(before.paras)
            BY <1>0 DEF BeforeInOrder
        <3>1. segs' = segs /\ ~rearranged /\ ~cut
            BY <1>3, <2>1 DEF MovePass
        <3>2. OldText(segs) = FlattenSeq(before.paras)
            BY <2>1, <3>1 DEF DiffInv, BeforeInOrder
        <3>3. OldText(segs)' = OldText(segs)
            BY <3>1 DEF OldText
        <3> QED
            BY <3>2, <3>3
    <2> QED
        BY <1>1, <2>3, <2>4, <2>5 DEF DiffInv
<1>4. ASSUME MergePlaceholders
      PROVE  DiffInv'
    <2> DEFINE merged == MergeMediaPlaceholders(segs)
    <2>1. /\ segs' = FirstOf(merged, MAX_BODY_SEGMENTS) /\ diffed = "merging" /\ diffed' = "done"
          /\ cut' = (cut \/ Len(merged) > MAX_BODY_SEGMENTS)
        BY <1>4 DEF MergePlaceholders
    <2> HIDE DEF merged
    <2>2. ASSUME ~cut'
          PROVE  MergedWell(segs')
        <3>1. ~cut /\ ~(Len(merged) > MAX_BODY_SEGMENTS)
            BY <2>1, <2>2
        <3>2. segs \in Seq(Segment) /\ Shows(segs)
            BY <2>1, <3>1 DEF DiffInv
        <3>3. MergedWell(merged)
            BY <1>1, <3>2, MergeShows DEF merged
        <3>4. merged \in Seq(AnySegment)
            BY <3>3 DEF MergedWell
        <3>5. Len(merged) <= MAX_BODY_SEGMENTS
            <4>1. Len(merged) \in Nat
                BY <3>4
            <4> QED
                BY <3>1, <4>1, CapAssumption
        <3>6. FirstOf(merged, MAX_BODY_SEGMENTS) = merged
            BY <3>4, <3>5, CapAssumption, FirstOfShort
        <3> QED
            BY <2>1, <3>3, <3>6
    <2>3. ~cut' => MergedWell(segs)'
        <3> SUFFICES ASSUME ~cut'
                     PROVE  MergedWell(segs)'
            OBVIOUS
        <3>1. MergedWell(segs')
            BY <2>2
        <3>2. ImagePairs' = ImagePairs /\ (\A y : NamedTo(y)' = NamedTo(y))
            BY <1>0, VersionsStay
        <3>3. \A c : Balanced(segs, c)' <=> Balanced(segs', c)
            BY <1>0 DEF Balanced, Old, New
        <3> QED
            BY <1>0, <3>1, <3>2, <3>3 DEF MergedWell
    <2>4. ~cut' => BeforeInOrder'
        <3> SUFFICES ASSUME ~cut', ~rearranged'
                     PROVE  OldText(segs)' = FlattenSeq(before.paras)
            BY <1>0 DEF BeforeInOrder
        <3>1. ~rearranged /\ Taken(Loosened(segs)) = {}
            BY <1>4 DEF MergePlaceholders
        <3>2. ~cut /\ ~(Len(merged) > MAX_BODY_SEGMENTS)
            BY <2>1
        <3>3. segs \in Seq(Segment) /\ Shows(segs) /\ OldText(segs) = FlattenSeq(before.paras)
            BY <2>1, <3>1, <3>2 DEF DiffInv, BeforeInOrder
        <3>4. merged \in Seq(AnySegment)
            BY <1>1, <3>3, MergeShows DEF MergedWell, merged
        <3>5. FirstOf(merged, MAX_BODY_SEGMENTS) = merged
            <4>1. Len(merged) \in Nat
                BY <3>4
            <4>2. Len(merged) <= MAX_BODY_SEGMENTS
                BY <3>2, <4>1, CapAssumption
            <4> QED
                BY <3>4, <4>2, CapAssumption, FirstOfShort
        <3>6. Text(merged, BeforeOps) = Text(segs, BeforeOps)
            BY <3>1, <3>3, NothingTaken DEF merged
        <3>7. OldText(segs)' = Text(segs', BeforeOps)
            BY DEF OldText, BeforeOps
        <3> QED
            BY <1>o, <2>1, <3>3, <3>5, <3>6, <3>7
    <2> QED
        BY <1>1, <2>1, <2>3, <2>4 DEF DiffInv
<1>5. ASSUME UNCHANGED diffVars
      PROVE  DiffInv'
    <2>1. diffed' = diffed /\ segs' = segs /\ cut' = cut /\ rearranged' = rearranged
        BY <1>5 DEF diffVars
    <2>4. BeforeInOrder' <=> BeforeInOrder
        BY <1>0, <2>1 DEF BeforeInOrder, OldText
    <2>2. Shows(segs)' <=> Shows(segs)
        BY <1>0, <2>1 DEF Shows
    <2>3. MergedWell(segs)' <=> MergedWell(segs)
        <3>1. ImagePairs' = ImagePairs /\ (\A y : NamedTo(y)' = NamedTo(y))
            BY <1>0, VersionsStay
        <3>2. \A c : Balanced(segs, c)' <=> Balanced(segs, c)
            BY <1>0, <2>1 DEF Balanced, Old, New
        <3> QED
            BY <1>0, <2>1, <3>1, <3>2 DEF MergedWell
    <2> QED
        BY <1>1, <2>1, <2>2, <2>3, <2>4 DEF DiffInv
<1> QED
    BY <1>2, <1>3, <1>4, <1>5 DEF DiffNext

(* For any versions, labels, thresholds and caps the body diff reads as the *)
(* new version and shows each word of the old one once, in its order where  *)
(* nothing has moved, and its placeholders follow the images, unless a cap  *)
(* has cut it.                                                              *)
THEOREM DiffIsFaithful == DiffSpec => []DiffFaithful
<1>1. DiffSpec => []DiffInv
    BY DiffInitInv, DiffStepInv, PTL DEF DiffSpec
<1> QED
    BY <1>1, DiffInvHolds, PTL
=============================================================================
