----------------------------- MODULE ListLemmas -----------------------------
(* What the operators of Lists.tla return, for lists and sets of any size.  *)
EXTENDS SequencesExt, Lists, FiniteSetTheorems, TLAPS

(* Induction: the least element of a set of naturals, for instance of the   *)
(* counterexamples, and a smallest set among finite ones.                   *)
LEMMA LeastNatural ==
    ASSUME NEW S \in SUBSET Nat, S # {}
    PROVE  \E m \in S : \A n \in S : m <= n
<1>1. IsWellFoundedOn(OpToRel(<, Nat), Nat)
    BY NatLessThanWellFounded
<1>2. PICK m \in S : \A n \in S : <<n, m>> \notin OpToRel(<, Nat)
    BY <1>1, WFMin
<1>3. \A n \in S : ~(n < m)
    BY <1>2 DEF OpToRel
<1> QED
    BY <1>3

LEMMA SmallestSet ==
    ASSUME NEW S, IsFiniteSet(S), NEW T \in SUBSET SUBSET S, T # {}
    PROVE  \E m \in T : \A t \in T : t \subseteq m => t = m
<1>1. T \subseteq FiniteSubsetsOf(S)
    BY FS_FiniteSubsetsOfFinite
<1>2. PICK m \in T : \A t \in T : <<t, m>> \notin StrictSubsetOrdering(S)
    BY <1>1, FS_StrictSubsetOrderingWellFounded, WFMin
<1> QED
    BY <1>2 DEF StrictSubsetOrdering

-----------------------------------------------------------------------------
(* Enumeration. *)

LEMMA EnumerateProperties ==
    ASSUME NEW S, IsFiniteSet(S), NEW R, StrictOrder(S, R)
    PROVE  LET e == Enumerate(S, R)
           IN /\ Cardinality(S) \in Nat /\ DOMAIN e = 1 .. Cardinality(S)
              /\ e \in Seq(S) /\ Len(e) = Cardinality(S)
              /\ \A i, j \in DOMAIN e : i < j => <<e[i], e[j]>> \in R
              /\ \A i, j \in DOMAIN e : e[i] = e[j] => i = j
              /\ \A x \in S : \E k \in DOMAIN e : e[k] = x
              /\ \A k \in DOMAIN e : Cardinality({y \in S : <<y, e[k]>> \in R}) = k - 1
<1> DEFINE Below(x) == {y \in S : <<y, x>> \in R}
           n == Cardinality(S)
           e == Enumerate(S, R)
           rank == [x \in S |-> Cardinality(Below(x)) + 1]
<1>1. n \in Nat
    BY FS_CardinalityType
<1>2. \A x \in S : IsFiniteSet(Below(x)) /\ Cardinality(Below(x)) \in Nat /\ Cardinality(Below(x)) < n
    <2> TAKE x \in S
    <2>1. Below(x) \in SUBSET S /\ x \notin Below(x)
        BY DEF StrictOrder
    <2>2. /\ IsFiniteSet(Below(x)) /\ Cardinality(Below(x)) <= n
          /\ n = Cardinality(Below(x)) => S = Below(x)
        BY <2>1, FS_Subset
    <2>3. Cardinality(Below(x)) \in Nat
        BY <2>2, FS_CardinalityType
    <2> HIDE DEF Below, n
    <2> QED
        BY <1>1, <2>1, <2>2, <2>3
<1>3. \A x, y \in S : <<x, y>> \in R => Cardinality(Below(x)) < Cardinality(Below(y))
    <2> TAKE x, y \in S
    <2> HAVE <<x, y>> \in R
    <2>1. Below(x) \in SUBSET Below(y) /\ x \in Below(y) /\ x \notin Below(x)
        BY DEF StrictOrder
    <2>2. /\ Cardinality(Below(x)) <= Cardinality(Below(y))
          /\ Cardinality(Below(x)) = Cardinality(Below(y)) => Below(x) = Below(y)
        BY <1>2, <2>1, FS_Subset
    <2> HIDE DEF Below
    <2> QED
        BY <1>2, <2>1, <2>2
<1>4. \A x, y \in S : x # y => <<x, y>> \in R \/ <<y, x>> \in R
    BY DEF StrictOrder
<1> HIDE DEF Below, n
<1>5. rank \in [S -> 1 .. n] /\ \A x, y \in S : rank[x] = rank[y] => x = y
    <2>1. \A x \in S : rank[x] = Cardinality(Below(x)) + 1
        OBVIOUS
    <2>2. \A x \in S : Cardinality(Below(x)) + 1 \in 1 .. n
        BY <1>1, <1>2
    <2>3. \A x, y \in S : rank[x] = rank[y] => Cardinality(Below(x)) = Cardinality(Below(y))
        BY <1>2, <2>1
    <2>4. \A x, y \in S : Cardinality(Below(x)) = Cardinality(Below(y)) => x = y
        <3> TAKE x, y \in S
        <3>1. /\ Cardinality(Below(x)) \in Nat /\ Cardinality(Below(y)) \in Nat
              /\ <<x, y>> \in R => Cardinality(Below(x)) < Cardinality(Below(y))
              /\ <<y, x>> \in R => Cardinality(Below(y)) < Cardinality(Below(x))
              /\ x # y => <<x, y>> \in R \/ <<y, x>> \in R
            BY <1>2, <1>3, <1>4
        <3> QED
            BY <3>1
    <2> QED
        BY <2>1, <2>2, <2>3, <2>4
<1>6. IsFiniteSet(1 .. n) /\ Cardinality(1 .. n) = n
    BY <1>1, FS_Interval
<1>7. \A k \in 1 .. n : \E x \in S : rank[x] = k
    <2>1. rank \in Injection(S, 1 .. n)
        BY <1>5 DEF Injection, IsInjective
    <2>2. rank \in Surjection(S, 1 .. n)
        BY <1>6, <2>1, FS_Injection DEF n
    <2> QED
        BY <2>2 DEF Surjection
<1>8. e = [k \in 1 .. n |-> CHOOSE x \in S : Cardinality(Below(x)) = k - 1]
    BY DEF Enumerate, Below, n
<1>9. \A k \in 1 .. n : e[k] \in S /\ Cardinality(Below(e[k])) = k - 1
    <2> TAKE k \in 1 .. n
    <2>1. \E x \in S : Cardinality(Below(x)) = k - 1
        BY <1>1, <1>2, <1>7
    <2> QED
        BY <1>8, <2>1
<1> HIDE DEF e
<1>10. DOMAIN e = 1 .. n /\ e \in Seq(S) /\ Len(e) = n
    <2>1. e \in [1 .. n -> S]
        BY <1>8, <1>9 DEF e
    <2> QED
        BY <1>1, <2>1
<1>11. \A i, j \in 1 .. n : i < j => <<e[i], e[j]>> \in R
    <2> TAKE i, j \in 1 .. n
    <2> HAVE i < j
    <2>1. e[i] # e[j] /\ ~(<<e[j], e[i]>> \in R)
        BY <1>1, <1>3, <1>9
    <2> QED
        BY <1>4, <1>9, <2>1
<1>12. \A i, j \in 1 .. n : e[i] = e[j] => i = j
    BY <1>1, <1>9
<1>13. \A x \in S : \E k \in 1 .. n : e[k] = x
    <2> TAKE x \in S
    <2>1. rank[x] \in 1 .. n
        BY <1>5
    <2>2. e[rank[x]] \in S /\ Cardinality(Below(e[rank[x]])) = rank[x] - 1
        BY <1>9, <2>1
    <2>3. rank[e[rank[x]]] = rank[x]
        BY <1>2, <2>2
    <2> QED
        BY <1>5, <2>1, <2>2, <2>3
<1>14. \A k \in DOMAIN e : Cardinality({y \in S : <<y, e[k]>> \in R}) = k - 1
    BY <1>9, <1>10 DEF Below
<1> QED
    BY <1>1, <1>10, <1>11, <1>12, <1>13, <1>14 DEF n, e

(* Any list of the elements of S in the order R, without repetition, is the *)
(* enumeration.                                                             *)
LEMMA EnumerateUnique ==
    ASSUME NEW S, NEW R, StrictOrder(S, R), NEW n \in Nat, NEW t \in [1 .. n -> S],
           \A i, j \in 1 .. n : i < j => <<t[i], t[j]>> \in R,
           \A x \in S : \E k \in 1 .. n : t[k] = x
    PROVE  IsFiniteSet(S) /\ Cardinality(S) = n /\ t = Enumerate(S, R)
<1>0. /\ \A x \in S : <<x, x>> \notin R
      /\ \A x, y \in S : <<x, y>> \in R => <<y, x>> \notin R
    BY DEF StrictOrder
<1>1. \A i, j \in 1 .. n : <<t[i], t[j]>> \in R => i < j
    <2> TAKE i, j \in 1 .. n
    <2>1. t[i] \in S /\ t[j] \in S
        OBVIOUS
    <2>2. i < j \/ i = j \/ j < i
        OBVIOUS
    <2> QED
        BY <1>0, <2>1, <2>2
<1>2. \A i, j \in 1 .. n : t[i] = t[j] => i = j
    <2> TAKE i, j \in 1 .. n
    <2>1. t[i] \in S /\ t[j] \in S
        OBVIOUS
    <2>2. i < j \/ i = j \/ j < i
        OBVIOUS
    <2> QED
        BY <1>0, <2>1, <2>2
<1>3. IsFiniteSet(1 .. n) /\ Cardinality(1 .. n) = n
    BY FS_Interval
<1>4. IsFiniteSet(S) /\ Cardinality(S) = n
    <2>1. t \in Bijection(1 .. n, S)
        BY <1>2 DEF Bijection, Injection, Surjection, IsInjective
    <2> QED
        BY <1>3, <2>1, FS_Bijection DEF ExistsBijection
<1> DEFINE Below(x) == {y \in S : <<y, x>> \in R}
<1>5. \A k \in 1 .. n : Cardinality(Below(t[k])) = k - 1
    <2> TAKE k \in 1 .. n
    <2> DEFINE before == [i \in 1 .. k - 1 |-> t[i]]
    <2>1. before \in Bijection(1 .. k - 1, Below(t[k]))
        BY <1>1, <1>2 DEF Bijection, Injection, Surjection, IsInjective
    <2>2. IsFiniteSet(1 .. k - 1) /\ Cardinality(1 .. k - 1) = k - 1
        BY FS_Interval
    <2> QED
        BY <2>1, <2>2, FS_Bijection DEF ExistsBijection
<1> DEFINE e == Enumerate(S, R)
<1>6. e = [k \in 1 .. n |-> CHOOSE x \in S : Cardinality(Below(x)) = k - 1]
    BY <1>4 DEF Enumerate
<1> HIDE DEF Below
<1>7. \A k \in 1 .. n : e[k] = t[k]
    <2> TAKE k \in 1 .. n
    <2>1. e[k] \in S /\ Cardinality(Below(e[k])) = k - 1
        BY <1>5, <1>6
    <2>2. PICK i \in 1 .. n : t[i] = e[k]
        BY <2>1
    <2> QED
        BY <1>5, <2>1, <2>2
<1> QED
    BY <1>4, <1>6, <1>7

(* A function of the first places is a list. *)
LEMMA ListOf ==
    ASSUME NEW T, NEW n \in Nat, NEW s, s = [i \in 1 .. n |-> s[i]], \A i \in 1 .. n : s[i] \in T
    PROVE  s \in Seq(T) /\ Len(s) = n /\ DOMAIN s = 1 .. n
<1>1. s \in [1 .. n -> T]
    OBVIOUS
<1> QED
    BY <1>1

LEMMA EmptyList ==
    ASSUME NEW T, NEW s \in Seq(T), DOMAIN s = {}
    PROVE  s = <<>>
<1>1. Len(s) \in Nat /\ DOMAIN s = 1 .. Len(s)
    OBVIOUS
<1>2. Len(s) = 0
    <2> SUFFICES ASSUME Len(s) # 0 PROVE FALSE
        OBVIOUS
    <2>1. 1 \in 1 .. Len(s)
        BY <1>1
    <2> QED
        BY <1>1, <2>1
<1> QED
    BY <1>2

(* One list after another. *)
LEMMA ConcatParts ==
    ASSUME NEW T, NEW s \in Seq(T), NEW t \in Seq(T)
    PROVE  /\ s \o t \in Seq(T) /\ Len(s \o t) = Len(s) + Len(t)
           /\ Len(s) \in Nat /\ Len(t) \in Nat /\ DOMAIN (s \o t) = 1 .. Len(s) + Len(t)
           /\ \A i \in DOMAIN s : (s \o t)[i] = s[i]
           /\ \A i \in DOMAIN (s \o t) : ~(i <= Len(s)) =>
                i - Len(s) \in DOMAIN t /\ (s \o t)[i] = t[i - Len(s)]
<1>1. Len(s) \in Nat /\ Len(t) \in Nat /\ DOMAIN s = 1 .. Len(s) /\ DOMAIN t = 1 .. Len(t)
    OBVIOUS
<1>2. s \o t \in Seq(T) /\ Len(s \o t) = Len(s) + Len(t)
    OBVIOUS
<1>3. DOMAIN (s \o t) = 1 .. Len(s) + Len(t)
    BY <1>2
<1>4. \A i \in 1 .. Len(s) + Len(t) : (s \o t)[i] = IF i <= Len(s) THEN s[i] ELSE t[i - Len(s)]
    BY <1>1
<1>5. \A i \in 1 .. Len(s) + Len(t) : ~(i <= Len(s)) => i - Len(s) \in DOMAIN t
    BY <1>1
<1>6. \A i \in DOMAIN s : i \in 1 .. Len(s) + Len(t) /\ i <= Len(s)
    BY <1>1
<1> QED
    BY <1>1, <1>2, <1>3, <1>4, <1>5, <1>6

LEMMA PlacesInOrder ==
    /\ \A K \in SUBSET Nat : StrictOrder(K, Ascending)
    /\ \A P \in SUBSET Place : StrictOrder(P, Lexical)
<1>1. ASSUME NEW K \in SUBSET Nat PROVE StrictOrder(K, Ascending)
    BY DEF StrictOrder, Ascending
<1>2. ASSUME NEW P \in SUBSET Place PROVE StrictOrder(P, Lexical)
    <2>1. \A x \in P : x = <<x[1], x[2]>> /\ x[1] \in Nat /\ x[2] \in Nat
        BY DEF Place
    <2>2. \A x, y \in P :
            (<<x, y>> \in Lexical) <=> (x[1] < y[1] \/ (x[1] = y[1] /\ x[2] < y[2]))
        BY DEF Lexical, Place
    <2>3. \A x, y \in P : x[1] = y[1] /\ x[2] = y[2] => x = y
        BY <2>1
    <2>4. \A x \in P : <<x, x>> \notin Lexical
        BY <2>1, <2>2
    <2>5. \A x, y \in P : x = y \/ <<x, y>> \in Lexical \/ <<y, x>> \in Lexical
        <3> TAKE x, y \in P
        <3>1. x[1] \in Nat /\ x[2] \in Nat /\ y[1] \in Nat /\ y[2] \in Nat
            BY <2>1
        <3>2. \/ x[1] < y[1] \/ (x[1] = y[1] /\ x[2] < y[2])
              \/ y[1] < x[1] \/ (y[1] = x[1] /\ y[2] < x[2])
              \/ (x[1] = y[1] /\ x[2] = y[2])
            BY <3>1
        <3> QED
            BY <2>2, <2>3, <3>2
    <2>6. \A x, y, z \in P : <<x, y>> \in Lexical /\ <<y, z>> \in Lexical => <<x, z>> \in Lexical
        BY <2>1, <2>2
    <2> QED
        BY <2>4, <2>5, <2>6 DEF StrictOrder
<1> QED
    BY <1>1, <1>2

(* A list comprehension keeps what passes, in order. *)
LEMMA KeptProperties ==
    ASSUME NEW T, NEW s \in Seq(T), NEW K \in SUBSET DOMAIN s
    PROVE  LET kept == Kept(s, K)
           IN /\ kept \in Seq(T) /\ Len(kept) = Cardinality(K) /\ Len(kept) <= Len(s)
              /\ \E p \in [DOMAIN kept -> K] :
                   /\ \A i \in DOMAIN kept : kept[i] = s[p[i]]
                   /\ \A i, j \in DOMAIN kept : i < j => p[i] < p[j]
                   /\ \A k \in K : \E i \in DOMAIN kept : p[i] = k
<1> DEFINE e == Enumerate(K, Ascending)
           kept == Kept(s, K)
<1>1. Len(s) \in Nat /\ DOMAIN s = 1 .. Len(s) /\ K \in SUBSET Nat
    OBVIOUS
<1>2. IsFiniteSet(K) /\ Cardinality(K) <= Len(s)
    <2>1. IsFiniteSet(1 .. Len(s)) /\ Cardinality(1 .. Len(s)) = Len(s)
        BY <1>1, FS_Interval
    <2> QED
        BY <1>1, <2>1, FS_Subset
<1>3. StrictOrder(K, Ascending)
    BY <1>1, PlacesInOrder
<1>4. /\ Cardinality(K) \in Nat /\ DOMAIN e = 1 .. Cardinality(K) /\ e \in Seq(K)
      /\ \A i, j \in DOMAIN e : i < j => <<e[i], e[j]>> \in Ascending
      /\ \A x \in K : \E k \in DOMAIN e : e[k] = x
    BY <1>2, <1>3, EnumerateProperties
<1> HIDE DEF e
<1>5. kept = [k \in DOMAIN e |-> s[e[k]]]
    BY <1>4 DEF Kept, e
<1>6. e \in [1 .. Cardinality(K) -> K]
    BY <1>4
<1>7. kept \in [1 .. Cardinality(K) -> T]
    BY <1>4, <1>5, <1>6
<1>8. kept \in Seq(T) /\ Len(kept) = Cardinality(K)
    <2> DEFINE m == Cardinality(K)
    <2>1. m \in Nat /\ kept \in [1 .. m -> T]
        BY <1>4, <1>7
    <2> HIDE DEF m, kept
    <2>2. kept \in Seq(T) /\ Len(kept) = m
        BY <2>1
    <2> QED
        BY <2>2 DEF m
<1>9. \A i, j \in DOMAIN e : i < j => e[i] < e[j]
    BY <1>4 DEF Ascending
<1> HIDE DEF kept
<1>10. DOMAIN kept = DOMAIN e
    BY <1>5
<1> QED
    <2>1. e \in [DOMAIN kept -> K]
        BY <1>4, <1>6, <1>10
    <2>2. \A i \in DOMAIN kept : kept[i] = s[e[i]]
        BY <1>5
    <2>3. \E p \in [DOMAIN kept -> K] :
            /\ \A i \in DOMAIN kept : kept[i] = s[p[i]]
            /\ \A i, j \in DOMAIN kept : i < j => p[i] < p[j]
            /\ \A k \in K : \E i \in DOMAIN kept : p[i] = k
        <3>1. /\ \A i, j \in DOMAIN kept : i < j => e[i] < e[j]
              /\ \A k \in K : \E i \in DOMAIN kept : e[i] = k
            BY <1>4, <1>9, <1>10
        <3> WITNESS e \in [DOMAIN kept -> K]
        <3> QED
            BY <2>2, <3>1
    <2> QED
        BY <1>2, <1>8, <2>3 DEF kept

(* The places that the elements of a comprehension come from.               *)
KeptBy(s, K, p) ==
    LET kept == Kept(s, K)
    IN /\ p \in [DOMAIN kept -> K]
       /\ \A i \in DOMAIN kept : kept[i] = s[p[i]]
       /\ \A i, j \in DOMAIN kept : i < j => p[i] < p[j]
       /\ \A k \in K : \E i \in DOMAIN kept : p[i] = k

LEMMA KeptHasPlaces ==
    ASSUME NEW T, NEW s \in Seq(T), NEW K \in SUBSET DOMAIN s
    PROVE  \E p : KeptBy(s, K, p)
<1>1. PICK p \in [DOMAIN Kept(s, K) -> K] :
          /\ \A i \in DOMAIN Kept(s, K) : Kept(s, K)[i] = s[p[i]]
          /\ \A i, j \in DOMAIN Kept(s, K) : i < j => p[i] < p[j]
          /\ \A k \in K : \E i \in DOMAIN Kept(s, K) : p[i] = k
    BY KeptProperties
<1> QED
    BY <1>1 DEF KeptBy

LEMMA KeptElements ==
    ASSUME NEW T, NEW s \in Seq(T), NEW K \in SUBSET DOMAIN s
    PROVE  /\ Kept(s, K) \in Seq(T)
           /\ \A i \in DOMAIN Kept(s, K) : \E k \in K : Kept(s, K)[i] = s[k]
<1> DEFINE kept == Kept(s, K)
<1>1. kept \in Seq(T)
    BY KeptProperties
<1>2. PICK p \in [DOMAIN kept -> K] : \A i \in DOMAIN kept : kept[i] = s[p[i]]
    BY KeptProperties
<1>3. \A i \in DOMAIN kept : p[i] \in K
    OBVIOUS
<1> QED
    BY <1>1, <1>2, <1>3

(* Nested loops go through all places of all lists, in order. *)
LEMMA PlacesInFinite ==
    ASSUME NEW T, NEW ss \in Seq(Seq(T))
    PROVE  PlacesIn(ss) \in SUBSET Place /\ IsFiniteSet(PlacesIn(ss))
<1> DEFINE row == [i \in DOMAIN ss |-> {<<i, j>> : j \in DOMAIN ss[i]}]
           rows == {row[i] : i \in DOMAIN ss}
<1>1. DOMAIN ss = 1 .. Len(ss) /\ Len(ss) \in Nat
    OBVIOUS
<1>2. \A i \in DOMAIN ss : ss[i] \in Seq(T) /\ DOMAIN ss[i] = 1 .. Len(ss[i]) /\ Len(ss[i]) \in Nat
    OBVIOUS
<1>3. PlacesIn(ss) = UNION rows
    BY DEF PlacesIn
<1>4. PlacesIn(ss) \in SUBSET Place
    BY <1>1, <1>2 DEF PlacesIn, Place
<1>5. IsFiniteSet(rows)
    <2>1. row \in Surjection(DOMAIN ss, rows)
        BY DEF Surjection
    <2>2. IsFiniteSet(DOMAIN ss)
        BY <1>1, FS_Interval
    <2> QED
        BY <2>1, <2>2, FS_Surjection
<1>6. \A i \in DOMAIN ss : IsFiniteSet(row[i])
    <2> TAKE i \in DOMAIN ss
    <2> DEFINE place == [j \in DOMAIN ss[i] |-> <<i, j>>]
    <2>1. place \in Surjection(DOMAIN ss[i], row[i])
        BY DEF Surjection
    <2>2. IsFiniteSet(DOMAIN ss[i])
        BY <1>2, FS_Interval
    <2> QED
        BY <2>1, <2>2, FS_Surjection
<1>7. \A r \in rows : IsFiniteSet(r)
    BY <1>6
<1> QED
    BY <1>3, <1>4, <1>5, <1>7, FS_UNION

LEMMA FlatProperties ==
    ASSUME NEW T, NEW ss \in Seq(Seq(T))
    PROVE  LET flat == Flat(ss)
           IN /\ flat \in Seq(T)
              /\ \E p \in [DOMAIN flat -> PlacesIn(ss)] :
                   /\ \A i \in DOMAIN flat : flat[i] = ss[p[i][1]][p[i][2]]
                   /\ \A i, j \in DOMAIN flat : i < j => <<p[i], p[j]>> \in Lexical
                   /\ \A x \in PlacesIn(ss) : \E i \in DOMAIN flat : p[i] = x
<1> DEFINE P == PlacesIn(ss)
           e == Enumerate(P, Lexical)
           flat == Flat(ss)
<1>1. IsFiniteSet(P) /\ StrictOrder(P, Lexical)
    BY PlacesInFinite, PlacesInOrder
<1>2. /\ Cardinality(P) \in Nat /\ DOMAIN e = 1 .. Cardinality(P) /\ e \in Seq(P)
      /\ \A i, j \in DOMAIN e : i < j => <<e[i], e[j]>> \in Lexical
      /\ \A x \in P : \E k \in DOMAIN e : e[k] = x
    BY <1>1, EnumerateProperties
<1>3. \A x \in P : ss[x[1]][x[2]] \in T
    BY DEF PlacesIn
<1>4. flat = [k \in DOMAIN e |-> ss[e[k][1]][e[k][2]]]
    BY DEF Flat
<1> HIDE DEF P, e, flat
<1>5. e \in [1 .. Cardinality(P) -> P]
    BY <1>2
<1>6. flat \in [1 .. Cardinality(P) -> T]
    BY <1>2, <1>3, <1>4, <1>5
<1>7. flat \in Seq(T) /\ DOMAIN flat = DOMAIN e
    <2> DEFINE m == Cardinality(P)
    <2>1. m \in Nat /\ flat \in [1 .. m -> T] /\ DOMAIN e = 1 .. m
        BY <1>2, <1>6
    <2> HIDE DEF m
    <2> QED
        BY <2>1
<1>8. \E p \in [DOMAIN flat -> P] :
        /\ \A i \in DOMAIN flat : flat[i] = ss[p[i][1]][p[i][2]]
        /\ \A i, j \in DOMAIN flat : i < j => <<p[i], p[j]>> \in Lexical
        /\ \A x \in P : \E i \in DOMAIN flat : p[i] = x
    BY <1>2, <1>4, <1>5, <1>7
<1> QED
    BY <1>7, <1>8 DEF P, flat

(* The places that the elements of nested loops come from.                  *)
FlatBy(ss, p) ==
    LET flat == Flat(ss)
    IN /\ p \in [DOMAIN flat -> PlacesIn(ss)]
       /\ \A i \in DOMAIN flat : flat[i] = ss[p[i][1]][p[i][2]]
       /\ \A i, j \in DOMAIN flat : i < j => <<p[i], p[j]>> \in Lexical
       /\ \A x \in PlacesIn(ss) : \E i \in DOMAIN flat : p[i] = x

LEMMA FlatHasPlaces ==
    ASSUME NEW T, NEW ss \in Seq(Seq(T))
    PROVE  \E p : FlatBy(ss, p)
<1>1. PICK p \in [DOMAIN Flat(ss) -> PlacesIn(ss)] :
          /\ \A i \in DOMAIN Flat(ss) : Flat(ss)[i] = ss[p[i][1]][p[i][2]]
          /\ \A i, j \in DOMAIN Flat(ss) : i < j => <<p[i], p[j]>> \in Lexical
          /\ \A x \in PlacesIn(ss) : \E i \in DOMAIN Flat(ss) : p[i] = x
    BY FlatProperties
<1> QED
    BY <1>1 DEF FlatBy

-----------------------------------------------------------------------------
(* Sums. The definition of the library is a recursive function of the       *)
(* subsets of S: it exists, and its value does not depend on S nor on the   *)
(* order in which the elements are taken.                                   *)
Chosen(s) == CHOOSE x \in s : TRUE
IsTotal(h, g, S) ==
    h = [s \in SUBSET S |-> IF s = {} THEN 0 ELSE g[Chosen(s)] + h[s \ {Chosen(s)}]]

LEMMA TotalUnfold ==
    ASSUME NEW S, NEW g
    PROVE  Total(g, S) = (CHOOSE h : IsTotal(h, g, S))[S]
BY DEF Total, MapThenSumSet, MapThenFoldSet, IsTotal, Chosen

LEMMA TotalsAgree ==
    ASSUME NEW A, NEW B, NEW g, NEW h, NEW k, IsTotal(h, g, A), IsTotal(k, g, B),
           NEW s \in SUBSET A, s \in SUBSET B, IsFiniteSet(s)
    PROVE  h[s] = k[s]
<1> DEFINE bad == {t \in SUBSET s : h[t] # k[t]}
<1> SUFFICES ASSUME bad # {}
             PROVE  FALSE
    OBVIOUS
<1>1. bad \in SUBSET SUBSET s
    OBVIOUS
<1> HIDE DEF bad
<1>2. PICK t \in bad : \A u \in bad : u \subseteq t => u = t
    BY <1>1, SmallestSet
<1> USE DEF bad
<1>3. t \in SUBSET A /\ t \in SUBSET B /\ t \in SUBSET s
    OBVIOUS
<1>4. t # {}
    BY <1>2, <1>3 DEF IsTotal
<1>5. Chosen(t) \in t
    BY <1>4 DEF Chosen
<1> DEFINE r == t \ {Chosen(t)}
<1>6. r \subseteq t /\ r # t /\ r \notin bad
    BY <1>2, <1>5
<1>7. h[r] = k[r]
    BY <1>3, <1>6
<1>8. h[t] = g[Chosen(t)] + h[r] /\ k[t] = g[Chosen(t)] + k[r]
    BY <1>3, <1>4 DEF IsTotal
<1> QED
    BY <1>2, <1>7, <1>8

LEMMA TotalExists ==
    ASSUME NEW S, IsFiniteSet(S), NEW g
    PROVE  \E h : IsTotal(h, g, S)
<1> DEFINE bad == {s \in SUBSET S : ~ \E h : IsTotal(h, g, s)}
<1> SUFFICES ASSUME bad # {}
             PROVE  FALSE
    OBVIOUS
<1>1. bad \in SUBSET SUBSET S
    OBVIOUS
<1> HIDE DEF bad
<1>2. PICK U \in bad : \A s \in bad : s \subseteq U => s = U
    BY <1>1, SmallestSet
<1> USE DEF bad
<1>3. \A s \in SUBSET U : IsFiniteSet(s)
    BY FS_Subset
<1> DEFINE H(s) == CHOOSE h : IsTotal(h, g, s)
           rest(s) == s \ {Chosen(s)}
           val(s) == IF s = {} THEN 0 ELSE g[Chosen(s)] + H(rest(s))[rest(s)]
           h == [s \in SUBSET U |-> val(s)]
<1>4. \A s \in SUBSET U : s # U => IsTotal(H(s), g, s)
    <2> TAKE s \in SUBSET U
    <2> HAVE s # U
    <2>1. s \notin bad /\ s \in SUBSET S
        BY <1>2
    <2>2. \E k : IsTotal(k, g, s)
        BY <2>1
    <2> QED
        BY <2>2
<1>5. \A s \in SUBSET U : s # {} => Chosen(s) \in s /\ rest(s) \in SUBSET U /\ rest(s) # U
    BY DEF Chosen
<1>6. \A t \in SUBSET U : t # U => H(t)[t] = val(t)
    <2> TAKE t \in SUBSET U
    <2> HAVE t # U
    <2>1. IsTotal(H(t), g, t)
        BY <1>4
    <2>2. CASE t = {}
        BY <2>1, <2>2 DEF IsTotal
    <2>3. CASE t # {}
        <3>1. rest(t) \in SUBSET t /\ rest(t) \in SUBSET U /\ rest(t) # U
            BY <1>5, <2>3
        <3>2. H(t)[t] = g[Chosen(t)] + H(t)[rest(t)]
            BY <2>1, <2>3 DEF IsTotal
        <3>3. IsTotal(H(rest(t)), g, rest(t)) /\ IsFiniteSet(rest(t))
            BY <1>3, <1>4, <3>1
        <3> HIDE DEF H, rest
        <3>4. H(t)[rest(t)] = H(rest(t))[rest(t)]
            BY <2>1, <3>1, <3>3, TotalsAgree
        <3> QED
            BY <2>3, <3>2, <3>4
    <2> QED
        BY <2>2, <2>3
<1> HIDE DEF H
<1>7. \A s \in SUBSET U : h[s] = IF s = {} THEN 0 ELSE g[Chosen(s)] + h[rest(s)]
    BY <1>5, <1>6
<1>8. IsTotal(h, g, U)
    BY <1>7 DEF IsTotal
<1> QED
    BY <1>2, <1>8

LEMMA TotalStep ==
    ASSUME NEW S, IsFiniteSet(S), NEW g
    PROVE  /\ S = {} => Total(g, S) = 0
           /\ S # {} => Total(g, S) = g[Chosen(S)] + Total(g, S \ {Chosen(S)})
<1> DEFINE R == S \ {Chosen(S)}
           h == CHOOSE hh : IsTotal(hh, g, S)
           k == CHOOSE hh : IsTotal(hh, g, R)
<1>1. IsFiniteSet(R)
    BY FS_Subset
<1>2. IsTotal(h, g, S) /\ IsTotal(k, g, R)
    BY <1>1, TotalExists
<1>3. Total(g, S) = h[S] /\ Total(g, R) = k[R]
    BY TotalUnfold
<1> HIDE DEF h, k
<1>4. h[R] = k[R]
    BY <1>1, <1>2, TotalsAgree
<1>5. h[S] = IF S = {} THEN 0 ELSE g[Chosen(S)] + h[R]
    BY <1>2 DEF IsTotal
<1> QED
    BY <1>3, <1>4, <1>5

(* A sum of naturals is a natural, and any element may be taken first.      *)
LEMMA TotalNat ==
    ASSUME NEW S, IsFiniteSet(S), NEW g, \A x \in S : g[x] \in Nat
    PROVE  Total(g, S) \in Nat
<1> DEFINE bad == {s \in SUBSET S : Total(g, s) \notin Nat}
<1> SUFFICES ASSUME bad # {}
             PROVE  FALSE
    OBVIOUS
<1>1. bad \in SUBSET SUBSET S
    OBVIOUS
<1> HIDE DEF bad
<1>2. PICK t \in bad : \A s \in bad : s \subseteq t => s = t
    BY <1>1, SmallestSet
<1> USE DEF bad
<1>3. IsFiniteSet(t) /\ t \in SUBSET S
    BY FS_Subset
<1>4. t # {}
    <2>1. Total(g, {}) = 0
        BY FS_EmptySet, TotalStep
    <2> QED
        BY <2>1
<1>5. Chosen(t) \in t
    BY <1>4 DEF Chosen
<1>6. t \ {Chosen(t)} \notin bad /\ t \ {Chosen(t)} \in SUBSET S
    BY <1>2, <1>5
<1>7. Total(g, t) = g[Chosen(t)] + Total(g, t \ {Chosen(t)})
    BY <1>3, <1>4, TotalStep
<1> QED
    BY <1>2, <1>3, <1>5, <1>6, <1>7

LEMMA TotalRemove ==
    ASSUME NEW S, IsFiniteSet(S), NEW g, \A x \in S : g[x] \in Nat, NEW e \in S
    PROVE  Total(g, S) = g[e] + Total(g, S \ {e})
<1> DEFINE bad == {s \in SUBSET S : \E x \in s : Total(g, s) # g[x] + Total(g, s \ {x})}
<1> SUFFICES ASSUME bad # {}
             PROVE  FALSE
    OBVIOUS
<1>1. bad \in SUBSET SUBSET S
    OBVIOUS
<1> HIDE DEF bad
<1>2. PICK t \in bad : \A s \in bad : s \subseteq t => s = t
    BY <1>1, SmallestSet
<1> USE DEF bad
<1>3. PICK x \in t : Total(g, t) # g[x] + Total(g, t \ {x})
    OBVIOUS
<1> DEFINE o == Chosen(t)
           c == (t \ {o}) \ {x}
<1>4. /\ t \in SUBSET S /\ o \in t /\ c \in SUBSET S
      /\ \A s \in SUBSET S : IsFiniteSet(s) /\ Total(g, s) \in Nat
    BY FS_Subset, TotalNat DEF Chosen
<1>5. Total(g, t) = g[o] + Total(g, t \ {o})
    BY <1>4, TotalStep
<1>6. CASE o = x
    BY <1>3, <1>5, <1>6
<1>7. CASE o # x
    <2>1. /\ t \ {o} \notin bad /\ t \ {o} \in SUBSET S /\ x \in t \ {o}
          /\ t \ {x} \notin bad /\ t \ {x} \in SUBSET S /\ o \in t \ {x}
        BY <1>2, <1>4, <1>7
    <2>2. Total(g, t \ {o}) = g[x] + Total(g, c) /\ (t \ {x}) \ {o} = c
        BY <2>1
    <2>3. Total(g, t \ {x}) = g[o] + Total(g, c)
        BY <2>1, <2>2
    <2>4. g[x] \in Nat /\ g[o] \in Nat /\ Total(g, c) \in Nat
        BY <1>4
    <2> HIDE DEF o, c
    <2> QED
        BY <1>3, <1>5, <2>2, <2>3, <2>4
<1> QED
    BY <1>6, <1>7

(* Sums of functions that agree, that dominate each other, that differ in   *)
(* one place.                                                               *)
LEMMA TotalAgree ==
    ASSUME NEW S, IsFiniteSet(S), NEW g, NEW h, \A x \in S : g[x] = h[x] /\ g[x] \in Nat
    PROVE  Total(g, S) = Total(h, S)
<1> DEFINE bad == {s \in SUBSET S : Total(g, s) # Total(h, s)}
<1> SUFFICES ASSUME bad # {}
             PROVE  FALSE
    OBVIOUS
<1>1. bad \in SUBSET SUBSET S
    OBVIOUS
<1> HIDE DEF bad
<1>2. PICK t \in bad : \A s \in bad : s \subseteq t => s = t
    BY <1>1, SmallestSet
<1> USE DEF bad
<1>3. IsFiniteSet(t) /\ Total(g, {}) = 0 /\ Total(h, {}) = 0
    BY FS_Subset, FS_EmptySet, TotalStep
<1>4. Chosen(t) \in t
    BY <1>3 DEF Chosen
<1>5. Total(g, t) = g[Chosen(t)] + Total(g, t \ {Chosen(t)}) /\ Total(h, t) = h[Chosen(t)] + Total(h, t \ {Chosen(t)})
    BY <1>3, <1>4, TotalStep
<1>6. t \ {Chosen(t)} \notin bad /\ t \ {Chosen(t)} \in SUBSET S /\ t \ {Chosen(t)} # t
    BY <1>2, <1>4
<1>7. Total(g, t \ {Chosen(t)}) = Total(h, t \ {Chosen(t)}) /\ g[Chosen(t)] = h[Chosen(t)]
    BY <1>4, <1>6
<1> QED
    BY <1>5, <1>7

LEMMA TotalMonotone ==
    ASSUME NEW S, IsFiniteSet(S), NEW g, NEW h, \A x \in S : g[x] \in Nat /\ h[x] \in Nat /\ g[x] <= h[x]
    PROVE  Total(g, S) <= Total(h, S)
<1> DEFINE bad == {s \in SUBSET S : ~ (Total(g, s) <= Total(h, s))}
<1> SUFFICES ASSUME bad # {}
             PROVE  FALSE
    OBVIOUS
<1>1. bad \in SUBSET SUBSET S
    OBVIOUS
<1> HIDE DEF bad
<1>2. PICK t \in bad : \A s \in bad : s \subseteq t => s = t
    BY <1>1, SmallestSet
<1> USE DEF bad
<1>3. IsFiniteSet(t) /\ Total(g, {}) = 0 /\ Total(h, {}) = 0
    BY FS_Subset, FS_EmptySet, TotalStep
<1>4. Chosen(t) \in t
    BY <1>3 DEF Chosen
<1> DEFINE x == Chosen(t)
           r == t \ {x}
<1>5. Total(g, t) = g[x] + Total(g, r) /\ Total(h, t) = h[x] + Total(h, r)
    BY <1>3, <1>4, TotalStep
<1>6. r \notin bad /\ r \in SUBSET S /\ r # t
    BY <1>2, <1>4
<1>7. Total(g, r) <= Total(h, r) /\ g[x] <= h[x] /\ g[x] \in Nat /\ h[x] \in Nat
    BY <1>4, <1>6
<1>8. Total(g, r) \in Nat /\ Total(h, r) \in Nat
    BY <1>6, FS_Subset, TotalNat
<1>9. ~ (Total(g, t) <= Total(h, t))
    OBVIOUS
<1> HIDE DEF x, r
<1> QED
    BY <1>5, <1>7, <1>8, <1>9

LEMMA TotalUpdate ==
    ASSUME NEW S, IsFiniteSet(S), NEW g, NEW h, NEW e \in S, \A x \in S : g[x] \in Nat, h[e] \in Nat,
           \A x \in S \ {e} : h[x] = g[x]
    PROVE  /\ Total(h, S) + g[e] = Total(g, S) + h[e]
           /\ Total(h, S) \in Nat /\ Total(g, S) \in Nat
<1>1. \A x \in S : h[x] \in Nat
    OBVIOUS
<1>2. IsFiniteSet(S \ {e}) /\ Total(h, S \ {e}) = Total(g, S \ {e}) /\ Total(g, S \ {e}) \in Nat
    BY FS_Subset, TotalAgree, TotalNat
<1>3. Total(h, S) = h[e] + Total(h, S \ {e}) /\ Total(g, S) = g[e] + Total(g, S \ {e})
    BY <1>1, TotalRemove
<1> QED
    BY <1>2, <1>3
(* The same numbers summed under other names. *)
LEMMA TotalRenamed ==
    ASSUME NEW A, IsFiniteSet(A), NEW B, NEW f \in Bijection(A, B), NEW g, NEW h,
           \A a \in A : g[a] = h[f[a]] /\ g[a] \in Nat
    PROVE  Total(g, A) = Total(h, B)
<1> DEFINE Image(s) == {f[a] : a \in s}
           bad == {s \in SUBSET A : Total(g, s) # Total(h, Image(s))}
<1>0. /\ f \in [A -> B] /\ Image(A) = B
      /\ \A x, y \in A : f[x] = f[y] => x = y
    BY DEF Bijection, Injection, Surjection, IsInjective
<1> SUFFICES ASSUME bad # {}
             PROVE  FALSE
    BY <1>0
<1>1. bad \in SUBSET SUBSET A
    OBVIOUS
<1> HIDE DEF bad
<1>2. PICK t \in bad : \A s \in bad : s \subseteq t => s = t
    BY <1>1, SmallestSet
<1> USE DEF bad
<1>3. t \in SUBSET A /\ IsFiniteSet(t) /\ Total(g, {}) = 0 /\ Total(h, {}) = 0
    BY FS_Subset, FS_EmptySet, TotalStep
<1> DEFINE x == Chosen(t)
           r == t \ {x}
<1>4. x \in t
    BY <1>3 DEF Chosen
<1>5. r \notin bad /\ r \in SUBSET A
    BY <1>2, <1>4
<1>6. Total(g, r) = Total(h, Image(r))
    BY <1>5
<1>7. Image(r) = Image(t) \ {f[x]} /\ f[x] \in Image(t)
    BY <1>0, <1>3, <1>4
<1>8. IsFiniteSet(Image(t)) /\ \A b \in Image(t) : h[b] \in Nat
    <2>1. [a \in t |-> f[a]] \in Surjection(t, Image(t))
        BY DEF Surjection
    <2> QED
        BY <1>3, <2>1, FS_Surjection
<1>9. Total(g, t) = g[x] + Total(g, r)
    BY <1>3, <1>4, TotalRemove
<1> HIDE DEF Image, x, r
<1>10. Total(h, Image(t)) = h[f[x]] + Total(h, Image(r))
    BY <1>7, <1>8, TotalRemove
<1>11. g[x] = h[f[x]] /\ Total(g, t) # Total(h, Image(t))
    BY <1>3, <1>4
<1> QED
    BY <1>6, <1>9, <1>10, <1>11

-----------------------------------------------------------------------------
(* Induction up to a bound, and functions that are defined step by step.    *)
LEMMA Upwards ==
    ASSUME NEW N \in Nat, NEW S, 0 \in S, \A n \in 1 .. N : n - 1 \in S => n \in S
    PROVE  \A n \in 0 .. N : n \in S
<1> DEFINE bad == {n \in 0 .. N : n \notin S}
<1> SUFFICES ASSUME bad # {}
             PROVE  FALSE
    OBVIOUS
<1>1. bad \in SUBSET Nat
    OBVIOUS
<1>2. PICK m \in bad : \A n \in bad : m <= n
    BY <1>1, LeastNatural
<1>3. m \in 1 .. N /\ m - 1 \in 0 .. N
    OBVIOUS
<1>4. m - 1 \notin bad
    BY <1>2, <1>3
<1> QED
    BY <1>3, <1>4

Steps(h, N, D, start, F) ==
    h \in [0 .. N -> D] /\ h[0] = start /\ \A n \in 1 .. N : h[n] = F[n][h[n - 1]]

LEMMA StepByStep ==
    ASSUME NEW N \in Nat, NEW D, NEW start \in D, NEW F \in [1 .. N -> [D -> D]]
    PROVE  \E h : Steps(h, N, D, start, F)
<1> DEFINE Upto(h, m) == h[0] = start /\ \A n \in 1 .. m : h[n] = F[n][h[n - 1]]
           S == {m \in 0 .. N : \E h \in [0 .. m -> D] : Upto(h, m)}
<1>1. 0 \in S
    <2> DEFINE h == [n \in 0 .. 0 |-> start]
    <2>1. h \in [0 .. 0 -> D] /\ Upto(h, 0)
        OBVIOUS
    <2>2. \E k \in [0 .. 0 -> D] : Upto(k, 0)
        BY <2>1
    <2> QED
        BY <2>2
<1>2. ASSUME NEW n \in 1 .. N, n - 1 \in S
      PROVE  n \in S
    <2>1. PICK h \in [0 .. n - 1 -> D] : Upto(h, n - 1)
        BY <1>2
    <2> DEFINE k == [m \in 0 .. n |-> IF m = n THEN F[n][h[n - 1]] ELSE h[m]]
    <2>2. k \in [0 .. n -> D]
        OBVIOUS
    <2>3. k[0] = start /\ k[n] = F[n][k[n - 1]]
        BY <2>1
    <2>4. ASSUME NEW m \in 1 .. n - 1
          PROVE  k[m] = F[m][k[m - 1]]
        <3>1. k[m] = h[m] /\ k[m - 1] = h[m - 1]
            OBVIOUS
        <3> QED
            BY <2>1, <3>1
    <2> HIDE DEF k
    <2>5. Upto(k, n)
        <3>1. \A m \in 1 .. n : m = n \/ m \in 1 .. n - 1
            OBVIOUS
        <3> QED
            BY <2>3, <2>4, <3>1
    <2> QED
        BY <2>2, <2>5
<1> HIDE DEF S
<1>3. \A n \in 0 .. N : n \in S
    BY <1>1, <1>2, Upwards
<1> QED
    <2>1. N \in S
        BY <1>3
    <2> QED
        BY <2>1 DEF S, Steps

-----------------------------------------------------------------------------
(* Lists that are put together from lists. *)
IsFlat(h, ss) == h = [i \in 1 .. Len(ss) |-> IF i = 1 THEN ss[i] ELSE h[i - 1] \o ss[i]]

LEMMA FlattenUnfold ==
    ASSUME NEW ss
    PROVE  FlattenSeq(ss) = IF Len(ss) = 0 THEN ss ELSE (CHOOSE h : IsFlat(h, ss))[Len(ss)]
BY DEF FlattenSeq, IsFlat

(* The prefixes of the whole, list after list. *)
Accumulates(up, ss) ==
    /\ up[0] = <<>> /\ \A n \in 1 .. Len(ss) : up[n] = up[n - 1] \o ss[n]
    /\ FlattenSeq(ss) = up[Len(ss)]

LEMMA FlattenAccumulates ==
    ASSUME NEW T, NEW ss \in Seq(Seq(T))
    PROVE  \E up \in [0 .. Len(ss) -> Seq(T)] : Accumulates(up, ss)
<1> DEFINE N == Len(ss)
           F == [n \in 1 .. N |-> [s \in Seq(T) |-> s \o ss[n]]]
<1>0. N \in Nat /\ \A n \in 1 .. N : ss[n] \in Seq(T) /\ n - 1 \in 0 .. N /\ (n # 1 => n - 1 \in 1 .. N)
    OBVIOUS
<1>1. \A n \in 1 .. N : \A s \in Seq(T) : F[n][s] = s \o ss[n] /\ F[n][s] \in Seq(T)
    BY <1>0
<1> HIDE DEF N, F
<1>2. PICK up \in [0 .. N -> Seq(T)] : up[0] = <<>> /\ \A n \in 1 .. N : up[n] = F[n][up[n - 1]]
    <2>1. <<>> \in Seq(T)
        OBVIOUS
    <2> DEFINE D == Seq(T)
               e == <<>>
    <2>2. N \in Nat /\ e \in D /\ F \in [1 .. N -> [D -> D]]
        BY <1>0, <1>1, <2>1 DEF F
    <2> HIDE DEF D, e
    <2>3. \E h : Steps(h, N, D, e, F)
        BY <2>2, StepByStep
    <2> QED
        BY <2>3 DEF D, e, Steps
<1>3. \A n \in 1 .. N : up[n] = up[n - 1] \o ss[n]
    <2> TAKE n \in 1 .. N
    <2>1. up[n - 1] \in Seq(T)
        BY <1>0
    <2> QED
        BY <1>1, <1>2, <2>1
<1>3a. N # 0 => 1 \in 1 .. N /\ up[1] = ss[1]
    <2> SUFFICES ASSUME N # 0
                 PROVE  1 \in 1 .. N /\ up[1] = ss[1]
        OBVIOUS
    <2>1. 1 \in 1 .. N /\ 1 - 1 = 0
        BY <1>0
    <2>2. up[1] = up[0] \o ss[1] /\ ss[1] \in Seq(T)
        BY <1>0, <1>3, <2>1
    <2>3. up[0] \o ss[1] = <<>> \o ss[1]
        BY <1>2
    <2>4. \A s \in Seq(T) : <<>> \o s = s
        OBVIOUS
    <2> QED
        BY <2>1, <2>2, <2>3, <2>4
<1>4. CASE N = 0
    <2>1. ss = <<>>
        BY <1>4 DEF N
    <2> QED
        BY <1>0, <1>2, <1>3, <1>4, <2>1, FlattenUnfold DEF Accumulates, N
<1>5. CASE N # 0
    <2> DEFINE h == [n \in 1 .. N |-> up[n]]
               g == CHOOSE k : IsFlat(k, ss)
    <2>1. \E k : IsFlat(k, ss)
        <3>1. \A i \in 1 .. N : up[i] = IF i = 1 THEN ss[i] ELSE h[i - 1] \o ss[i]
            BY <1>0, <1>3, <1>3a, <1>5
        <3>2. h = [i \in 1 .. Len(ss) |-> IF i = 1 THEN ss[i] ELSE h[i - 1] \o ss[i]]
            BY <3>1 DEF N
        <3> QED
            BY <3>2 DEF IsFlat
    <2>2. IsFlat(g, ss)
        BY <2>1
    <2> HIDE DEF g
    <2>3. \A n \in 1 .. N : g[n] = IF n = 1 THEN ss[n] ELSE g[n - 1] \o ss[n]
        BY <2>2 DEF IsFlat, N
    <2> DEFINE S == {n \in 0 .. N : n = 0 \/ g[n] = up[n]}
    <2>4. ASSUME NEW n \in 1 .. N, n - 1 \in S
          PROVE  n \in S
        <3>1. CASE n = 1
            BY <1>0, <1>3a, <1>5, <2>3, <3>1
        <3>2. CASE n # 1
            <4>1. g[n - 1] = up[n - 1]
                BY <1>0, <2>4, <3>2
            <4>2. g[n] = g[n - 1] \o ss[n] /\ up[n] = up[n - 1] \o ss[n]
                BY <1>3, <2>3, <3>2
            <4>3. g[n] = up[n]
                BY <4>1, <4>2
            <4> QED
                BY <1>0, <4>3
        <3> QED
            BY <3>1, <3>2
    <2>5. N \in S
        <3>1. 0 \in S
            BY <1>0
        <3> HIDE DEF S
        <3>2. \A n \in 0 .. N : n \in S
            BY <1>0, <2>4, <3>1, Upwards
        <3> QED
            BY <1>0, <3>2
    <2>6. FlattenSeq(ss) = g[N]
        BY <1>5, FlattenUnfold DEF g, N
    <2> QED
        BY <1>2, <1>3, <1>5, <2>5, <2>6 DEF Accumulates, N
<1> QED
    BY <1>4, <1>5 DEF N

-----------------------------------------------------------------------------
(* Lists from the empty list up, one element after another. *)
LEMMA ListsUpwards ==
    ASSUME NEW T, NEW G, <<>> \in G, \A s \in Seq(T) : s \in G => \A x \in T : Append(s, x) \in G
    PROVE  \A s \in Seq(T) : s \in G
<1> TAKE s \in Seq(T)
<1> DEFINE N == Len(s)
           S == {n \in 0 .. N : SubSeq(s, 1, n) \in G}
<1>0. N \in Nat /\ SubSeq(s, 1, 0) = <<>>
    OBVIOUS
<1>0a. \A n \in 1 .. N : /\ SubSeq(s, 1, n) = Append(SubSeq(s, 1, n - 1), s[n])
                         /\ s[n] \in T /\ SubSeq(s, 1, n - 1) \in Seq(T)
    OBVIOUS
<1> HIDE DEF N
<1>1. 0 \in S
    <2>1. SubSeq(s, 1, 0) \in G
        BY <1>0, Zenon
    <2>2. 0 \in 0 .. N
        BY <1>0
    <2> QED
        BY <2>1, <2>2, Zenon
<1>2. ASSUME NEW n \in 1 .. N, n - 1 \in S
      PROVE  n \in S
    <2>1. SubSeq(s, 1, n - 1) \in G
        BY <1>2
    <2>2. SubSeq(s, 1, n) \in G
        BY <1>0a, <2>1
    <2> QED
        BY <1>0, <2>2
<1> HIDE DEF S
<1>3. \A n \in 0 .. N : n \in S
    BY <1>0, <1>1, <1>2, Upwards
<1>4. SubSeq(s, 1, N) \in G
    BY <1>0, <1>3 DEF S
<1>5. SubSeq(s, 1, N) = s
    BY DEF N
<1> QED
    BY <1>4, <1>5

LEMMA ConcatAssociates ==
    ASSUME NEW T, NEW r \in Seq(T), NEW s \in Seq(T), NEW t \in Seq(T)
    PROVE  /\ (r \o s) \o t = r \o (s \o t) /\ r \o <<>> = r /\ <<>> \o r = r
           /\ r \o s \in Seq(T)
    OBVIOUS

LEMMA AppendConcat ==
    ASSUME NEW T, NEW s \in Seq(T), NEW t \in Seq(T), NEW x \in T
    PROVE  /\ s \o Append(t, x) = Append(s \o t, x) /\ Append(s, x) = s \o <<x>>
           /\ Append(s, x) \in Seq(T) /\ Len(Append(s, x)) = Len(s) + 1 /\ Len(s) \in Nat
           /\ \A i \in 1 .. Len(s) : Append(s, x)[i] = s[i]
           /\ Append(s, x)[Len(s) + 1] = x /\ DOMAIN Append(s, x) = 1 .. Len(s) + 1
    OBVIOUS

(* A list with one more element. *)
LEMMA ListAppend ==
    ASSUME NEW T, NEW s \in Seq(T), NEW x \in T, NEW t, t = [i \in DOMAIN t |-> t[i]],
           DOMAIN t = 1 .. Len(s) + 1, \A i \in 1 .. Len(s) : t[i] = s[i], t[Len(s) + 1] = x
    PROVE  t = Append(s, x)
<1> DEFINE u == Append(s, x)
<1>1. u = [i \in 1 .. Len(s) + 1 |-> u[i]]
    <2>1. u \in Seq(T) /\ Len(u) = Len(s) + 1
        OBVIOUS
    <2> HIDE DEF u
    <2> QED
        BY <2>1
<1>2. \A i \in 1 .. Len(s) + 1 : t[i] = u[i]
    OBVIOUS
<1> HIDE DEF u
<1>3. t = u
    BY <1>1, <1>2
<1> QED
    BY <1>3 DEF u

LEMMA FlattenEmpty == FlattenSeq(<<>>) = <<>>
<1>1. Len(<<>>) = 0
    OBVIOUS
<1> QED
    BY <1>1, FlattenUnfold

LEMMA FlattenType ==
    ASSUME NEW T, NEW ss \in Seq(Seq(T))
    PROVE  FlattenSeq(ss) \in Seq(T)
<1>1. PICK up \in [0 .. Len(ss) -> Seq(T)] : Accumulates(up, ss)
    BY FlattenAccumulates
<1>2. Len(ss) \in Nat /\ Len(ss) \in 0 .. Len(ss)
    OBVIOUS
<1> QED
    BY <1>1, <1>2 DEF Accumulates

LEMMA FlattenAppend ==
    ASSUME NEW T, NEW ss \in Seq(Seq(T)), NEW s \in Seq(T)
    PROVE  FlattenSeq(Append(ss, s)) = FlattenSeq(ss) \o s
<1> DEFINE N == Len(ss)
           tt == Append(ss, s)
<1>1. /\ tt \in Seq(Seq(T)) /\ Len(tt) = N + 1 /\ N \in Nat /\ tt[N + 1] = s
      /\ \A n \in 1 .. N : tt[n] = ss[n]
    OBVIOUS
<1>2. PICK up \in [0 .. N -> Seq(T)] : Accumulates(up, ss)
    BY FlattenAccumulates
<1>3. PICK vp \in [0 .. N + 1 -> Seq(T)] : Accumulates(vp, tt)
    BY <1>1, FlattenAccumulates
<1> HIDE DEF N, tt
<1> DEFINE S == {n \in 0 .. N : vp[n] = up[n]}
<1>4. 0 \in S
    BY <1>1, <1>2, <1>3 DEF Accumulates
<1>5. ASSUME NEW n \in 1 .. N, n - 1 \in S
      PROVE  n \in S
    <2>1. up[n] = up[n - 1] \o ss[n]
        BY <1>2 DEF Accumulates, N
    <2>2. n \in 1 .. N + 1
        BY <1>1
    <2>3. vp[n] = vp[n - 1] \o tt[n]
        BY <1>1, <1>3, <2>2 DEF Accumulates
    <2>4. vp[n] = up[n]
        BY <1>1, <1>5, <2>1, <2>3
    <2> QED
        BY <1>1, <2>4
<1> HIDE DEF S
<1>6. \A n \in 0 .. N : n \in S
    BY <1>1, <1>4, <1>5, Upwards
<1>7. vp[N] = up[N]
    BY <1>1, <1>6 DEF S
<1>8. N + 1 \in 1 .. N + 1 /\ N + 1 - 1 = N
    BY <1>1
<1>9. vp[N + 1] = vp[N] \o s
    <2>1. \A n \in 1 .. N + 1 : vp[n] = vp[n - 1] \o tt[n]
        BY <1>1, <1>3 DEF Accumulates
    <2> DEFINE M == N + 1
    <2>2. vp[M] = vp[M - 1] \o tt[M]
        <3>1. M \in 1 .. N + 1
            BY <1>8
        <3> HIDE DEF M
        <3> QED
            BY <2>1, <3>1
    <2> QED
        BY <1>1, <1>8, <2>2
<1> QED
    BY <1>1, <1>2, <1>3, <1>7, <1>9 DEF Accumulates, N, tt

LEMMA FlattenOne ==
    ASSUME NEW T, NEW s \in Seq(T)
    PROVE  FlattenSeq(<<s>>) = s
<1>1. <<>> \in Seq(Seq(T)) /\ Append(<<>>, s) = <<s>> /\ <<>> \o s = s
    OBVIOUS
<1> QED
    BY <1>1, FlattenEmpty, FlattenAppend

LEMMA FlattenConcat ==
    ASSUME NEW T, NEW ss \in Seq(Seq(T)), NEW tt \in Seq(Seq(T))
    PROVE  FlattenSeq(ss \o tt) = FlattenSeq(ss) \o FlattenSeq(tt)
<1> DEFINE G == {uu \in Seq(Seq(T)) : FlattenSeq(ss \o uu) = FlattenSeq(ss) \o FlattenSeq(uu)}
<1>1. <<>> \in G
    <2>1. ss \o <<>> = ss /\ <<>> \in Seq(Seq(T))
        OBVIOUS
    <2>2. FlattenSeq(ss) \in Seq(T)
        BY FlattenType
    <2>3. FlattenSeq(ss) \o <<>> = FlattenSeq(ss)
        BY <2>2
    <2> QED
        BY <2>1, <2>3, FlattenEmpty
<1>2. ASSUME NEW uu \in Seq(Seq(T)), uu \in G, NEW u \in Seq(T)
      PROVE  Append(uu, u) \in G
    <2>1. ss \o Append(uu, u) = Append(ss \o uu, u) /\ ss \o uu \in Seq(Seq(T)) /\ Append(uu, u) \in Seq(Seq(T))
        OBVIOUS
    <2>2. FlattenSeq(Append(ss \o uu, u)) = FlattenSeq(ss \o uu) \o u
        BY <2>1, FlattenAppend
    <2>3. FlattenSeq(Append(uu, u)) = FlattenSeq(uu) \o u
        BY FlattenAppend
    <2>4. FlattenSeq(ss \o uu) = FlattenSeq(ss) \o FlattenSeq(uu)
        BY <1>2
    <2>5. FlattenSeq(ss) \in Seq(T) /\ FlattenSeq(uu) \in Seq(T)
        BY FlattenType
    <2>6. (FlattenSeq(ss) \o FlattenSeq(uu)) \o u = FlattenSeq(ss) \o (FlattenSeq(uu) \o u)
        BY <2>5, ConcatAssociates
    <2> QED
        BY <2>1, <2>2, <2>3, <2>4, <2>6
<1> HIDE DEF G
<1>3. \A uu \in Seq(Seq(T)) : uu \in G
    BY <1>1, <1>2, ListsUpwards
<1> QED
    BY <1>3 DEF G

LEMMA FlattenFlatten ==
    ASSUME NEW T, NEW sss \in Seq(Seq(Seq(T)))
    PROVE  FlattenSeq(FlattenSeq(sss)) = FlattenSeq([i \in DOMAIN sss |-> FlattenSeq(sss[i])])
<1> DEFINE flats(uuu) == [i \in DOMAIN uuu |-> FlattenSeq(uuu[i])]
           G == {uuu \in Seq(Seq(Seq(T))) : FlattenSeq(FlattenSeq(uuu)) = FlattenSeq(flats(uuu))}
<1>1. <<>> \in G
    <2>1. flats(<<>>) = <<>>
        OBVIOUS
    <2> QED
        BY <2>1, FlattenEmpty
<1>2. ASSUME NEW uuu \in Seq(Seq(Seq(T))), uuu \in G, NEW uu \in Seq(Seq(T))
      PROVE  Append(uuu, uu) \in G
    <2>1. flats(uuu) \in Seq(Seq(T))
        <3>1. \A i \in DOMAIN uuu : FlattenSeq(uuu[i]) \in Seq(T)
            BY FlattenType
        <3> DEFINE f == flats(uuu)
        <3>2. f = [i \in 1 .. Len(uuu) |-> f[i]] /\ Len(uuu) \in Nat /\ \A i \in 1 .. Len(uuu) : f[i] \in Seq(T)
            BY <3>1
        <3> HIDE DEF f
        <3>3. f \in Seq(Seq(T))
            BY <3>2, ListOf
        <3> QED
            BY <3>3 DEF f
    <2>2. flats(Append(uuu, uu)) = Append(flats(uuu), FlattenSeq(uu))
        <3>1. FlattenSeq(uu) \in Seq(T)
            BY FlattenType
        <3>2. /\ DOMAIN Append(uuu, uu) = 1 .. Len(uuu) + 1 /\ DOMAIN uuu = 1 .. Len(uuu) /\ Len(uuu) \in Nat
              /\ \A i \in 1 .. Len(uuu) : Append(uuu, uu)[i] = uuu[i]
              /\ Append(uuu, uu)[Len(uuu) + 1] = uu
            OBVIOUS
        <3> DEFINE a == flats(Append(uuu, uu))
                   f == flats(uuu)
        <3>3. DOMAIN a = 1 .. Len(uuu) + 1 /\ DOMAIN f = 1 .. Len(uuu)
            BY <3>2
        <3>4. \A i \in 1 .. Len(uuu) : a[i] = f[i]
            BY <3>2
        <3>5. a[Len(uuu) + 1] = FlattenSeq(uu)
            BY <3>2
        <3>6. a = [i \in DOMAIN a |-> a[i]]
            OBVIOUS
        <3> HIDE DEF a, f
        <3>7. f \in Seq(Seq(T)) /\ Len(f) = Len(uuu)
            BY <2>1, <3>2, <3>3 DEF f
        <3>9. a = Append(f, FlattenSeq(uu))
            BY <3>1, <3>2, <3>3, <3>4, <3>5, <3>6, <3>7, ListAppend
        <3> QED
            BY <3>9 DEF a, f
    <2>3. FlattenSeq(uu) \in Seq(T) /\ FlattenSeq(uuu) \in Seq(Seq(T))
        BY FlattenType
    <2>4. FlattenSeq(Append(uuu, uu)) = FlattenSeq(uuu) \o uu
        BY FlattenAppend
    <2>5. FlattenSeq(FlattenSeq(uuu) \o uu) = FlattenSeq(FlattenSeq(uuu)) \o FlattenSeq(uu)
        BY <2>3, FlattenConcat
    <2>6. FlattenSeq(Append(flats(uuu), FlattenSeq(uu))) = FlattenSeq(flats(uuu)) \o FlattenSeq(uu)
        BY <2>1, <2>3, FlattenAppend
    <2> HIDE DEF flats
    <2>7. FlattenSeq(FlattenSeq(uuu)) = FlattenSeq(flats(uuu))
        BY <1>2
    <2>8. Append(uuu, uu) \in Seq(Seq(Seq(T)))
        OBVIOUS
    <2> QED
        BY <2>2, <2>4, <2>5, <2>6, <2>7, <2>8
<1> HIDE DEF G
<1>3. \A uuu \in Seq(Seq(Seq(T))) : uuu \in G
    BY <1>1, <1>2, ListsUpwards
<1> QED
    BY <1>3 DEF G

-----------------------------------------------------------------------------
(* [y for x in s for y in g(x)] *)
Images(g, s) == [i \in DOMAIN s |-> g[s[i]]]
FlatMap(g, s) == FlattenSeq(Images(g, s))
Maps(g, T, U) == g \in [T -> U]

LEMMA ImagesType ==
    ASSUME NEW T, NEW U, NEW g, Maps(g, T, U), NEW s \in Seq(T)
    PROVE  Images(g, s) \in Seq(U) /\ Len(Images(g, s)) = Len(s)
<1> DEFINE m == Images(g, s)
<1>1. m = [i \in 1 .. Len(s) |-> m[i]] /\ Len(s) \in Nat /\ \A i \in 1 .. Len(s) : m[i] \in U
    BY DEF Images, Maps
<1> HIDE DEF m
<1>2. m \in Seq(U) /\ Len(m) = Len(s)
    BY <1>1, ListOf
<1> QED
    BY <1>2 DEF m

LEMMA ImagesAppend ==
    ASSUME NEW T, NEW U, NEW g, Maps(g, T, U), NEW s \in Seq(T), NEW x \in T
    PROVE  Images(g, Append(s, x)) = Append(Images(g, s), g[x])
<1> DEFINE m == Images(g, s)
           t == Images(g, Append(s, x))
<1>1. m \in Seq(U) /\ Len(m) = Len(s) /\ g[x] \in U
    <2>1. g[x] \in U
        BY DEF Maps
    <2> HIDE DEF m
    <2> QED
        BY <2>1, ImagesType DEF m
<1>2. /\ DOMAIN Append(s, x) = 1 .. Len(s) + 1 /\ Append(s, x)[Len(s) + 1] = x /\ Len(s) \in Nat
      /\ \A i \in 1 .. Len(s) : Append(s, x)[i] = s[i]
    BY AppendConcat
<1>3. /\ t = [i \in DOMAIN t |-> t[i]] /\ DOMAIN t = 1 .. Len(s) + 1 /\ t[Len(s) + 1] = g[x]
      /\ \A i \in 1 .. Len(s) : t[i] = m[i]
    BY <1>2 DEF Images
<1> HIDE DEF m, t
<1>4. t = Append(m, g[x])
    BY <1>1, <1>3, ListAppend
<1> QED
    BY <1>4 DEF m, t

LEMMA FlatMapEmpty == \A g : FlatMap(g, <<>>) = <<>>
<1> TAKE g
<1>1. Images(g, <<>>) = <<>>
    BY DEF Images
<1> QED
    BY <1>1, FlattenEmpty DEF FlatMap

LEMMA FlatMapAppend ==
    ASSUME NEW T, NEW U, NEW g, Maps(g, T, Seq(U)), NEW s \in Seq(T), NEW x \in T
    PROVE  FlatMap(g, Append(s, x)) = FlatMap(g, s) \o g[x] /\ FlatMap(g, s) \in Seq(U)
<1>0. g[x] \in Seq(U)
    BY DEF Maps
<1>1. Images(g, s) \in Seq(Seq(U)) /\ g[x] \in Seq(U)
    BY <1>0, ImagesType
<1>2. FlattenSeq(Append(Images(g, s), g[x])) = FlattenSeq(Images(g, s)) \o g[x]
    BY <1>1, FlattenAppend
<1>3. FlattenSeq(Images(g, s)) \in Seq(U)
    BY <1>1, FlattenType
<1>4. Images(g, Append(s, x)) = Append(Images(g, s), g[x])
    BY ImagesAppend
<1> QED
    BY <1>2, <1>3, <1>4 DEF FlatMap

LEMMA FlatMapType ==
    ASSUME NEW T, NEW U, NEW g, Maps(g, T, Seq(U)), NEW s \in Seq(T)
    PROVE  FlatMap(g, s) \in Seq(U)
<1>1. Images(g, s) \in Seq(Seq(U))
    BY ImagesType
<1> QED
    BY <1>1, FlattenType DEF FlatMap

LEMMA FlatMapOne ==
    ASSUME NEW T, NEW U, NEW g, Maps(g, T, Seq(U)), NEW x \in T
    PROVE  FlatMap(g, <<x>>) = g[x]
<1>0. g[x] \in Seq(U)
    BY DEF Maps
<1>1. <<>> \in Seq(T) /\ Append(<<>>, x) = <<x>> /\ <<>> \o g[x] = g[x]
    BY <1>0
<1> DEFINE e == <<>>
           d == <<x>>
<1>2. e \in Seq(T) /\ Append(e, x) = d
    BY <1>1
<1>3. FlatMap(g, e) = <<>>
    BY FlatMapEmpty
<1> HIDE DEF e, d
<1>6. e \in Seq(T)
    BY <1>2
<1>4. FlatMap(g, Append(e, x)) = FlatMap(g, e) \o g[x]
    BY <1>6, FlatMapAppend
<1>5. FlatMap(g, d) = g[x]
    BY <1>1, <1>2, <1>3, <1>4
<1> QED
    BY <1>5 DEF d

LEMMA FlatMapConcat ==
    ASSUME NEW T, NEW U, NEW g, Maps(g, T, Seq(U)), NEW s \in Seq(T), NEW t \in Seq(T)
    PROVE  FlatMap(g, s \o t) = FlatMap(g, s) \o FlatMap(g, t)
<1> DEFINE G == {u \in Seq(T) : FlatMap(g, s \o u) = FlatMap(g, s) \o FlatMap(g, u)}
<1>0. \A u \in Seq(T) : FlatMap(g, u) \in Seq(U)
    BY FlatMapType
<1>1. <<>> \in G
    <2>1. s \o <<>> = s /\ <<>> \in Seq(T)
        OBVIOUS
    <2>2. FlatMap(g, s) \o <<>> = FlatMap(g, s)
        BY <1>0
    <2> QED
        BY <2>1, <2>2, FlatMapEmpty
<1>2. ASSUME NEW u \in Seq(T), u \in G, NEW x \in T
      PROVE  Append(u, x) \in G
    <2>1. s \o Append(u, x) = Append(s \o u, x) /\ s \o u \in Seq(T) /\ Append(u, x) \in Seq(T)
        OBVIOUS
    <2>2. FlatMap(g, Append(s \o u, x)) = FlatMap(g, s \o u) \o g[x]
        <3> DEFINE r == s \o u
        <3>1. r \in Seq(T)
            OBVIOUS
        <3> HIDE DEF r
        <3>2. FlatMap(g, Append(r, x)) = FlatMap(g, r) \o g[x]
            BY <3>1, FlatMapAppend
        <3> QED
            BY <3>2 DEF r
    <2>3. FlatMap(g, Append(u, x)) = FlatMap(g, u) \o g[x]
        BY FlatMapAppend
    <2>4. FlatMap(g, s \o u) = FlatMap(g, s) \o FlatMap(g, u)
        BY <1>2
    <2>5. FlatMap(g, s) \in Seq(U) /\ FlatMap(g, u) \in Seq(U) /\ g[x] \in Seq(U)
        BY <1>0 DEF Maps
    <2>6. (FlatMap(g, s) \o FlatMap(g, u)) \o g[x] = FlatMap(g, s) \o (FlatMap(g, u) \o g[x])
        <3> DEFINE p == FlatMap(g, s)
                   q == FlatMap(g, u)
                   r == g[x]
        <3>1. p \in Seq(U) /\ q \in Seq(U) /\ r \in Seq(U)
            BY <2>5
        <3> HIDE DEF p, q, r
        <3>2. (p \o q) \o r = p \o (q \o r)
            BY <3>1, ConcatAssociates
        <3> QED
            BY <3>2 DEF p, q, r
    <2> QED
        BY <2>1, <2>2, <2>3, <2>4, <2>6
<1> HIDE DEF G
<1>3. \A u \in Seq(T) : u \in G
    BY <1>1, <1>2, ListsUpwards
<1> QED
    BY <1>3 DEF G

(* [z for s in ss for y in s for z in g(y)], list by list. *)
LEMMA FlatMapFlatten ==
    ASSUME NEW T, NEW U, NEW g, Maps(g, T, Seq(U)), NEW ss \in Seq(Seq(T))
    PROVE  FlatMap(g, FlattenSeq(ss)) = FlattenSeq([i \in DOMAIN ss |-> FlatMap(g, ss[i])])
<1> DEFINE h == [s \in Seq(T) |-> FlatMap(g, s)]
           G == {uu \in Seq(Seq(T)) : FlatMap(g, FlattenSeq(uu)) = FlatMap(h, uu)}
<1>0. Maps(h, Seq(T), Seq(U)) /\ \A s \in Seq(T) : h[s] = FlatMap(g, s)
    BY FlatMapType DEF Maps
<1> HIDE DEF h
<1>1. <<>> \in G
    BY FlattenEmpty, FlatMapEmpty
<1>2. ASSUME NEW uu \in Seq(Seq(T)), uu \in G, NEW u \in Seq(T)
      PROVE  Append(uu, u) \in G
    <2>1. FlattenSeq(Append(uu, u)) = FlattenSeq(uu) \o u /\ FlattenSeq(uu) \in Seq(T)
        BY FlattenAppend, FlattenType
    <2>2. FlatMap(g, FlattenSeq(uu) \o u) = FlatMap(g, FlattenSeq(uu)) \o FlatMap(g, u)
        BY <2>1, FlatMapConcat
    <2>3. FlatMap(h, Append(uu, u)) = FlatMap(h, uu) \o h[u]
        BY <1>0, FlatMapAppend
    <2>4. FlatMap(g, FlattenSeq(uu)) = FlatMap(h, uu) /\ Append(uu, u) \in Seq(Seq(T))
        BY <1>2
    <2> QED
        BY <1>0, <2>1, <2>2, <2>3, <2>4
<1> HIDE DEF G
<1>3. \A uu \in Seq(Seq(T)) : uu \in G
    BY <1>1, <1>2, ListsUpwards
<1>4. Images(h, ss) = [i \in DOMAIN ss |-> FlatMap(g, ss[i])]
    BY <1>0 DEF Images
<1> QED
    BY <1>3, <1>4 DEF G, FlatMap

-----------------------------------------------------------------------------
(* Counting. *)
LEMMA CountNat ==
    ASSUME NEW T, NEW s \in Seq(T), NEW X
    PROVE  Count(X, s) \in Nat /\ Count(X, s) <= Len(s)
<1> DEFINE places == {i \in DOMAIN s : s[i] \in X}
<1>1. places \subseteq 1 .. Len(s) /\ Len(s) \in Nat
    OBVIOUS
<1>2. IsFiniteSet(1 .. Len(s)) /\ Cardinality(1 .. Len(s)) = Len(s)
    BY <1>1, FS_Interval
<1> HIDE DEF places
<1>3. IsFiniteSet(places) /\ Cardinality(places) <= Len(s)
    BY <1>1, <1>2, FS_Subset
<1>4. Cardinality(places) \in Nat
    BY <1>3, FS_CardinalityType
<1> QED
    BY <1>3, <1>4 DEF Count, places

LEMMA CountEmpty == \A X : Count(X, <<>>) = 0
<1> TAKE X
<1>1. {i \in DOMAIN <<>> : <<>>[i] \in X} = {}
    OBVIOUS
<1> QED
    BY <1>1, FS_EmptySet DEF Count

LEMMA CountAppend ==
    ASSUME NEW T, NEW s \in Seq(T), NEW x \in T, NEW X
    PROVE  Count(X, Append(s, x)) = Count(X, s) + (IF x \in X THEN 1 ELSE 0)
<1> DEFINE old == {i \in DOMAIN s : s[i] \in X}
           new == {i \in DOMAIN Append(s, x) : Append(s, x)[i] \in X}
           m == Len(s) + 1
<1>1. /\ DOMAIN Append(s, x) = 1 .. m /\ DOMAIN s = 1 .. Len(s) /\ Len(s) \in Nat
      /\ Append(s, x)[m] = x /\ \A i \in 1 .. Len(s) : Append(s, x)[i] = s[i]
    BY AppendConcat
<1>2. IsFiniteSet(old) /\ m \notin old
    <2>1. old \subseteq 1 .. Len(s) /\ IsFiniteSet(1 .. Len(s))
        BY <1>1, FS_Interval
    <2> QED
        BY <1>1, <2>1, FS_Subset
<1>3. new = IF x \in X THEN old \cup {m} ELSE old
    BY <1>1
<1>5. Count(X, s) = Cardinality(old) /\ Count(X, Append(s, x)) = Cardinality(new)
    BY DEF Count
<1> HIDE DEF old, new, m
<1>4. Cardinality(old) \in Nat /\ Cardinality(old \cup {m}) = Cardinality(old) + 1
    BY <1>2, FS_AddElement, FS_CardinalityType
<1> QED
    BY <1>3, <1>4, <1>5

LEMMA CountOne ==
    ASSUME NEW x, NEW X
    PROVE  Count(X, <<x>>) = IF x \in X THEN 1 ELSE 0
<1>1. <<>> \in Seq({x}) /\ Append(<<>>, x) = <<x>> /\ x \in {x}
    OBVIOUS
<1>2. Count(X, Append(<<>>, x)) = Count(X, <<>>) + (IF x \in X THEN 1 ELSE 0)
    BY <1>1, CountAppend
<1> QED
    BY <1>1, <1>2, CountEmpty

LEMMA CountConcat ==
    ASSUME NEW T, NEW s \in Seq(T), NEW t \in Seq(T), NEW X
    PROVE  Count(X, s \o t) = Count(X, s) + Count(X, t)
<1> DEFINE G == {u \in Seq(T) : Count(X, s \o u) = Count(X, s) + Count(X, u)}
<1>0. \A u \in Seq(T) : Count(X, u) \in Nat
    BY CountNat
<1>1. <<>> \in G
    <2>1. s \o <<>> = s /\ <<>> \in Seq(T)
        OBVIOUS
    <2>2. Count(X, s) + 0 = Count(X, s)
        BY <1>0
    <2> QED
        BY <2>1, <2>2, CountEmpty
<1>2. ASSUME NEW u \in Seq(T), u \in G, NEW x \in T
      PROVE  Append(u, x) \in G
    <2>1. s \o Append(u, x) = Append(s \o u, x) /\ s \o u \in Seq(T) /\ Append(u, x) \in Seq(T)
        OBVIOUS
    <2> DEFINE one == IF x \in X THEN 1 ELSE 0
    <2>2. Count(X, Append(s \o u, x)) = Count(X, s \o u) + one
        BY <2>1, CountAppend
    <2>3. Count(X, Append(u, x)) = Count(X, u) + one
        BY CountAppend
    <2>4. Count(X, s \o u) = Count(X, s) + Count(X, u)
        BY <1>2
    <2>5. Count(X, s) \in Nat /\ Count(X, u) \in Nat /\ one \in Nat
        BY <1>0
    <2> HIDE DEF one
    <2>6. Count(X, s \o Append(u, x)) = Count(X, s) + Count(X, Append(u, x))
        BY <2>1, <2>2, <2>3, <2>4, <2>5
    <2> QED
        BY <2>1, <2>6
<1> HIDE DEF G
<1>3. \A u \in Seq(T) : u \in G
    BY <1>1, <1>2, ListsUpwards
<1> QED
    BY <1>3 DEF G

(* The places of a list of lists, list by list. *)
LEMMA CountFlatten ==
    ASSUME NEW T, NEW ss \in Seq(Seq(T)), NEW X
    PROVE  Count(X, FlattenSeq(ss)) = Total([i \in DOMAIN ss |-> Count(X, ss[i])], DOMAIN ss)
<1> DEFINE each(uu) == [i \in DOMAIN uu |-> Count(X, uu[i])]
           G == {uu \in Seq(Seq(T)) : Count(X, FlattenSeq(uu)) = Total(each(uu), DOMAIN uu)}
<1>0. \A u \in Seq(T) : Count(X, u) \in Nat
    BY CountNat
<1>1. <<>> \in G
    <2>1. DOMAIN <<>> = {} /\ <<>> \in Seq(Seq(T))
        OBVIOUS
    <2>2. IsFiniteSet({})
        BY FS_EmptySet
    <2>3. Total(each(<<>>), {}) = 0
        BY <2>2, TotalStep
    <2> QED
        BY <2>1, <2>3, FlattenEmpty, CountEmpty
<1>2. ASSUME NEW uu \in Seq(Seq(T)), uu \in G, NEW u \in Seq(T)
      PROVE  Append(uu, u) \in G
    <2> DEFINE vv == Append(uu, u)
               m == Len(uu) + 1
               g == each(uu)
               h == each(vv)
    <2>1. /\ vv \in Seq(Seq(T)) /\ DOMAIN vv = 1 .. m /\ DOMAIN uu = 1 .. Len(uu) /\ Len(uu) \in Nat /\ vv[m] = u
          /\ \A i \in 1 .. Len(uu) : vv[i] = uu[i] /\ uu[i] \in Seq(T)
        BY AppendConcat
    <2>2. Count(X, FlattenSeq(vv)) = Count(X, FlattenSeq(uu)) + Count(X, u)
        <3>1. FlattenSeq(vv) = FlattenSeq(uu) \o u /\ FlattenSeq(uu) \in Seq(T)
            BY FlattenAppend, FlattenType
        <3> QED
            BY <3>1, CountConcat
    <2>3. \A i \in 1 .. Len(uu) : h[i] = g[i] /\ g[i] \in Nat
        BY <1>0, <2>1
    <2>4. h[m] = Count(X, u) /\ h[m] \in Nat
        BY <1>0, <2>1
    <2>5. Count(X, FlattenSeq(uu)) = Total(g, 1 .. Len(uu))
        BY <1>2, <2>1
    <2> HIDE DEF vv, m, g, h
    <2>6. /\ IsFiniteSet(1 .. m) /\ IsFiniteSet(1 .. Len(uu)) /\ m \in 1 .. m
          /\ (1 .. m) \ {m} = 1 .. Len(uu) /\ \A i \in 1 .. m : i = m \/ i \in 1 .. Len(uu)
        <3>1. m = Len(uu) + 1 /\ Len(uu) \in Nat
            BY <2>1 DEF m
        <3>2. IsFiniteSet(1 .. m) /\ IsFiniteSet(1 .. Len(uu))
            BY <3>1, FS_Interval
        <3> QED
            BY <3>1, <3>2
    <2>7. \A i \in 1 .. m : h[i] \in Nat
        BY <2>3, <2>4, <2>6
    <2>8. Total(h, 1 .. m) = h[m] + Total(h, (1 .. m) \ {m})
        BY <2>6, <2>7, TotalRemove
    <2>9. Total(g, 1 .. Len(uu)) = Total(h, 1 .. Len(uu))
        BY <2>3, <2>6, TotalAgree
    <2>10. Total(h, 1 .. Len(uu)) \in Nat
        <3>1. \A i \in 1 .. Len(uu) : h[i] \in Nat
            BY <2>3
        <3> QED
            BY <2>6, <3>1, TotalNat
    <2>11. Count(X, FlattenSeq(vv)) = Total(h, 1 .. m)
        <3>1. Total(h, 1 .. m) = Count(X, u) + Total(g, 1 .. Len(uu))
            BY <2>4, <2>6, <2>8, <2>9
        <3>2. Count(X, u) \in Nat /\ Total(g, 1 .. Len(uu)) \in Nat
            BY <1>0, <2>9, <2>10
        <3> QED
            BY <2>2, <2>5, <3>1, <3>2
    <2> QED
        BY <2>1, <2>11 DEF vv, h
<1> HIDE DEF G
<1>3. \A uu \in Seq(Seq(T)) : uu \in G
    BY <1>1, <1>2, ListsUpwards
<1> QED
    BY <1>3 DEF G
=============================================================================
