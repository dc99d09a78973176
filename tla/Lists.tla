------------------------------- MODULE Lists -------------------------------
(* Lists put together from sets: what list comprehensions, sorted(), nested *)
(* loops and sum() of the code give, as definitions that say which elements *)
(* the result has and in which order. The orders are sets of pairs.         *)
EXTENDS Naturals, FiniteSets, Sequences, FiniteSetsExt

(* The finite set S in the order R, a strict total order of S: the element  *)
(* in place k has k - 1 elements before it.                                 *)
Enumerate(S, R) ==
    [k \in 1 .. Cardinality(S) |->
        CHOOSE x \in S : Cardinality({y \in S : <<y, x>> \in R}) = k - 1]

StrictOrder(S, R) ==
    /\ \A x \in S : <<x, x>> \notin R
    /\ \A x, y \in S : x = y \/ <<x, y>> \in R \/ <<y, x>> \in R
    /\ \A x, y, z \in S : <<x, y>> \in R /\ <<y, z>> \in R => <<x, z>> \in R

(* Places of a list, and places of the lists in a list. *)
Ascending == {p \in Nat \X Nat : p[1] < p[2]}
Place == Nat \X Nat
Lexical == {p \in Place \X Place :
              p[1][1] < p[2][1] \/ (p[1][1] = p[2][1] /\ p[1][2] < p[2][2])}

(* [x for x in s if ...], given the places K that pass. *)
Kept(s, K) == [k \in 1 .. Cardinality(K) |-> s[Enumerate(K, Ascending)[k]]]

(* [x for s in ss for x in s] *)
PlacesIn(ss) == UNION {{<<i, j>> : j \in DOMAIN ss[i]} : i \in DOMAIN ss}
Flat(ss) ==
    LET place == Enumerate(PlacesIn(ss), Lexical)
    IN [k \in DOMAIN place |-> ss[place[k][1]][place[k][2]]]

(* sum(1 for x in s if x in X) *)
Count(X, s) == Cardinality({i \in DOMAIN s : s[i] \in X})

(* sum(g[x] for x in S) *)
Total(g, S) == MapThenSumSet(LAMBDA x : g[x], S)
=============================================================================
