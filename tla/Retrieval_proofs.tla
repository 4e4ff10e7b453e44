--------------------------- MODULE Retrieval_proofs ---------------------------
(***************************************************************************)
(* Theorems about Retrieval: what a query shows, for any graphs, merges,   *)
(* similarities, modes and limits.                                         *)
(***************************************************************************)
EXTENDS Retrieval, CsrGraph_proofs

Weighed == [id : Nat, weight : Int]

(***************************************************************************)
(* Sorted, cut and selected contexts.                                      *)
(***************************************************************************)
LEMMA IdsOfItems ==
    ASSUME NEW s, NEW t, Items(s) = Items(t)
    PROVE  IdsOf(s) = IdsOf(t)
<1>1. \A u : \A x : x \in IdsOf(u) <=> \E e \in Items(u) : x = e.id
    BY DEF IdsOf, Items
<1>2. ASSUME NEW x PROVE x \in IdsOf(s) <=> x \in IdsOf(t)
    BY <1>1
<1> QED
    BY <1>2

\* A sequence of distinct nodes has as many ids.
LEMMA DistinctIds ==
    ASSUME NEW s \in Seq(Weighed), NoneTwice(s)
    PROVE  IsFiniteSet(IdsOf(s)) /\ Cardinality(IdsOf(s)) = Len(s)
<1> DEFINE n == Len(s)
           f == [k \in 1..n |-> s[k].id]
<1>1. n \in Nat /\ DOMAIN s = 1..n
    OBVIOUS
<1>2. IdsOf(s) = {s[k].id : k \in 1..n}
    BY <1>1 DEF IdsOf
<1> HIDE DEF n
<1>3. \A k \in 1..n : f[k] = s[k].id /\ f[k] \in IdsOf(s)
    BY <1>2
<1>4. \A j, k \in 1..n : f[j] = f[k] => j = k
    BY <1>1, <1>3 DEF NoneTwice
<1>5. \A x \in IdsOf(s) : \E k \in 1..n : f[k] = x
    BY <1>2, <1>3
<1>6. f \in [1..n -> IdsOf(s)]
    BY <1>3
<1> HIDE DEF f
<1>7. f \in Bijection(1..n, IdsOf(s))
    BY <1>4, <1>5, <1>6 DEF Bijection, Injection, Surjection, IsInjective
<1>8. IsFiniteSet(1..n) /\ Cardinality(1..n) = n
    BY <1>1, FirstFew
<1>9. IsFiniteSet(IdsOf(s)) /\ Cardinality(IdsOf(s)) = Cardinality(1..n)
    <2>1. ExistsBijection(1..n, IdsOf(s))
        BY <1>7 DEF ExistsBijection
    <2> QED
        BY <1>8, <2>1, FS_Bijection
<1> QED
    BY <1>8, <1>9 DEF n

\* The order of the ranks: by weight, the places deciding between equals.
Earlier(s, i, j) ==
    \/ s[i].weight > s[j].weight
    \/ s[i].weight = s[j].weight /\ i < j

\* t is s in the order of weights, and of s where they are equal.
IsRanked(t, s) ==
    \E place \in Bijection(1..Len(s), 1..Len(s)) :
        /\ \A j \in 1..Len(s) : t[place[j]] = s[j]
        /\ \A i, j \in 1..Len(s) : place[i] < place[j] <=> Earlier(s, i, j)

LEMMA RankedIs ==
    ASSUME NEW s \in Seq(Weighed)
    PROVE  /\ Ranked(s) \in Seq(Weighed) /\ Len(Ranked(s)) = Len(s)
           /\ IsRanked(Ranked(s), s)
<1> DEFINE D == 1..Len(s)
           before == {p \in D \X D : Earlier(s, p[1], p[2])}
           Place(j) == Cardinality({i \in D : Earlier(s, i, j)}) + 1
           place == PlacesOf(before, D)
           Where(k) == CHOOSE j \in D : Place(j) = k
           c == Cardinality(D)
<1>0. \A x \in Weighed : x.weight \in Int
    BY DEF Weighed
<1>1. /\ Len(s) \in Nat /\ DOMAIN s = D
      /\ \A i \in D : s[i] \in Weighed /\ s[i].weight \in Int /\ i \in Int
    BY <1>0
<1>2. Ranked(s) = [k \in D |-> s[Where(k)]]
    BY <1>1 DEF Ranked, Earlier
<1>3. IsFiniteSet(D) /\ c = Len(s) /\ D = 1..c
    <2> DEFINE n == Len(s)
    <2>a. n \in Nat
        BY <1>1
    <2> HIDE DEF n
    <2>b. IsFiniteSet(1..n) /\ Cardinality(1..n) = n
        BY <2>a, FirstFew
    <2>1. IsFiniteSet(D) /\ c = Len(s)
        BY <2>b DEF n
    <2> QED
        BY <2>1
<1> HIDE DEF D, c
<1>4. \A i, j \in D : <<i, j>> \in before <=> Earlier(s, i, j)
    BY Zenon
<1>5. IsStrictOrder(before, D)
    <2>1. \A i, j \in D : <<i, j>> \in before <=>
              \/ s[i].weight > s[j].weight
              \/ (s[i].weight = s[j].weight /\ i < j)
        BY <1>4 DEF Earlier
    <2> HIDE DEF before
    <2>2. \A i \in D : <<i, i>> \notin before
        BY <1>1, <2>1
    <2>3. \A i, j \in D : i # j => <<i, j>> \in before \/ <<j, i>> \in before
        BY <1>1, <2>1
    <2>4. ASSUME NEW i \in D, NEW j \in D, NEW k \in D, <<i, j>> \in before, <<j, k>> \in before
          PROVE  <<i, k>> \in before
        <3>1. \A u, v, w, x, y, z \in Int :
                  (u > v \/ (u = v /\ x < y)) /\ (v > w \/ (v = w /\ y < z)) => u > w \/ (u = w /\ x < z)
            BY ONLY TRUE
        <3>2. i \in Int /\ j \in Int /\ k \in Int
            BY <1>1
        <3>3. s[i].weight \in Int /\ s[j].weight \in Int /\ s[k].weight \in Int
            BY <1>1
        <3>4. /\ s[i].weight > s[j].weight \/ (s[i].weight = s[j].weight /\ i < j)
              /\ s[j].weight > s[k].weight \/ (s[j].weight = s[k].weight /\ j < k)
            BY <2>1, <2>4
        <3>5. s[i].weight > s[k].weight \/ (s[i].weight = s[k].weight /\ i < k)
            BY ONLY <3>1, <3>2, <3>3, <3>4
        <3> QED
            BY ONLY <2>1, <3>5, i \in D, k \in D
    <2> QED
        BY <2>2, <2>3, <2>4 DEF IsStrictOrder
<1>6. \A j \in D : place[j] = Place(j)
    <2>1. SUFFICES ASSUME NEW j \in D PROVE place[j] = Place(j)
        OBVIOUS
    <2>2. {i \in D : <<i, j>> \in before} = {i \in D : Earlier(s, i, j)}
        BY <1>4
    <2> QED
        BY <2>2 DEF PlacesOf
<1> HIDE DEF before
<1>7. /\ place \in Bijection(D, 1..c)
      /\ \A i, j \in D : <<i, j>> \in before <=> place[i] < place[j]
    BY <1>3, <1>5, PlacesInOrder DEF c
<1> HIDE DEF place, Place
<1>8. /\ \A j \in D : place[j] \in D
      /\ \A k \in D : \E j \in D : place[j] = k
      /\ \A i, j \in D : place[i] = place[j] => i = j
    <2>1. place \in [D -> 1..c] /\ \A j \in D : place[j] \in 1..c
        BY <1>7 DEF Bijection, Injection
    <2>2. \A k \in 1..c : \E j \in D : place[j] = k
        BY <1>7 DEF Bijection, Surjection
    <2>3. \A i, j \in D : place[i] = place[j] => i = j
        BY <1>7, <2>1 DEF Bijection, Injection, IsInjective
    <2> QED
        BY ONLY <1>3, <2>1, <2>2, <2>3, Zenon
<1>9. ASSUME NEW k \in D PROVE Where(k) \in D /\ place[Where(k)] = k
    <2>1. PICK j \in D : place[j] = k
        BY <1>8
    <2>2. Place(j) = k
        BY <1>6, <2>1
    <2>3. Where(k) \in D /\ Place(Where(k)) = k
        BY <2>2
    <2> HIDE DEF Where
    <2> QED
        BY <1>6, <2>3
<1> HIDE DEF Where
<1>10. \A j \in D : Where(place[j]) = j
    BY <1>8, <1>9
<1>11. \A j \in D : Ranked(s)[place[j]] = s[j]
    BY <1>2, <1>8, <1>10
<1>12. [k \in D |-> s[Where(k)]] \in [D -> Weighed]
    BY <1>1, <1>9
<1>13. Ranked(s) \in Seq(Weighed) /\ Len(Ranked(s)) = Len(s)
    BY <1>1, <1>2, <1>12, DefinedSeq DEF D
<1>14. IsRanked(Ranked(s), s)
    <2> DEFINE t == Ranked(s)
    <2> HIDE DEF t
    <2>1. \A j \in D : t[place[j]] = s[j]
        BY <1>11 DEF t
    <2>2. \A i, j \in D : place[i] < place[j] <=> Earlier(s, i, j)
        BY <1>4, <1>7
    <2>3. place \in Bijection(1..Len(s), 1..Len(s))
        BY <1>3, <1>7 DEF D
    <2>4. IsRanked(t, s)
        BY <2>1, <2>2, <2>3 DEF IsRanked, D
    <2> QED
        BY <2>4 DEF t
<1> QED
    BY <1>13, <1>14

\* A ranked context has the same nodes, and none stands before a heavier one.
LEMMA RankedProperties ==
    ASSUME NEW s \in Seq(Weighed)
    PROVE  /\ Ranked(s) \in Seq(Weighed) /\ Len(Ranked(s)) = Len(s)
           /\ Items(Ranked(s)) = Items(s)
           /\ NoneTwice(s) => NoneTwice(Ranked(s))
           /\ \A i, j \in 1..Len(s) : i < j => Ranked(s)[i].weight >= Ranked(s)[j].weight
           /\ \A m \in 1..Len(s) :
                 (\A j \in 1..Len(s) : j # m => Earlier(s, m, j))
                    => Ranked(s)[1] = s[m]
<1> DEFINE t == Ranked(s)
           n == Len(s)
<1>1. t \in Seq(Weighed) /\ Len(t) = n /\ IsRanked(t, s)
    BY RankedIs
<1> HIDE DEF t
<1>2. n \in Nat /\ DOMAIN s = 1..n /\ DOMAIN t = 1..n /\ \A i \in 1..n : s[i].weight \in Int
    <2>1. \A x \in Weighed : x.weight \in Int
        BY DEF Weighed
    <2> QED
        BY <1>1, <2>1
<1> HIDE DEF n
<1>3. PICK place \in Bijection(1..n, 1..n) :
          /\ \A j \in 1..n : t[place[j]] = s[j]
          /\ \A i, j \in 1..n : place[i] < place[j] <=> Earlier(s, i, j)
    BY <1>1 DEF IsRanked, n
<1>4. /\ \A j \in 1..n : place[j] \in 1..n
      /\ \A k \in 1..n : \E j \in 1..n : place[j] = k
      /\ \A i, j \in 1..n : place[i] = place[j] => i = j
    BY DEF Bijection, Injection, Surjection, IsInjective
<1>5. Items(t) = Items(s)
    <2>0. /\ \A x : x \in Items(s) <=> \E j \in 1..n : x = s[j]
          /\ \A x : x \in Items(t) <=> \E j \in 1..n : x = t[j]
        BY <1>2 DEF Items
    <2>1. ASSUME NEW x \in Items(t) PROVE x \in Items(s)
        <3>1. PICK k \in 1..n : x = t[k]
            BY <2>0
        <3>2. PICK j \in 1..n : place[j] = k
            BY <1>4
        <3> QED
            BY <1>3, <2>0, <3>1, <3>2
    <2>2. ASSUME NEW x \in Items(s) PROVE x \in Items(t)
        <3>1. PICK j \in 1..n : x = s[j]
            BY <2>0
        <3> QED
            BY <1>3, <1>4, <2>0, <3>1
    <2> QED
        BY <2>1, <2>2
<1>6. ASSUME NoneTwice(s) PROVE NoneTwice(t)
    <2>1. SUFFICES ASSUME NEW i \in 1..n, NEW j \in 1..n, t[i].id = t[j].id PROVE i = j
        BY <1>2 DEF NoneTwice
    <2>2. PICK k \in 1..n : place[k] = i
        BY <1>4
    <2>3. PICK l \in 1..n : place[l] = j
        BY <1>4
    <2>4. s[k].id = s[l].id
        BY <1>3, <2>1, <2>2, <2>3
    <2>5. k = l
        BY <1>2, <1>6, <2>4 DEF NoneTwice
    <2> QED
        BY <2>2, <2>3, <2>5
<1>7. ASSUME NEW i \in 1..n, NEW j \in 1..n, i < j PROVE t[i].weight >= t[j].weight
    <2>1. PICK k \in 1..n : place[k] = i
        BY <1>4
    <2>2. PICK l \in 1..n : place[l] = j
        BY <1>4
    <2>3. s[k].weight > s[l].weight \/ s[k].weight = s[l].weight
        BY <1>3, <1>7, <2>1, <2>2 DEF Earlier
    <2>4. t[i] = s[k] /\ t[j] = s[l]
        BY <1>3, <2>1, <2>2
    <2> QED
        BY <1>2, <2>3, <2>4
<1>8. ASSUME NEW m \in 1..n,
             \A j \in 1..n : j # m => Earlier(s, m, j)
      PROVE  t[1] = s[m]
    <2>1. \A j \in 1..n : j # m => place[m] < place[j]
        BY <1>3, <1>8
    <2>2. 1 \in 1..n
        BY <1>2
    <2>3. PICK k \in 1..n : place[k] = 1
        BY <1>4, <2>2
    <2>4. k = m
        <3>1. SUFFICES ASSUME k # m PROVE FALSE
            OBVIOUS
        <3>2. place[m] < 1 /\ place[m] \in 1..n
            BY <1>4, <2>1, <2>3, <3>1
        <3> QED
            BY <1>2, <3>2
    <2> QED
        BY <1>3, <2>3, <2>4
<1> QED
    BY <1>1, <1>5, <1>6, <1>7, <1>8 DEF t, n

LEMMA CutProperties ==
    ASSUME NEW s \in Seq(Weighed), TopN \in Nat
    PROVE  /\ Cut(s) \in Seq(Weighed)
           /\ Len(Cut(s)) = IF Len(s) < TopN THEN Len(s) ELSE TopN
           /\ \A i \in 1..Len(Cut(s)) : Cut(s)[i] = s[i]
           /\ Items(Cut(s)) \subseteq Items(s)
           /\ Len(s) <= TopN => Items(Cut(s)) = Items(s)
           /\ NoneTwice(s) => NoneTwice(Cut(s))
<1> DEFINE n == Len(s)
           m == IF n < TopN THEN n ELSE TopN
           t == SubSeq(s, 1, m)
<1>1. n \in Nat /\ DOMAIN s = 1..n /\ \A i \in 1..n : s[i] \in Weighed
    OBVIOUS
<1>2. m \in Nat /\ m <= n
    BY <1>1
<1>3. Cut(s) = t
    BY DEF Cut
<1> HIDE DEF n, m
<1>4. \A i \in 1..m : s[i] \in Weighed
    BY <1>1, <1>2
<1>5. /\ t \in Seq(Weighed) /\ Len(t) = IF 1 <= m THEN m - 1 + 1 ELSE 0
      /\ \A i \in 1..(m - 1 + 1) : t[i] = s[1 + i - 1]
    BY <1>2, <1>4, SubSeqProperties
<1> HIDE DEF t
<1>6. Len(t) = m /\ DOMAIN t = 1..m
    BY <1>2, <1>5
<1>7. \A i \in 1..m : t[i] = s[i] /\ i \in 1..n
    <2>1. SUFFICES ASSUME NEW i \in 1..m PROVE t[i] = s[i] /\ i \in 1..n
        OBVIOUS
    <2>2. i \in 1..(m - 1 + 1) /\ 1 + i - 1 = i
        BY <1>2
    <2>3. t[i] = s[1 + i - 1]
        BY <1>5, <2>2
    <2> QED
        BY <1>1, <1>2, <2>2, <2>3
<1>8. Items(t) \subseteq Items(s)
    BY <1>1, <1>6, <1>7 DEF Items
<1>9. ASSUME Len(s) <= TopN PROVE Items(t) = Items(s)
    <2>1. m = n
        <3>1. \A k, l \in Nat : k <= l => (IF k < l THEN k ELSE l) = k
            OBVIOUS
        <3> QED
            BY <1>1, <1>9, <3>1 DEF m, n
    <2>2. Items(s) \subseteq Items(t)
        BY <1>1, <1>6, <1>7, <2>1 DEF Items
    <2> QED
        BY <1>8, <2>2
<1>10. ASSUME NoneTwice(s) PROVE NoneTwice(t)
    BY <1>1, <1>6, <1>7, <1>10 DEF NoneTwice
<1> QED
    BY <1>3, <1>5, <1>6, <1>7, <1>8, <1>9, <1>10 DEF m, n

LEMMA KeptDistinct ==
    ASSUME NEW S, NEW s \in Seq(S), NoneTwice(s), NEW places, places \subseteq 1..Len(s)
    PROVE  NoneTwice(At(s, places))
<1> DEFINE t == At(s, places)
<1>1. t \in Seq(S) /\ IsKept(t, s, places)
    BY AtProperties
<1> HIDE DEF t
<1>2. PICK rank \in Bijection(places, 1..Len(t)) : \A i \in places : t[rank[i]] = s[i]
    BY <1>1 DEF IsKept
<1>3. \A k \in 1..Len(t) : \E i \in places : rank[i] = k
    BY DEF Bijection, Surjection
<1>4. SUFFICES ASSUME NEW j \in 1..Len(t), NEW k \in 1..Len(t), t[j].id = t[k].id PROVE j = k
    BY <1>1 DEF NoneTwice, t
<1>5. PICK i \in places : rank[i] = j
    BY <1>3
<1>6. PICK l \in places : rank[l] = k
    BY <1>3
<1>7. s[i].id = s[l].id /\ i \in DOMAIN s /\ l \in DOMAIN s
    BY <1>2, <1>4, <1>5, <1>6
<1>8. i = l
    BY <1>7 DEF NoneTwice
<1> QED
    BY <1>5, <1>6, <1>8

\* What the limit leaves out of a ranked context weighs no more than what it keeps.
LEMMA LeftOut ==
    ASSUME NEW all \in Seq(Weighed), TopN \in Nat, NEW x \in Items(all)
    PROVE  \/ x \in Items(Cut(Ranked(all)))
           \/ /\ Len(Cut(Ranked(all))) = TopN
              /\ \A y \in Items(Cut(Ranked(all))) : y.weight >= x.weight
<1> DEFINE t == Ranked(all)
           r == Cut(t)
           n == Len(all)
<1>1. /\ t \in Seq(Weighed) /\ Len(t) = n /\ Items(t) = Items(all)
      /\ \A i, j \in 1..n : i < j => t[i].weight >= t[j].weight
    BY RankedProperties
<1> HIDE DEF t
<1>2. /\ r \in Seq(Weighed)
      /\ Len(r) = IF Len(t) < TopN THEN Len(t) ELSE TopN
      /\ \A i \in 1..Len(r) : r[i] = t[i]
    BY <1>1, CutProperties
<1> HIDE DEF r
<1>3. n \in Nat /\ DOMAIN t = 1..n /\ DOMAIN r = 1..Len(r) /\ Len(r) \in Nat
    BY <1>1, <1>2
<1> HIDE DEF n
<1>4. PICK p \in 1..n : x = t[p]
    BY <1>1, <1>3 DEF Items
<1>5. CASE p <= Len(r)
    <2>1. p \in 1..Len(r) /\ r[p] = x
        BY <1>2, <1>3, <1>4, <1>5
    <2> QED
        BY <1>3, <2>1 DEF Items, r, t
<1>6. CASE ~ (p <= Len(r))
    <2>1. Len(r) = TopN /\ Len(r) < p
        BY <1>1, <1>2, <1>3, <1>6
    <2>2. ASSUME NEW y \in Items(r) PROVE y.weight >= x.weight
        <3>1. PICK i \in 1..Len(r) : y = r[i]
            BY <1>3 DEF Items
        <3>2. i < p /\ i \in 1..n
            BY <1>3, <2>1
        <3> QED
            BY <1>1, <1>2, <1>4, <3>1, <3>2
    <2> QED
        BY <2>1, <2>2 DEF r, t
<1> QED
    BY <1>5, <1>6

\* A node that was offered is in a context with its weight at least, or the context
\* is full of nodes that weigh no less.
Held(o, nodes) ==
    \/ \E x \in Items(nodes) : x.id = o.id /\ x.weight >= o.weight
    \/ Len(nodes) = TopN /\ \A x \in Items(nodes) : x.weight >= o.weight

\* What of a walk is new to a context.
Fresh(nodes, more) == Selected(more, LAMBDA n : n.id \notin IdsOf(nodes))

LEMMA FreshProperties ==
    ASSUME NEW nodes \in Seq(Weighed), NEW more \in Seq(Weighed), NoneTwice(nodes), NoneTwice(more)
    PROVE  /\ nodes \o Fresh(nodes, more) \in Seq(Weighed)
           /\ Len(nodes \o Fresh(nodes, more)) >= Len(nodes)
           /\ NoneTwice(nodes \o Fresh(nodes, more))
           /\ \A x : x \in Items(nodes \o Fresh(nodes, more)) <=>
                        \/ x \in Items(nodes)
                        \/ x \in Items(more) /\ x.id \notin IdsOf(nodes)
<1> DEFINE places == {i \in DOMAIN more : more[i].id \notin IdsOf(nodes)}
           fresh == Fresh(nodes, more)
           all == nodes \o fresh
           l == Len(nodes)
           m == Len(fresh)
<1>1. fresh = At(more, places)
    BY DEF Fresh, Selected
<1>2. places \subseteq 1..Len(more) /\ DOMAIN more = 1..Len(more)
    OBVIOUS
<1>3. \A x : x \in {more[i] : i \in places} <=> x \in Items(more) /\ x.id \notin IdsOf(nodes)
    BY DEF Items
<1> HIDE DEF places, fresh
<1>4. fresh \in Seq(Weighed) /\ NoneTwice(fresh) /\ Items(fresh) = {more[i] : i \in places}
    BY <1>1, <1>2, AtProperties, AtItems, KeptDistinct
<1>5. /\ all \in Seq(Weighed) /\ Len(all) = l + m
      /\ \A i \in 1..l : all[i] = nodes[i]
      /\ \A i \in 1..m : all[l + i] = fresh[i]
      /\ \A x : x \in Items(all) <=> x \in Items(nodes) \/ x \in Items(fresh)
    BY <1>4, ConcatItems
<1>6. /\ l \in Nat /\ m \in Nat /\ DOMAIN nodes = 1..l /\ DOMAIN fresh = 1..m
      /\ DOMAIN all = 1..(l + m)
    BY <1>4, <1>5
<1>7. \A i \in 1..l, j \in 1..m : nodes[i].id # fresh[j].id
    <2>1. \A i \in 1..l : nodes[i].id \in IdsOf(nodes)
        BY <1>6 DEF IdsOf
    <2>2. \A j \in 1..m : fresh[j] \in Items(fresh)
        BY <1>6 DEF Items
    <2>3. \A j \in 1..m : fresh[j].id \notin IdsOf(nodes)
        BY <1>3, <1>4, <2>2
    <2> QED
        BY <2>1, <2>3
<1> HIDE DEF all, l, m
<1>8. NoneTwice(all)
    <2>1. SUFFICES ASSUME NEW i \in 1..(l + m), NEW j \in 1..(l + m), all[i].id = all[j].id
                   PROVE  i = j
        BY <1>6 DEF NoneTwice
    <2>2. ASSUME NEW k \in 1..(l + m), ~ (k \in 1..l)
          PROVE  k - l \in 1..m /\ all[k] = fresh[k - l]
        <3>1. k - l \in 1..m /\ k = l + (k - l)
            BY <1>6, <2>2
        <3> QED
            BY <1>5, <3>1
    <2>3. CASE i \in 1..l /\ j \in 1..l
        BY <1>5, <1>6, <2>1, <2>3 DEF NoneTwice
    <2>4. CASE i \in 1..l /\ j \notin 1..l
        BY <1>5, <1>7, <2>1, <2>2, <2>4
    <2>5. CASE i \notin 1..l /\ j \in 1..l
        BY <1>5, <1>7, <2>1, <2>2, <2>5
    <2>6. CASE i \notin 1..l /\ j \notin 1..l
        <3>1. fresh[i - l].id = fresh[j - l].id /\ i - l \in 1..m /\ j - l \in 1..m
            BY <2>1, <2>2, <2>6
        <3>2. i - l = j - l
            BY <1>4, <1>6, <3>1 DEF NoneTwice
        <3> QED
            BY <1>6, <3>2
    <2> QED
        BY <2>3, <2>4, <2>5, <2>6
<1>9. \A x : x \in Items(all) <=>
                        \/ x \in Items(nodes)
                        \/ x \in Items(more) /\ x.id \notin IdsOf(nodes)
    BY <1>3, <1>4, <1>5
<1>10. all \in Seq(Weighed) /\ Len(all) >= l
    BY <1>5, <1>6
<1> QED
    BY <1>8, <1>9, <1>10 DEF all, l, fresh

LEMMA GatherProperties ==
    ASSUME TopN \in Nat, NEW nodes \in Seq(Weighed), NEW more \in Seq(Weighed),
           NoneTwice(nodes), NoneTwice(more), Len(nodes) <= TopN
    PROVE  /\ Gather(nodes, more) \in Seq(Weighed) /\ NoneTwice(Gather(nodes, more))
           /\ Len(Gather(nodes, more)) <= TopN
           /\ Items(Gather(nodes, more)) \subseteq Items(nodes) \cup Items(more)
           /\ \/ IdsOf(nodes) \cup IdsOf(more) \subseteq IdsOf(Gather(nodes, more))
              \/ Len(Gather(nodes, more)) = TopN
           /\ Len(more) = TopN => Len(Gather(nodes, more)) = TopN
           /\ \A o : o.weight \in Int /\ Held(o, nodes) => Held(o, Gather(nodes, more))
           /\ \A x \in Items(more) : x.id \notin IdsOf(nodes) => Held(x, Gather(nodes, more))
<1> DEFINE all == nodes \o Fresh(nodes, more)
           t == Ranked(all)
           r == Cut(t)
<1>1. /\ all \in Seq(Weighed) /\ NoneTwice(all) /\ Len(all) >= Len(nodes)
      /\ \A x : x \in Items(all) <=> \/ x \in Items(nodes)
                                     \/ x \in Items(more) /\ x.id \notin IdsOf(nodes)
    BY FreshProperties
<1>2. Gather(nodes, more) = r
    BY DEF Gather, Fresh
<1> HIDE DEF all
<1>3. t \in Seq(Weighed) /\ Len(t) = Len(all) /\ Items(t) = Items(all) /\ NoneTwice(t)
    BY <1>1, RankedProperties
<1> HIDE DEF t
<1>4. /\ r \in Seq(Weighed)
      /\ Len(r) = IF Len(t) < TopN THEN Len(t) ELSE TopN
      /\ Items(r) \subseteq Items(t)
      /\ Len(t) <= TopN => Items(r) = Items(t)
      /\ NoneTwice(r)
    BY <1>3, CutProperties
<1>5. \A x \in Items(all) : \/ x \in Items(r)
                            \/ Len(r) = TopN /\ \A y \in Items(r) : y.weight >= x.weight
    BY <1>1, LeftOut DEF t
<1> HIDE DEF r
<1>6. /\ Len(all) \in Nat /\ Len(r) \in Nat /\ Len(nodes) \in Nat /\ Len(more) \in Nat
      /\ Len(r) <= TopN /\ (Len(r) # TopN => Len(all) < TopN)
    BY <1>1, <1>3, <1>4
<1>7. \A s, x : x \in Items(s) => x.id \in IdsOf(s)
    BY DEF Items, IdsOf
<1>8. \A s : \A i \in IdsOf(s) : \E x \in Items(s) : i = x.id
    BY DEF Items, IdsOf
<1>9. IdsOf(nodes) \cup IdsOf(more) \subseteq IdsOf(all)
    <2>1. ASSUME NEW i \in IdsOf(nodes) PROVE i \in IdsOf(all)
        BY <1>1, <1>7, <1>8
    <2>2. ASSUME NEW i \in IdsOf(more), i \notin IdsOf(nodes) PROVE i \in IdsOf(all)
        BY <1>1, <1>7, <1>8, <2>2
    <2> QED
        BY <2>1, <2>2
<1>10. /\ IsFiniteSet(IdsOf(all)) /\ Cardinality(IdsOf(all)) = Len(all)
       /\ IsFiniteSet(IdsOf(r)) /\ Cardinality(IdsOf(r)) = Len(r)
       /\ IsFiniteSet(IdsOf(nodes)) /\ Cardinality(IdsOf(nodes)) = Len(nodes)
       /\ IsFiniteSet(IdsOf(more)) /\ Cardinality(IdsOf(more)) = Len(more)
    BY <1>1, <1>4, DistinctIds
<1>11. ASSUME Len(r) # TopN PROVE IdsOf(nodes) \cup IdsOf(more) \subseteq IdsOf(r)
    <2>1. Items(r) = Items(all)
        BY <1>3, <1>4, <1>6, <1>11
    <2>2. IdsOf(r) = IdsOf(all)
        BY <2>1, IdsOfItems
    <2> QED
        BY <1>9, <2>2
<1>12. ASSUME Len(more) = TopN PROVE Len(r) = TopN
    <2>1. Cardinality(IdsOf(more)) <= Cardinality(IdsOf(all))
        BY <1>9, <1>10, FS_Subset
    <2> QED
        BY <1>6, <1>10, <1>12, <2>1
<1>13. \A x \in Weighed : x.weight \in Int
    BY DEF Weighed
<1>14. \A x : x \in Items(r) \/ x \in Items(nodes) \/ x \in Items(more) => x.weight \in Int
    BY <1>4, <1>13, ItemsOf
<1>15. ASSUME NEW x \in Items(all) PROVE Held(x, r)
    BY <1>1, <1>5, <1>14 DEF Held
<1>16. ASSUME NEW o, o.weight \in Int, Held(o, nodes) PROVE Held(o, r)
    <2>1. CASE \E x \in Items(nodes) : x.id = o.id /\ x.weight >= o.weight
        <3>1. PICK x \in Items(nodes) : x.id = o.id /\ x.weight >= o.weight
            BY <2>1
        <3>2. CASE x \in Items(r)
            BY <3>1, <3>2 DEF Held
        <3>3. CASE Len(r) = TopN /\ \A y \in Items(r) : y.weight >= x.weight
            BY <1>14, <1>16, <3>1, <3>3 DEF Held
        <3> QED
            BY <1>1, <1>5, <3>2, <3>3
    <2>2. CASE Len(nodes) = TopN /\ \A x \in Items(nodes) : x.weight >= o.weight
        <3>1. Len(r) = TopN
            BY <1>1, <1>6, <2>2
        <3>2. SUFFICES ASSUME NEW y \in Items(r) PROVE y.weight >= o.weight
            BY <3>1 DEF Held
        <3>3. y \in Items(all)
            BY <1>3, <1>4
        <3>4. CASE y \in Items(nodes)
            BY <2>2, <3>4
        <3>5. CASE y \notin Items(nodes)
            <4>1. y.id \notin IdsOf(nodes) /\ y.id \in IdsOf(r)
                BY <1>1, <1>7, <3>3, <3>5
            <4>2. ~ (IdsOf(nodes) \subseteq IdsOf(r))
                <5>1. SUFFICES ASSUME IdsOf(nodes) \subseteq IdsOf(r) PROVE FALSE
                    OBVIOUS
                <5>2. IdsOf(nodes) = IdsOf(r)
                    BY <1>10, <2>2, <3>1, <5>1, FS_Subset
                <5> QED
                    BY <4>1, <5>2
            <4>3. PICK x \in Items(nodes) : x.id \notin IdsOf(r)
                BY <1>8, <4>2
            <4>4. x \notin Items(r) /\ x \in Items(all)
                BY <1>1, <1>7, <4>3
            <4>5. y.weight >= x.weight /\ x.weight >= o.weight
                BY <1>5, <2>2, <4>4
            <4> QED
                BY <1>14, <1>16, <4>5
        <3> QED
            BY <3>4, <3>5
    <2> QED
        BY <1>16, <2>1, <2>2 DEF Held
<1>17. Items(r) \subseteq Items(nodes) \cup Items(more)
    BY <1>1, <1>3, <1>4
<1>18. ASSUME NEW x \in Items(more), x.id \notin IdsOf(nodes) PROVE Held(x, r)
    BY <1>1, <1>15, <1>18
<1> QED
    BY <1>2, <1>4, <1>6, <1>11, <1>12, <1>16, <1>17, <1>18

(***************************************************************************)
(* The graph a query reads.                                                *)
(***************************************************************************)
Origins == [type : Types, weight : Weights, dim : {"full"}]

IsBuilt(g, ns, es) ==
    /\ g = Build(ns, es)
    /\ ns \in Seq(NodeType) /\ es \in Seq(EdgeSet(Entities, Origins))
    /\ Inside(es, Len(ns)) /\ es # <<>>
    /\ \A m \in Growths : Inside(m.edges, Len(ns) + Len(m.nodes))

\* Packed from nodes and edges that a merge may add its own to.
Sound(g) == \E ns, es : IsBuilt(g, ns, es)

LEMMA EdgeTypeIs == EdgeType = EdgeSet(Entities, Origins)
BY DEF EdgeType, EdgeSet, Origins

\* An id in a range of ids.
LEMMA InRange ==
    ASSUME NEW x \in Nat, NEW n \in Nat
    PROVE  x \in 0..n - 1 <=> x < n
OBVIOUS

LEMMA LenType ==
    ASSUME NEW S, NEW s \in Seq(S)
    PROVE  Len(s) \in Nat
OBVIOUS

LEMMA EndsInside ==
    ASSUME NEW es \in Seq(EdgeType), NEW n \in Nat,
           \A k \in DOMAIN es : {es[k].from, es[k].to} \subseteq 0..n - 1
    PROVE  Inside(es, n)
<1>1. SUFFICES ASSUME NEW k \in DOMAIN es PROVE es[k].from < n /\ es[k].to < n
    BY DEF Inside
<1>2. es[k].from \in 0..n - 1 /\ es[k].to \in 0..n - 1
    OBVIOUS
<1> QED
    BY <1>2

LEMMA GrowthsFit ==
    ASSUME NEW g \in Graphs, NEW m \in Growths
    PROVE  /\ m.nodes \in Seq(NodeType) /\ m.edges \in Seq(EdgeType)
           /\ Inside(m.edges, Len(g.nodes) + Len(m.nodes))
<1>1. /\ m.nodes \in Seq(NodeType) /\ m.edges \in Seq(EdgeType) /\ g.nodes \in Seq(NodeType)
      /\ \A k \in DOMAIN m.edges :
            {m.edges[k].from, m.edges[k].to} \subseteq 0..Len(g.nodes) + Len(m.nodes) - 1
    BY GraphsAssumption
<1> DEFINE es == m.edges
           n == Len(g.nodes)
           l == Len(m.nodes)
           k == n + l
<1>2. n \in Nat /\ l \in Nat
    BY <1>1, LenType
<1> HIDE DEF n, l
<1>3. k \in Nat /\ n + l - 1 = k - 1
    BY <1>2
<1> HIDE DEF k
<1>4. es \in Seq(EdgeType) /\ \A i \in DOMAIN es : {es[i].from, es[i].to} \subseteq 0..k - 1
    <2>1. \A i \in DOMAIN es : {es[i].from, es[i].to} \subseteq 0..n + l - 1
        BY <1>1 DEF n, l
    <2> QED
        BY <1>1, <1>3, <2>1
<1> HIDE DEF es
<1>5. Inside(es, k)
    BY <1>3, <1>4, EndsInside
<1> QED
    BY <1>1, <1>5 DEF es, k, n, l

LEMMA BootedIsSound ==
    ASSUME NEW g \in Graphs
    PROVE  Sound(Build(g.nodes, g.edges))
<1>1. /\ g.nodes \in Seq(NodeType) /\ g.edges \in Seq(EdgeType) /\ g.edges # <<>>
      /\ \A k \in DOMAIN g.edges : {g.edges[k].from, g.edges[k].to} \subseteq 0..Len(g.nodes) - 1
    BY GraphsAssumption
<1>2. Len(g.nodes) \in Nat
    BY <1>1
<1>3. Inside(g.edges, Len(g.nodes))
    BY <1>1, <1>2, EndsInside
<1>4. IsBuilt(Build(g.nodes, g.edges), g.nodes, g.edges)
    BY <1>1, <1>3, EdgeTypeIs, GrowthsFit DEF IsBuilt
<1> QED
    BY <1>4 DEF Sound

\* A merge keeps the nodes and the edges that a query has read.
LEMMA SwappedIsSound ==
    ASSUME NEW g, Sound(g), NEW more \in Growths
    PROVE  /\ Sound(Build(g.nodes \o more.nodes, AllEdges(g) \o more.edges))
           /\ NumNodes(g) \in Nat
           /\ NumNodes(Build(g.nodes \o more.nodes, AllEdges(g) \o more.edges)) \in Nat
           /\ NumNodes(g) <= NumNodes(Build(g.nodes \o more.nodes, AllEdges(g) \o more.edges))
           /\ \A e \in Items(AllEdges(g)) :
                 e \in Items(AllEdges(Build(g.nodes \o more.nodes, AllEdges(g) \o more.edges)))
<1>1. PICK ns, es : IsBuilt(g, ns, es)
    BY DEF Sound
<1> DEFINE E == EdgeSet(Entities, Origins)
           fs == AllEdges(g)
           ns2 == ns \o more.nodes
           es2 == fs \o more.edges
<1>2. /\ ns \in Seq(NodeType) /\ Len(ns) \in Nat /\ es \in Seq(E) /\ Inside(es, Len(ns)) /\ es # <<>>
      /\ g = Build(ns, es) /\ g.nodes = ns
      /\ \A m \in Growths : Inside(m.edges, Len(ns) + Len(m.nodes))
    <2>1. /\ ns \in Seq(NodeType) /\ es \in Seq(E) /\ Inside(es, Len(ns)) /\ es # <<>>
          /\ g = Build(ns, es)
          /\ \A m \in Growths : Inside(m.edges, Len(ns) + Len(m.nodes))
        BY <1>1 DEF IsBuilt
    <2>2. Build(ns, es).nodes = ns
        BY BuildFields
    <2>3. Len(ns) \in Nat
        BY <2>1, LenType
    <2> HIDE DEF E
    <2> QED
        BY <2>1, <2>2, <2>3
<1>3. /\ more.nodes \in Seq(NodeType) /\ more.edges \in Seq(E)
    BY GraphsAssumption, EdgeTypeIs
<1>4. /\ fs \in Seq(E) /\ Len(fs) = Len(es)
      /\ \A e : e \in Items(fs) <=> e \in Items(es)
    BY <1>2, PackingKeepsEdges, BuiltSame
<1>5. /\ ns2 \in Seq(NodeType) /\ Len(ns2) = Len(ns) + Len(more.nodes)
      /\ Len(more.nodes) \in Nat /\ Len(ns2) \in Nat
    BY <1>2, <1>3, ConcatItems
<1> HIDE DEF E, fs
<1>6. /\ es2 \in Seq(E) /\ Len(es2) = Len(fs) + Len(more.edges)
      /\ \A x : x \in Items(es2) <=> x \in Items(fs) \/ x \in Items(more.edges)
    <2> DEFINE me == more.edges
    <2>1. me \in Seq(E) /\ fs \in Seq(E)
        BY <1>3, <1>4
    <2>2. es2 = fs \o me
        OBVIOUS
    <2> HIDE DEF me, es2
    <2>3. /\ fs \o me \in Seq(E) /\ Len(fs \o me) = Len(fs) + Len(me)
          /\ \A x : x \in Items(fs \o me) <=> x \in Items(fs) \/ x \in Items(me)
        BY <2>1, ConcatItems
    <2> QED
        BY <2>2, <2>3 DEF me
<1> HIDE DEF ns2, es2
<1>7. es2 # <<>>
    <2>1. Len(es) # 0 /\ Len(es) \in Nat /\ Len(more.edges) \in Nat
        BY <1>2, <1>3, EmptySeq
    <2>2. Len(es2) # 0
        BY <1>4, <1>6, <2>1
    <2> QED
        BY <2>2
<1>8. \A e \in E : e.from \in Nat /\ e.to \in Nat
    BY DEF E, EdgeSet
<1>9. \A s \in Seq(E), n \in Nat : Inside(s, n) <=> \A e \in Items(s) : e.from < n /\ e.to < n
    BY DEF Inside, Items
<1>10. \A n \in Nat : n >= Len(ns) => Inside(fs, n)
    <2>1. SUFFICES ASSUME NEW n \in Nat, n >= Len(ns) PROVE Inside(fs, n)
        OBVIOUS
    <2>2. SUFFICES ASSUME NEW e \in Items(fs) PROVE e.from < n /\ e.to < n
        BY <1>4, <1>9
    <2>3. e \in Items(es) /\ e \in E
        BY <1>2, <1>4, ItemsOf
    <2>4. e.from < Len(ns) /\ e.to < Len(ns)
        BY <1>2, <1>9, <2>3
    <2> QED
        BY <1>2, <1>8, <2>1, <2>3, <2>4
<1>11. Inside(es2, Len(ns2))
    <2>1. Inside(fs, Len(ns2))
        BY <1>2, <1>5, <1>10
    <2>2. Inside(more.edges, Len(ns2))
        BY <1>2, <1>5
    <2> QED
        BY <1>3, <1>4, <1>5, <1>6, <1>9, <2>1, <2>2
<1>12. ASSUME NEW m \in Growths PROVE Inside(m.edges, Len(ns2) + Len(m.nodes))
    <2>1. m.nodes \in Seq(NodeType) /\ m.edges \in Seq(E)
        BY GraphsAssumption, EdgeTypeIs DEF E
    <2>2. Inside(m.edges, Len(ns) + Len(m.nodes))
        BY <1>2
    <2> DEFINE l == Len(m.nodes)
               a == Len(ns) + l
               b == Len(ns2) + l
    <2>3. l \in Nat
        BY <2>1, LenType
    <2>4. a \in Nat /\ b \in Nat /\ a <= b
        <3> HIDE DEF l
        <3> QED
            BY <1>2, <1>5, <2>3
    <2>5. Inside(m.edges, a)
        BY <2>2
    <2> HIDE DEF a, b
    <2>6. SUFFICES ASSUME NEW e \in Items(m.edges) PROVE e.from < b /\ e.to < b
        BY <1>9, <2>1, <2>4 DEF b
    <2>7. e \in E /\ e.from < a /\ e.to < a
        BY <1>9, <2>1, <2>4, <2>5, ItemsOf
    <2> QED
        BY <1>8, <2>4, <2>7
<1> DEFINE h == Build(ns2, es2)
<1>13. IsBuilt(h, ns2, es2)
    BY <1>5, <1>6, <1>7, <1>11, <1>12 DEF IsBuilt, E
<1>14. h.nodes = ns2
    BY BuildFields
<1>15. \A e : e \in Items(AllEdges(h)) <=> e \in Items(es2)
    BY <1>5, <1>6, <1>11, BuiltSame DEF E
<1>16. Build(g.nodes \o more.nodes, AllEdges(g) \o more.edges) = h
    BY <1>2 DEF ns2, es2, fs
<1> HIDE DEF h
<1>17. NumNodes(g) = Len(ns) /\ NumNodes(h) = Len(ns2)
    BY <1>2, <1>14 DEF NumNodes
<1>18. \A e \in Items(fs) : e \in Items(AllEdges(h))
    BY <1>6, <1>15
<1>19. Sound(h)
    BY <1>13 DEF Sound
<1>20. NumNodes(g) \in Nat /\ NumNodes(h) \in Nat /\ NumNodes(g) <= NumNodes(h)
    BY <1>2, <1>5, <1>17
<1> QED
    BY <1>16, <1>18, <1>19, <1>20 DEF fs

\* The relations of a context: edges of the graph between its nodes, one of each
\* pair, and none of the pair weighs more.
LEMMA EdgesAmongOf ==
    ASSUME NEW g, Sound(g), NEW ids \in SUBSET Nat
    PROVE  /\ \A r \in EdgesAmong(g, ids) :
                 \E e \in Items(AllEdges(g)) :
                    /\ e.from = r.from /\ e.to = r.to
                    /\ e.origin.weight = r.weight /\ e.origin.type = r.type
           /\ \A r \in EdgesAmong(g, ids) : r.from \in ids /\ r.to \in ids
           /\ \A r, f \in EdgesAmong(g, ids) : r.from = f.from /\ r.to = f.to => r = f
           /\ \A e \in Items(AllEdges(g)) : e.from \in ids /\ e.to \in ids =>
                 \E r \in EdgesAmong(g, ids) :
                    r.from = e.from /\ r.to = e.to /\ r.weight >= e.origin.weight
<1>1. PICK ns, es : IsBuilt(g, ns, es)
    BY DEF Sound
<1> DEFINE Rel(p) == [from |-> p[1], to |-> p[2].to, weight |-> p[2].origin.weight,
                      type |-> p[2].origin.type]
           ps == EdgesBetween(g, ids)
           rs == EdgesAmong(g, ids)
<1>2. /\ g = Build(ns, es) /\ Len(ns) \in Nat
      /\ es \in Seq(EdgeSet(Entities, Origins)) /\ Inside(es, Len(ns))
    BY <1>1 DEF IsBuilt
<1>3. \A o \in Origins : o.weight \in Nat
    BY GraphsAssumption DEF Origins
<1>4. /\ \A p \in ps : \E e \in Items(es) : /\ e.from \in ids /\ e.to \in ids
                                            /\ p = <<e.from, Targetless(e)>>
      /\ \A p, q \in ps : p[1] = q[1] /\ p[2].to = q[2].to => p = q
      /\ \A e \in Items(es) : e.from \in ids /\ e.to \in ids =>
            \E p \in ps : p[1] = e.from /\ p[2].to = e.to /\ p[2].origin.weight >= e.origin.weight
    BY <1>2, <1>3, EdgesBetweenOf
<1>5. \A e : e \in Items(AllEdges(g)) <=> e \in Items(es)
    BY <1>2, BuiltSame
<1>6. rs = {Rel(p) : p \in ps}
    BY DEF EdgesAmong
<1> HIDE DEF ps, rs
<1>7. \A p : /\ Rel(p).from = p[1] /\ Rel(p).to = p[2].to
             /\ Rel(p).weight = p[2].origin.weight /\ Rel(p).type = p[2].origin.type
    OBVIOUS
<1>8. \A r \in rs : \E p \in ps : r = Rel(p)
    BY <1>6
<1>9. \A p \in ps : Rel(p) \in rs
    BY <1>6
<1> HIDE DEF Rel
<1>10. \A e : Targetless(e).to = e.to /\ Targetless(e).origin = e.origin
    BY DEF Targetless
<1>11. ASSUME NEW r \in rs
       PROVE  \E e \in Items(es) :
                 /\ e.from \in ids /\ e.to \in ids
                 /\ e.from = r.from /\ e.to = r.to
                 /\ e.origin.weight = r.weight /\ e.origin.type = r.type
    <2>1. PICK p \in ps : r = Rel(p)
        BY <1>8
    <2>2. PICK e \in Items(es) : e.from \in ids /\ e.to \in ids /\ p = <<e.from, Targetless(e)>>
        BY <1>4
    <2>3. p[1] = e.from /\ p[2] = Targetless(e)
        BY <2>2
    <2>4. /\ r.from = p[1] /\ r.to = p[2].to
          /\ r.weight = p[2].origin.weight /\ r.type = p[2].origin.type
        BY <1>7, <2>1
    <2>5. /\ e.from = r.from /\ e.to = r.to
          /\ e.origin.weight = r.weight /\ e.origin.type = r.type
        BY ONLY <1>10, <2>3, <2>4
    <2> QED
        BY <2>2, <2>5
<1>12. ASSUME NEW r \in rs, NEW f \in rs, r.from = f.from, r.to = f.to PROVE r = f
    <2>1. PICK p \in ps : r = Rel(p)
        BY <1>8
    <2>2. PICK q \in ps : f = Rel(q)
        BY <1>8
    <2>3. p[1] = q[1] /\ p[2].to = q[2].to
        BY <1>7, <1>12, <2>1, <2>2
    <2> QED
        BY <1>4, <2>1, <2>2, <2>3
<1>13. ASSUME NEW e \in Items(es), e.from \in ids, e.to \in ids
       PROVE  \E r \in rs : r.from = e.from /\ r.to = e.to /\ r.weight >= e.origin.weight
    <2>1. PICK p \in ps : p[1] = e.from /\ p[2].to = e.to /\ p[2].origin.weight >= e.origin.weight
        BY <1>4, <1>13
    <2> QED
        BY <1>7, <1>9, <2>1
<1> QED
    BY <1>5, <1>11, <1>12, <1>13 DEF rs

(***************************************************************************)
(* The scores of a walk's nodes.                                           *)
(***************************************************************************)
LEMMA Quotient ==
    ASSUME NEW s \in Nat, NEW x \in Nat, NEW y \in Nat \ {0}
    PROVE  x \div y \in Nat /\ (x <= s * y => x \div y <= s)
OBVIOUS

LEMMA Products ==
    ASSUME NEW a \in Nat, NEW b \in Nat, NEW s \in Nat
    PROVE  a * s \in Nat /\ (a + b) * s = a * s + b * s /\ (a <= b => s * a <= s * b /\ a * s <= b * s)
OBVIOUS

LEMMA SignedProduct ==
    ASSUME NEW a \in Nat, NEW b \in Int
    PROVE  a * b \in Int
OBVIOUS

LEMMA MaxWithZero ==
    ASSUME NEW x \in Int
    PROVE  Greatest({x, 0}) \in Nat /\ (x >= 0 => Greatest({x, 0}) = x)
<1>1. \E m \in {x, 0} : \A y \in {x, 0} : y <= m
    <2>1. CASE x >= 0
        BY <2>1
    <2>2. CASE ~ (x >= 0)
        BY <2>2
    <2> QED
        BY <2>1, <2>2
<1>2. Greatest({x, 0}) \in {x, 0} /\ \A y \in {x, 0} : y <= Greatest({x, 0})
    BY <1>1 DEF Greatest
<1> DEFINE m == Greatest({x, 0})
<1>3. m \in {x, 0} /\ \A y \in {x, 0} : y <= m
    BY <1>2
<1> HIDE DEF m
<1>4. (m = x \/ m = 0) /\ x <= m /\ 0 <= m
    BY <1>3
<1>5. m \in Nat /\ (x >= 0 => m = x)
    BY <1>4
<1> QED
    BY <1>5 DEF m

\* What the arrays of a sound graph hold.
LEMMA SoundArrays ==
    ASSUME NEW g, Sound(g)
    PROVE  /\ NumNodes(g) \in Nat
           /\ Walkable(g, Weights \cup {1})
           /\ \A id \in Nat : id < NumNodes(g) =>
                 /\ g.weights[id + 1][1] \in Nat /\ g.weights[id + 1][2] \in Nat \ {0}
                 /\ g.weights[id + 1][1] <= g.weights[id + 1][2]
                 /\ g.nodes[id + 1].ent \in Entities
<1>1. PICK ns, es : IsBuilt(g, ns, es)
    BY DEF Sound
<1> DEFINE E == EdgeSet(Entities, Origins)
           L == LinkSet(Entities, Origins)
<1>2. /\ g = Build(ns, es) /\ ns \in Seq(NodeType) /\ es \in Seq(E)
      /\ Inside(es, Len(ns)) /\ es # <<>>
    BY <1>1 DEF IsBuilt
<1>3. Len(ns) \in Nat
    BY <1>2, LenType
<1>4. NumNodes(g) = Len(ns) /\ g.nodes = ns
    BY <1>2, BuildFields DEF NumNodes
<1>5. Walkable(g, Weights \cup {1})
    <2>1. ASSUME NEW id \in Nat
          PROVE  Neighbors(g, id) \in Seq(L) /\ RevNeighbors(g, id) \in Seq(Nat)
        BY <1>2, <1>3, NeighborsOf
    <2>2. \A x \in L : x.to \in Nat /\ x.origin.weight \in Weights \cup {1}
        BY DEF LinkSet, Origins
    <2> HIDE DEF L
    <2> QED
        BY <2>1, <2>2 DEF Walkable
<1>6. ASSUME NEW id \in Nat, id < NumNodes(g)
      PROVE  /\ g.weights[id + 1][1] \in Nat /\ g.weights[id + 1][2] \in Nat \ {0}
             /\ g.weights[id + 1][1] <= g.weights[id + 1][2]
             /\ g.nodes[id + 1].ent \in Entities
    <2>1. id < Len(ns)
        BY <1>4, <1>6
    <2>2. /\ g.weights[id + 1][1] \in Nat /\ g.weights[id + 1][2] \in Nat \ {0}
          /\ g.weights[id + 1][1] <= g.weights[id + 1][2]
        BY <1>2, <1>3, <2>1, WeightsAreFractions
    <2>3. id + 1 \in 1..Len(ns)
        BY <1>3, <2>1
    <2>4. g.nodes[id + 1] \in NodeType
        BY <1>2, <1>4, <2>3
    <2> QED
        BY <2>2, <2>4 DEF NodeType
<1> QED
    BY <1>3, <1>4, <1>5, <1>6

\* A query whose walk can be scored.
CanWalk(q, g) ==
    /\ Sound(g) /\ sim \in [Entities -> Int]
    /\ q.mode \in Modes /\ q.seeds \in Seq(Nat)

\* A node that was asked for scores its similarity and proximity in full; in a node
\* query no other node scores more than its proximity and weight in full.
LEMMA ScoreBounds ==
    ASSUME NEW q, NEW g, CanWalk(q, g),
           NEW f \in FoundSet(Weights \cup {1}), f.id < NumNodes(g)
    PROVE  /\ Score(q, g, f) \in Int
           /\ (q.kind = "node" \/ q.hops > 0) /\ f.id \in Items(q.seeds) /\ f.hop = 0 =>
                 Score(q, g, f) >= (q.mode.alpha + q.mode.beta) * Scale
           /\ q.kind = "node" /\ f.id \notin Items(q.seeds) /\ f.hop >= 1 /\ f.weight <= 1 =>
                 Score(q, g, f) <= q.mode.beta * Scale + q.mode.gamma * Scale
<1> DEFINE similar == Similarity(q, g, f.id)
           prox    == IF f.hop = 0 THEN Greatest({similar, 0})
                      ELSE (Scale * f.weight) \div (f.hop + 1)
           w       == g.weights[f.id + 1]
           degree  == (Scale * w[1]) \div w[2]
           a == q.mode.alpha
           b == q.mode.beta
           c == q.mode.gamma
<1>1. Score(q, g, f) = a * similar + b * prox + c * degree
    BY DEF Score
<1>2. f.id \in Nat /\ f.hop \in Nat /\ f.weight \in Nat
    <2>1. Weights \subseteq Nat
        BY GraphsAssumption
    <2>2. f.id \in Nat /\ f.hop \in Nat /\ f.weight \in Weights \cup {1}
        BY DEF FoundSet
    <2>3. \A x \in Weights \cup {1} : x \in Nat
        BY <2>1
    <2> QED
        BY <2>2, <2>3
<1>3. a \in Nat /\ b \in Nat /\ c \in Nat
    BY RetrievalAssumption DEF CanWalk
<1>4. Scale \in Nat /\ Scale # 0
    BY RetrievalAssumption
<1>5. /\ w[1] \in Nat /\ w[2] \in Nat \ {0} /\ w[1] <= w[2] /\ g.nodes[f.id + 1].ent \in Entities
    BY <1>2, SoundArrays DEF CanWalk
<1>6. similar \in Int
    <2>1. sim[g.nodes[f.id + 1].ent] \in Int
        BY <1>5 DEF CanWalk
    <2> QED
        BY <1>4, <2>1 DEF Similarity
<1>7. (q.kind = "node" \/ q.hops > 0) /\ f.id \in Items(q.seeds) => similar = Scale
    BY DEF Similarity
<1>8. q.kind = "node" /\ f.id \notin Items(q.seeds) => similar = 0
    BY DEF Similarity
<1> HIDE DEF similar, w, a, b, c
<1>9. degree \in Nat /\ degree <= Scale
    <2>1. Scale * w[1] \in Nat /\ Scale * w[1] <= Scale * w[2]
        BY <1>4, <1>5, Products
    <2> QED
        BY <1>4, <1>5, <2>1, Quotient
<1>10. prox \in Nat /\ (f.hop = 0 /\ similar = Scale => prox = Scale)
    <2>1. CASE f.hop = 0
        BY <1>4, <1>6, <2>1, MaxWithZero
    <2>2. CASE f.hop # 0
        <3>1. Scale * f.weight \in Nat /\ f.hop + 1 \in Nat \ {0}
            BY <1>2, <1>4
        <3> QED
            BY <2>2, <3>1, Quotient
    <2> QED
        BY <2>1, <2>2
<1>11. f.hop >= 1 /\ f.weight <= 1 => prox <= Scale
    <2>1. SUFFICES ASSUME f.hop >= 1, f.weight <= 1 PROVE prox <= Scale
        OBVIOUS
    <2>2. f.hop + 1 \in Nat \ {0} /\ f.weight <= f.hop + 1 /\ f.hop # 0
        BY <1>2, <2>1
    <2>3. Scale * f.weight \in Nat /\ Scale * f.weight <= Scale * (f.hop + 1)
        BY <1>2, <1>4, <2>2, Products
    <2>4. (Scale * f.weight) \div (f.hop + 1) <= Scale
        BY <1>4, <2>2, <2>3, Quotient
    <2> QED
        BY <2>2, <2>4
<1> HIDE DEF prox, degree
<1> DEFINE x == a * similar
           y == b * prox
           z == c * degree
<1>12. x \in Int /\ y \in Nat /\ z \in Nat
    BY <1>3, <1>6, <1>9, <1>10, Products, SignedProduct
<1>13. Score(q, g, f) = x + y + z
    BY <1>1
<1>14. a * Scale \in Nat /\ b * Scale \in Nat /\ c * Scale \in Nat /\ (a + b) * Scale = a * Scale + b * Scale
    BY <1>3, <1>4, Products
<1>15. z <= c * Scale
    BY <1>3, <1>4, <1>9, Products
<1>16. similar = Scale => x = a * Scale
    OBVIOUS
<1>17. prox = Scale => y = b * Scale
    OBVIOUS
<1>18. similar = 0 => x = 0
    BY <1>3
<1>19. prox <= Scale => y <= b * Scale
    BY <1>3, <1>4, <1>10, Products
<1> DEFINE sa == a * Scale
           sb == b * Scale
           sc == c * Scale
           score == Score(q, g, f)
<1> HIDE DEF x, y, z, sa, sb, sc, score
<1>20. score \in Int
    BY <1>12, <1>13 DEF score
<1>21. ASSUME q.kind = "node" \/ q.hops > 0, f.id \in Items(q.seeds), f.hop = 0
       PROVE  score >= (a + b) * Scale
    <2>1. x = sa /\ y = sb
        BY <1>7, <1>10, <1>16, <1>17, <1>21 DEF sa, sb
    <2> DEFINE ab == (a + b) * Scale
    <2>2. score = x + y + z /\ ab = sa + sb /\ sa \in Nat /\ sb \in Nat
        BY <1>13, <1>14 DEF sa, sb, score
    <2> HIDE DEF ab
    <2>a. score = sa + sb + z
        BY <2>1, <2>2
    <2>b. score >= sa + sb
        BY <1>12, <2>2, <2>a
    <2>3. score >= ab
        BY <2>2, <2>b
    <2> QED
        BY <2>3 DEF ab
<1>22. ASSUME q.kind = "node", f.id \notin Items(q.seeds), f.hop >= 1, f.weight <= 1
       PROVE  score <= b * Scale + c * Scale
    <2>1. x = 0 /\ y <= sb /\ z <= sc
        BY <1>8, <1>11, <1>15, <1>18, <1>19, <1>22 DEF sb, sc
    <2>2. score = x + y + z /\ sb \in Nat /\ sc \in Nat
        BY <1>13, <1>14 DEF sb, sc, score
    <2>3. score <= sb + sc
        BY <1>12, <2>1, <2>2
    <2> QED
        BY <2>3 DEF sb, sc
<1> QED
    BY <1>20, <1>21, <1>22 DEF score, a, b, c

(***************************************************************************)
(* What a walk offers.                                                     *)
(***************************************************************************)
\* A filter that keeps the first element of a sequence begins with it.
LEMMA KeptFirst ==
    ASSUME NEW S, NEW s \in Seq(S), NEW places, places \subseteq 1..Len(s), 1 \in places
    PROVE  Len(At(s, places)) >= 1 /\ At(s, places)[1] = s[1]
<1> DEFINE t == At(s, places)
           c == Len(t)
<1>1. t \in Seq(S) /\ IsKept(t, s, places)
    BY AtProperties
<1> HIDE DEF t
<1>2. c \in Nat
    BY <1>1, LenType
<1> HIDE DEF c
<1>3. PICK rank \in Bijection(places, 1..c) :
          /\ \A i \in places : t[rank[i]] = s[i]
          /\ \A i, j \in places : i < j <=> rank[i] < rank[j]
    BY <1>1 DEF IsKept, c
<1>4. \A i \in places : rank[i] \in 1..c
    BY DEF Bijection, Injection
<1>5. \A k \in 1..c : \E i \in places : rank[i] = k
    BY DEF Bijection, Surjection
<1>6. rank[1] \in 1..c
    BY <1>4
<1>7. 1 \in 1..c
    BY <1>2, <1>6
<1>8. PICK i \in places : rank[i] = 1
    BY <1>5, <1>7
<1>9. ~ (1 < i)
    BY <1>2, <1>3, <1>6, <1>8
<1>10. i \in 1..Len(s)
    OBVIOUS
<1>11. i = 1
    BY <1>9, <1>10
<1> QED
    BY <1>2, <1>3, <1>7, <1>8, <1>11 DEF c, t

\* The nodes of a walk that the graph has.
Found(q, g) ==
    Selected(BfsExpand(g, q.seeds, Depth, MaxFound, q.mode.bidirectional),
             LAMBDA f : f.id < NumNodes(g))

LEMMA WalkTypes ==
    ASSUME NEW q, NEW g, CanWalk(q, g)
    PROVE  LET walk == BfsExpand(g, q.seeds, Depth, MaxFound, q.mode.bidirectional)
           IN  walk \in Seq(FoundSet(Weights \cup {1})) /\ NoneTwice(walk)
                  /\ Grown(BfsSeeds(q.seeds), walk)
<1>1. NumNodes(g) \in Nat /\ Walkable(g, Weights \cup {1})
    BY SoundArrays DEF CanWalk
<1>2. q.seeds \in Seq(Nat) /\ q.mode.bidirectional \in BOOLEAN
    BY RetrievalAssumption DEF CanWalk
<1>3. Depth \in Nat /\ MaxFound \in Nat
    BY RetrievalAssumption
<1>4. 1 \in Weights \cup {1}
    OBVIOUS
<1> DEFINE W == Weights \cup {1}
           seeds == q.seeds
           bi == q.mode.bidirectional
<1> HIDE DEF W, seeds, bi
<1>5. /\ BfsExpand(g, seeds, Depth, MaxFound, bi) \in Seq(FoundSet(W))
      /\ NoneTwice(BfsExpand(g, seeds, Depth, MaxFound, bi))
      /\ Grown(BfsSeeds(seeds), BfsExpand(g, seeds, Depth, MaxFound, bi))
    BY <1>1, <1>2, <1>3, <1>4, BfsFindsSeeds DEF W, seeds, bi
<1> QED
    BY <1>5 DEF W, seeds, bi

LEMMA FoundProperties ==
    ASSUME NEW q, NEW g, CanWalk(q, g)
    PROVE  /\ Found(q, g) \in Seq(FoundSet(Weights \cup {1})) /\ NoneTwice(Found(q, g))
           /\ \A f \in Items(Found(q, g)) : f.id < NumNodes(g)
           /\ \A s \in Items(q.seeds) : s < NumNodes(g) =>
                 \E f \in Items(Found(q, g)) : f.id = s /\ f.hop = 0
<1> DEFINE walk == BfsExpand(g, q.seeds, Depth, MaxFound, q.mode.bidirectional)
           places == {i \in DOMAIN walk : walk[i].id < NumNodes(g)}
           F == FoundSet(Weights \cup {1})
           base == BfsSeeds(q.seeds)
           found == Found(q, g)
<1>1. walk \in Seq(F) /\ NoneTwice(walk) /\ Grown(base, walk)
    BY WalkTypes
<1>2. found = At(walk, places)
    BY DEF Found, Selected
<1> HIDE DEF walk, F, found
<1>3. DOMAIN walk = 1..Len(walk) /\ Len(walk) \in Nat /\ places \subseteq 1..Len(walk)
    BY <1>1
<1>4. \A i \in places : walk[i].id < NumNodes(g)
    OBVIOUS
<1>5. \A i \in 1..Len(walk) : walk[i].id < NumNodes(g) => i \in places
    BY <1>3
<1> HIDE DEF places
<1>6. found \in Seq(F) /\ NoneTwice(found) /\ Items(found) = {walk[i] : i \in places}
    BY <1>1, <1>2, <1>3, AtProperties, AtItems, KeptDistinct
<1>7. ASSUME NEW s \in Items(q.seeds), s < NumNodes(g)
      PROVE  \E f \in Items(found) : f.id = s /\ f.hop = 0
    <2>1. /\ base \in Seq(FoundSet({1})) /\ \A k \in DOMAIN base : base[k].hop = 0
          /\ \A x \in Items(q.seeds) : \E k \in DOMAIN base : base[k].id = x
        BY SeedsFound DEF CanWalk
    <2> HIDE DEF base
    <2>2. PICK k \in DOMAIN base : base[k].id = s
        BY <2>1
    <2>3. base[k].hop = 0 /\ k \in 1..Len(base) /\ Len(base) \in Nat
        BY <2>1
    <2>4. walk[k] = base[k] /\ k \in 1..Len(walk)
        BY <1>1, <1>3, <2>3 DEF Grown
    <2>5. k \in places
        BY <1>5, <1>7, <2>2, <2>4
    <2>6. walk[k] \in Items(found)
        BY <1>6, <2>5
    <2> QED
        BY <2>2, <2>3, <2>4, <2>6
<1>8. \A f \in Items(found) : f.id < NumNodes(g)
    BY <1>4, <1>6
<1> QED
    BY <1>6, <1>7, <1>8 DEF F, found

\* In the walk of a node query the node comes first, and whatever else it finds is
\* another node, a hop away or more.
LEMMA FoundFirst ==
    ASSUME NEW q, NEW g, CanWalk(q, g), NEW s \in Nat, q.seeds = <<s>>, s < NumNodes(g)
    PROVE  /\ 1 \in DOMAIN Found(q, g) /\ Found(q, g)[1].id = s /\ Found(q, g)[1].hop = 0
           /\ \A k \in DOMAIN Found(q, g) : k # 1 => Found(q, g)[k].id # s /\ Found(q, g)[k].hop >= 1
<1> DEFINE walk == BfsExpand(g, q.seeds, Depth, MaxFound, q.mode.bidirectional)
           places == {i \in DOMAIN walk : walk[i].id < NumNodes(g)}
           F == FoundSet(Weights \cup {1})
           base == BfsSeeds(q.seeds)
           found == Found(q, g)
<1>1. walk \in Seq(F) /\ NoneTwice(walk) /\ Grown(base, walk)
    BY WalkTypes
<1>2. found = At(walk, places)
    BY DEF Found, Selected
<1>3. /\ base \in Seq(FoundSet({1})) /\ NoneTwice(base)
      /\ \A k \in DOMAIN base : base[k].hop = 0 /\ base[k].id \in Items(q.seeds)
      /\ \E k \in DOMAIN base : TRUE
    <2>1. q.seeds \in Seq(Nat) /\ s \in Items(q.seeds)
        BY DEF CanWalk, Items
    <2> QED
        BY <2>1, SeedsFound
<1>4. Items(q.seeds) = {s}
    BY DEF Items
<1> HIDE DEF walk, F, found, base
<1>5. Len(base) \in Nat /\ DOMAIN base = 1..Len(base) /\ \A k \in 1..Len(base) : base[k].id = s
    BY <1>3, <1>4
<1>6. Len(base) = 1
    <2>1. Len(base) >= 1
        BY <1>3, <1>5
    <2>2. \A k \in 1..Len(base) : k = 1
        BY <1>3, <1>5, <2>1 DEF NoneTwice
    <2>3. Len(base) \in 1..Len(base)
        BY <1>5, <2>1
    <2> QED
        BY <2>2, <2>3
<1>7. DOMAIN walk = 1..Len(walk) /\ Len(walk) \in Nat /\ places \subseteq 1..Len(walk)
    BY <1>1
<1>8. 1 \in 1..Len(walk) /\ walk[1].id = s /\ walk[1].hop = 0
    <2>1. 1 \in 1..Len(base) /\ Len(base) <= Len(walk) /\ walk[1] = base[1]
        BY <1>1, <1>6 DEF Grown
    <2> QED
        BY <1>3, <1>5, <1>7, <2>1
<1>9. \A k \in 1..Len(walk) : k # 1 => walk[k].id # s /\ walk[k].hop >= 1
    <2>1. SUFFICES ASSUME NEW k \in 1..Len(walk), k # 1 PROVE walk[k].id # s /\ walk[k].hop >= 1
        OBVIOUS
    <2>2. k > Len(base)
        BY <1>6, <2>1
    <2>3. walk[k].hop >= 1
        BY <1>1, <2>1, <2>2 DEF Grown
    <2>4. walk[k].id # walk[1].id
        BY <1>1, <1>7, <1>8, <2>1 DEF NoneTwice
    <2> QED
        BY <1>8, <2>3, <2>4
<1>10. 1 \in places
    BY <1>7, <1>8
<1> HIDE DEF places
<1>11. found \in Seq(F) /\ NoneTwice(found) /\ Items(found) = {walk[i] : i \in places}
    BY <1>1, <1>2, <1>7, AtProperties, AtItems, KeptDistinct
<1>12. Len(found) >= 1 /\ found[1] = walk[1] /\ DOMAIN found = 1..Len(found) /\ Len(found) \in Nat
    <2>1. Len(found) >= 1 /\ found[1] = walk[1]
        BY <1>1, <1>2, <1>7, <1>10, KeptFirst
    <2> QED
        BY <1>11, <2>1
<1>13. 1 \in DOMAIN found /\ found[1].id = s /\ found[1].hop = 0
    BY <1>8, <1>12
<1>14. ASSUME NEW k \in DOMAIN found, k # 1 PROVE found[k].id # s /\ found[k].hop >= 1
    <2>1. found[k].id # s
        BY <1>11, <1>13, <1>14 DEF NoneTwice
    <2>2. found[k] \in Items(found)
        BY DEF Items
    <2>3. PICK i \in places : found[k] = walk[i]
        BY <1>11, <2>2
    <2>4. i # 1 /\ i \in 1..Len(walk)
        BY <1>7, <1>8, <2>1, <2>3
    <2> QED
        BY <1>9, <2>1, <2>3, <2>4
<1> QED
    BY <1>13, <1>14 DEF found

LEMMA ScoredIs ==
    ASSUME NEW q, NEW g, CanWalk(q, g)
    PROVE  /\ Scored(q, g) \in Seq(Weighed) /\ DOMAIN Scored(q, g) = DOMAIN Found(q, g)
           /\ \A k \in DOMAIN Found(q, g) :
                 /\ Found(q, g)[k] \in FoundSet(Weights \cup {1}) /\ Found(q, g)[k].id < NumNodes(g)
                 /\ Scored(q, g)[k].id = Found(q, g)[k].id
                 /\ Scored(q, g)[k].weight = Score(q, g, Found(q, g)[k])
           /\ NoneTwice(Scored(q, g))
<1> DEFINE found == Found(q, g)
           t == [k \in DOMAIN found |-> [id |-> found[k].id, weight |-> Score(q, g, found[k])]]
           n == Len(found)
           F == FoundSet(Weights \cup {1})
<1>1. Scored(q, g) = t
    BY DEF Scored, Found
<1>2. found \in Seq(F) /\ NoneTwice(found) /\ \A f \in Items(found) : f.id < NumNodes(g)
    BY FoundProperties
<1> HIDE DEF found
<1>3. n \in Nat /\ DOMAIN found = 1..n /\ \A k \in 1..n : found[k] \in F /\ found[k] \in Items(found)
    BY <1>2, ItemsOf
<1> HIDE DEF n
<1>4. \A k \in 1..n : found[k].id \in Nat /\ found[k].id < NumNodes(g)
    BY <1>2, <1>3 DEF FoundSet
<1>5. \A k \in 1..n : Score(q, g, found[k]) \in Int
    BY <1>3, <1>4, ScoreBounds DEF F
<1> HIDE DEF F
<1>6. t \in [1..n -> Weighed]
    BY <1>3, <1>4, <1>5 DEF Weighed
<1>7. \A k \in 1..n : t[k].id = found[k].id /\ t[k].weight = Score(q, g, found[k])
    BY <1>3
<1> HIDE DEF t
<1>8. t \in Seq(Weighed) /\ DOMAIN t = 1..n
    BY <1>3, <1>6, DefinedSeq
<1>9. NoneTwice(t)
    BY <1>2, <1>3, <1>7, <1>8 DEF NoneTwice
<1> QED
    BY <1>1, <1>3, <1>4, <1>7, <1>8, <1>9 DEF found, F

LEMMA OfferedProperties ==
    ASSUME NEW q, NEW g, CanWalk(q, g)
    PROVE  /\ Offered(q, g) \in Seq(Weighed) /\ NoneTwice(Offered(q, g))
           /\ \A x \in Items(Offered(q, g)) : x.id < NumNodes(g)
           /\ q.hops > 0 => \A s \in Items(q.seeds) : s < NumNodes(g) => s \in IdsOf(Offered(q, g))
<1> DEFINE scored == Scored(q, g)
           ranked == Ranked(scored)
           least == IF q.kind = "node" THEN 0 ELSE MinScore
           places == {i \in DOMAIN ranked : least > 0 => ranked[i].weight >= least}
           t == Offered(q, g)
<1>1. /\ scored \in Seq(Weighed) /\ NoneTwice(scored) /\ DOMAIN scored = DOMAIN Found(q, g)
      /\ \A k \in DOMAIN Found(q, g) :
            /\ Found(q, g)[k] \in FoundSet(Weights \cup {1}) /\ Found(q, g)[k].id < NumNodes(g)
            /\ scored[k].id = Found(q, g)[k].id
            /\ scored[k].weight = Score(q, g, Found(q, g)[k])
    BY ScoredIs
<1>2. t = At(ranked, places)
    BY DEF Offered, Selected
<1> HIDE DEF scored
<1>3. ranked \in Seq(Weighed) /\ NoneTwice(ranked) /\ Items(ranked) = Items(scored)
    BY <1>1, RankedProperties
<1>4. \A i \in DOMAIN ranked : (least > 0 => ranked[i].weight >= least) => i \in places
    OBVIOUS
<1> HIDE DEF ranked, t
<1>5. DOMAIN ranked = 1..Len(ranked) /\ places \subseteq 1..Len(ranked)
    BY <1>3
<1> HIDE DEF places
<1>6. t \in Seq(Weighed) /\ NoneTwice(t) /\ Items(t) = {ranked[i] : i \in places}
    BY <1>2, <1>3, <1>5, AtProperties, AtItems, KeptDistinct
<1>7. Items(t) \subseteq Items(scored)
    BY <1>3, <1>5, <1>6 DEF Items
<1>8. \A x \in Items(t) : x.id < NumNodes(g)
    BY <1>1, <1>7 DEF Items
<1>9. ASSUME q.hops > 0, NEW s \in Items(q.seeds), s < NumNodes(g) PROVE s \in IdsOf(t)
    <2>1. PICK f \in Items(Found(q, g)) : f.id = s /\ f.hop = 0
        BY <1>9, FoundProperties
    <2>2. PICK k \in DOMAIN Found(q, g) : f = Found(q, g)[k]
        BY DEF Items
    <2>3. scored[k].id = s /\ scored[k].weight = Score(q, g, f) /\ scored[k] \in Items(scored)
        BY <1>1, <2>1, <2>2 DEF Items
    <2>4. f \in FoundSet(Weights \cup {1}) /\ f.id < NumNodes(g)
        BY <1>1, <2>2
    <2>5. Score(q, g, f) \in Int /\ Score(q, g, f) >= (q.mode.alpha + q.mode.beta) * Scale
        BY <1>9, <2>1, <2>4, ScoreBounds
    <2>6. MinScore \in Nat /\ MinScore <= (q.mode.alpha + q.mode.beta) * Scale
        BY RetrievalAssumption DEF CanWalk
    <2>7. (q.mode.alpha + q.mode.beta) * Scale \in Nat
        <3>1. q.mode.alpha \in Nat /\ q.mode.beta \in Nat /\ Scale \in Nat
            BY RetrievalAssumption DEF CanWalk
        <3>2. q.mode.alpha + q.mode.beta \in Nat
            BY <3>1
        <3> QED
            BY <3>1, <3>2, Products
    <2> DEFINE ab == (q.mode.alpha + q.mode.beta) * Scale
    <2>8. scored[k].weight >= least
        <3>1. scored[k].weight \in Int /\ scored[k].weight >= ab
            BY <2>3, <2>5
        <3>2. MinScore <= ab /\ ab \in Nat
            BY <2>6, <2>7
        <3> HIDE DEF ab
        <3> QED
            BY <2>6, <3>1, <3>2
    <2>9. PICK i \in DOMAIN ranked : ranked[i] = scored[k]
        BY <1>3, <2>3 DEF Items
    <2>10. i \in places
        BY <1>4, <2>8, <2>9
    <2>11. scored[k] \in Items(t)
        BY <1>6, <2>9, <2>10
    <2> QED
        BY <2>3, <2>11 DEF IdsOf, Items
<1> QED
    BY <1>6, <1>8, <1>9 DEF t

\* With edges of weight 1 at most, and degree counting no more than similarity, the
\* node that a node query asks for is the first it is offered.
LEMMA NodeOfferedFirst ==
    ASSUME NEW q, NEW g, CanWalk(q, g), NEW s \in Nat, q.seeds = <<s>>, s < NumNodes(g),
           q.kind = "node", Weights \subseteq {0, 1}, q.mode.gamma <= q.mode.alpha
    PROVE  1 \in DOMAIN Offered(q, g) /\ Offered(q, g)[1].id = s
<1> DEFINE scored == Scored(q, g)
           ranked == Ranked(scored)
           places == {i \in DOMAIN ranked : 0 > 0 => ranked[i].weight >= 0}
           t == Offered(q, g)
           found == Found(q, g)
           a == q.mode.alpha * Scale
           b == q.mode.beta * Scale
           c == q.mode.gamma * Scale
           n == Len(scored)
<1>1. /\ scored \in Seq(Weighed) /\ DOMAIN scored = DOMAIN found
      /\ \A k \in DOMAIN found :
            /\ found[k] \in FoundSet(Weights \cup {1}) /\ found[k].id < NumNodes(g)
            /\ scored[k].id = found[k].id
            /\ scored[k].weight = Score(q, g, found[k])
    BY ONLY CanWalk(q, g), ScoredIs
<1>2. /\ 1 \in DOMAIN found /\ found[1].id = s /\ found[1].hop = 0
      /\ \A k \in DOMAIN found : k # 1 => found[k].id # s /\ found[k].hop >= 1
    BY FoundFirst
<1>3. t = At(ranked, places)
    BY DEF Offered, Selected
<1> HIDE DEF scored, found, t
<1>4. Items(q.seeds) = {s}
    BY DEF Items
<1>5. a \in Nat /\ b \in Nat /\ c \in Nat /\ c <= a /\ (q.mode.alpha + q.mode.beta) * Scale = a + b
    <2>1. q.mode.alpha \in Nat /\ q.mode.beta \in Nat /\ q.mode.gamma \in Nat /\ Scale \in Nat
        BY RetrievalAssumption DEF CanWalk
    <2> QED
        BY <2>1, Products
<1> HIDE DEF a, b, c
<1>6. Score(q, g, found[1]) \in Int /\ Score(q, g, found[1]) >= a + b
    <2> DEFINE f == found[1]
    <2>1. /\ f \in FoundSet(Weights \cup {1}) /\ f.id < NumNodes(g)
          /\ f.id \in Items(q.seeds) /\ f.hop = 0
        BY <1>1, <1>2, <1>4
    <2> HIDE DEF f
    <2>2. Score(q, g, f) \in Int /\ Score(q, g, f) >= (q.mode.alpha + q.mode.beta) * Scale
        BY <2>1, ScoreBounds
    <2> QED
        BY <1>5, <2>2 DEF f
<1>7. ASSUME NEW k \in DOMAIN found, k # 1
      PROVE  Score(q, g, found[k]) \in Int /\ Score(q, g, found[k]) <= b + c
    <2>1. found[k] \in FoundSet(Weights \cup {1}) /\ found[k].id < NumNodes(g)
        BY <1>1
    <2>2. found[k].weight <= 1
        <3>1. found[k].weight \in Weights \cup {1}
            BY <2>1 DEF FoundSet
        <3>2. \A w \in Weights \cup {1} : w \in {0, 1}
            OBVIOUS
        <3> DEFINE w == found[k].weight
        <3>3. w \in {0, 1}
            BY <3>1, <3>2
        <3> HIDE DEF w
        <3>4. w <= 1
            BY <3>3
        <3> QED
            BY <3>4 DEF w
    <2>3. found[k].id \notin Items(q.seeds) /\ found[k].hop >= 1
        BY <1>2, <1>4, <1>7
    <2> QED
        BY <2>1, <2>2, <2>3, ScoreBounds DEF b, c
<1>8. n \in Nat /\ DOMAIN scored = 1..n
    BY <1>1
<1> HIDE DEF n
<1>9. ASSUME NEW k \in 1..n, k # 1 PROVE Earlier(scored, 1, k)
    <2> DEFINE x == scored[1].weight
               y == scored[k].weight
    <2>1. x \in Int /\ x >= a + b /\ y \in Int /\ y <= b + c
        BY <1>1, <1>2, <1>6, <1>7, <1>8, <1>9
    <2> HIDE DEF x, y
    <2>2. x >= y
        BY <1>5, <2>1
    <2>3. x > y \/ (x = y /\ 1 < k)
        BY <1>8, <1>9, <2>1, <2>2
    <2> QED
        BY <2>3 DEF Earlier, x, y
<1>10. 1 \in 1..n
    BY <1>1, <1>2, <1>8
<1>11. ranked[1] = scored[1] /\ ranked \in Seq(Weighed) /\ Len(ranked) = n
    <2>1. /\ ranked \in Seq(Weighed) /\ Len(ranked) = Len(scored)
          /\ \A m \in 1..Len(scored) :
                (\A j \in 1..Len(scored) : j # m => Earlier(scored, m, j)) => ranked[1] = scored[m]
        BY <1>1, RankedProperties
    <2> HIDE DEF ranked
    <2> QED
        BY <1>9, <1>10, <2>1 DEF n
<1> HIDE DEF ranked
<1>12. DOMAIN ranked = 1..n
    BY <1>8, <1>11
<1>13. places = 1..n
    BY <1>12
<1> HIDE DEF places
<1>14. t \in Seq(Weighed) /\ Len(t) >= 1 /\ t[1] = ranked[1]
    BY <1>3, <1>10, <1>11, <1>13, AtProperties, KeptFirst
<1>15. 1 \in DOMAIN t
    BY <1>14
<1> QED
    BY <1>1, <1>2, <1>11, <1>14, <1>15 DEF t

(***************************************************************************)
(* What a walk starts from.                                                *)
(***************************************************************************)
\* merge_seeds adds ends of edges to the nodes that a search hit.
LEMMA MergedSeeds ==
    ASSUME NEW R, NEW hits \in Seq(R), NEW E, NEW edgeHits \in Seq(E),
           \A e \in E : e.from \in R /\ e.to \in R
    PROVE  MergeSeeds(hits, edgeHits) \in Seq(R)
<1> DEFINE n == Len(edgeHits)
           S == Seq(R)
           Insert(seeds, id) == IF id \in Items(seeds) THEN seeds ELSE Append(seeds, id)
           Both(seeds, e) == Insert(Insert(seeds, e.from), e.to)
           step == [p \in S \X (1..n) |-> Both(p[1], edgeHits[p[2]])]
           Step(f) == [i \in 0..n |-> IF i = 0 THEN hits ELSE Both(f[i - 1], edgeHits[i])]
           f == CHOOSE f : f = Step(f)
<1>1. n \in Nat /\ \A i \in 1..n : edgeHits[i] \in E
    OBVIOUS
<1>2. MergeSeeds(hits, edgeHits) = f[n]
    BY DEF MergeSeeds, Folded
<1> HIDE DEF n
<1>3. ASSUME NEW seeds \in S, NEW id \in R PROVE Insert(seeds, id) \in S
    BY AppendOf
<1> HIDE DEF Insert, S
<1>4. ASSUME NEW seeds \in S, NEW i \in 1..n PROVE Both(seeds, edgeHits[i]) \in S
    <2>1. edgeHits[i].from \in R /\ edgeHits[i].to \in R
        BY <1>1
    <2>2. Insert(seeds, edgeHits[i].from) \in S
        BY <1>3, <2>1
    <2> QED
        BY <1>3, <2>1, <2>2
<1>5. hits \in S
    BY DEF S
<1> HIDE DEF Both
<1>6. step \in [S \X (1..n) -> S] /\ \A a \in S, i \in 1..n : step[a, i] = Both(a, edgeHits[i])
    BY <1>4
<1> HIDE DEF step
<1>7. \E h : h = Step(h)
    <2>1. PICK h : Stepwise(h, n, S, hits, step)
        BY <1>1, <1>5, <1>6, StepwiseExists
    <2>2. h \in [0..n -> S] /\ h[0] = hits /\ \A i \in 1..n : h[i] = step[h[i - 1], i]
        BY <2>1 DEF Stepwise
    <2>3. ASSUME NEW i \in 0..n PROVE h[i] = IF i = 0 THEN hits ELSE Both(h[i - 1], edgeHits[i])
        <3>1. CASE i = 0
            BY <2>2, <3>1
        <3>2. CASE i # 0
            <4>1. i \in 1..n /\ i - 1 \in 0..n
                BY <1>1, <3>2
            <4>2. h[i - 1] \in S
                BY <2>2, <4>1
            <4> QED
                BY <1>6, <2>2, <3>2, <4>1, <4>2
        <3> QED
            BY <3>1, <3>2
    <2>4. h = [i \in 0..n |-> h[i]]
        BY <2>2
    <2>5. h = Step(h)
        BY <2>3, <2>4
    <2> QED
        BY <2>5
<1>8. f = Step(f)
    BY <1>7
<1> HIDE DEF f
<1>9. f[0] = hits /\ \A i \in 1..n : f[i] = Both(f[i - 1], edgeHits[i])
    <2>1. \A i \in 0..n : f[i] = IF i = 0 THEN hits ELSE Both(f[i - 1], edgeHits[i])
        BY <1>8
    <2>2. 0 \in 0..n /\ \A i \in 1..n : i \in 0..n /\ i # 0
        BY <1>1
    <2> QED
        BY <2>1, <2>2
<1> DEFINE T == {i \in 0..n : f[i] \in S}
<1>10. 0 \in T
    BY <1>1, <1>5, <1>9
<1>11. ASSUME NEW i \in 1..n, i - 1 \in T PROVE i \in T
    BY <1>1, <1>4, <1>9, <1>11
<1>12. f[n] \in S
    <2> HIDE DEF T
    <2>1. \A i \in 0..n : i \in T
        BY <1>1, <1>10, <1>11, UpTo
    <2>2. n \in T
        BY <1>1, <2>1
    <2> QED
        BY <2>2 DEF T
<1> QED
    BY <1>2, <1>12 DEF S

\* The ids of a graph's nodes.
IdSet(g) == {x \in Nat : x < NumNodes(g)}

LEMMA FewNodesType ==
    ASSUME NumNodes(graph) \in Nat, NEW n, NEW seeds \in FewNodes(n)
    PROVE  seeds \in Seq(IdSet(graph))
<1>1. PICK S \in SUBSET (0..NumNodes(graph) - 1) : seeds \in Seqs!SetToSeqs(S)
    BY DEF FewNodes
<1>2. seeds \in [1..Cardinality(S) -> S]
    BY <1>1 DEF Seqs!SetToSeqs, Seqs!Cardinality, Cardinality
<1>3. Cardinality(S) \in Nat
    <2>1. IsFiniteSet(0..NumNodes(graph) - 1)
        BY FS_Interval
    <2>2. IsFiniteSet(S)
        BY <2>1, FS_Subset
    <2> QED
        BY <2>2, FS_CardinalityType
<1>4. S \subseteq IdSet(graph)
    BY DEF IdSet
<1>5. seeds \in [1..Cardinality(S) -> IdSet(graph)]
    BY <1>2, <1>4
<1> QED
    BY <1>3, <1>5, DefinedSeq

LEMMA SearchSeeds ==
    ASSUME Sound(graph), NEW hits \in FewNodes(HnswK),
           NEW edgeHits \in {<<>>} \cup {<<e>> : e \in Items(AllEdges(graph))}
    PROVE  MergeSeeds(hits, edgeHits) \in Seq(IdSet(graph))
<1> DEFINE E == Items(AllEdges(graph))
<1>1. PICK ns, es : IsBuilt(graph, ns, es)
    BY DEF Sound
<1>2. /\ graph = Build(ns, es) /\ ns \in Seq(NodeType) /\ es \in Seq(EdgeSet(Entities, Origins))
      /\ Inside(es, Len(ns)) /\ NumNodes(graph) = Len(ns)
    BY <1>1, BuildFields DEF IsBuilt, NumNodes
<1>3. Len(ns) \in Nat
    BY <1>2, LenType
<1>4. ASSUME NEW e \in E PROVE e.from \in IdSet(graph) /\ e.to \in IdSet(graph)
    <2>1. e \in Items(es)
        BY <1>2, <1>3, BuiltSame
    <2>2. e \in EdgeSet(Entities, Origins) /\ e.from < Len(ns) /\ e.to < Len(ns)
        BY <1>2, <2>1, ItemsOf DEF Inside
    <2> QED
        BY <1>2, <2>2 DEF EdgeSet, IdSet
<1>5. edgeHits \in Seq(E)
    <2>1. CASE edgeHits = <<>>
        BY <2>1
    <2>2. CASE edgeHits \in {<<e>> : e \in E}
        <3>1. PICK e \in E : edgeHits = <<e>>
            BY <2>2
        <3> HIDE DEF E
        <3> QED
            BY <3>1
    <2> QED
        BY <2>1, <2>2
<1>6. hits \in Seq(IdSet(graph))
    BY <1>2, <1>3, FewNodesType
<1> HIDE DEF E
<1> QED
    BY <1>4, <1>5, <1>6, MergedSeeds


-----------------------------------------------------------------------------
(***************************************************************************)
(* The inductive invariant of Retrieval, part by part.  The parts take the *)
(* query and the graph they are about, so that a step is a lemma about a   *)
(* query before it and one after it.                                       *)
(***************************************************************************)
Fields == {"kind", "mode", "phase", "seeds", "nodes", "edges", "hops", "answer",
           "offered", "readAt"}

\* A query is for something the graph has, now and after any merge.
AsksInGraph(q, g) ==
    /\ DOMAIN q = Fields
    /\ q.kind \in {"text", "multihop", "node"} /\ q.mode \in Modes
    /\ q.hops \in 0..MaxHops /\ q.seeds \in Seq(IdSet(g))

\* The context is a few nodes of the graph, each once.
IsContext(nodes, g) ==
    /\ nodes \in Seq(Weighed) /\ NoneTwice(nodes) /\ Len(nodes) <= TopN
    /\ \A x \in Items(nodes) : x.id < NumNodes(g)

\* Of a pair of nodes the context has one edge, which the graph has too.
EdgesTrue(edges, g) ==
    \A r \in edges : \E e \in Items(AllEdges(g)) :
        /\ e.from = r.from /\ e.to = r.to
        /\ e.origin.weight = r.weight /\ e.origin.type = r.type

OnePerPair(edges) == \A e, f \in edges : e.from = f.from /\ e.to = f.to => e = f

OffersHeld(offered, nodes) ==
    \A o \in offered : o.weight \in Int /\ (o.brought => Held(o, nodes))

\* What the first walk read is what there is, until a merge.
ReadComplete(q, g, m) ==
    /\ q.readAt \in Nat /\ q.readAt <= m
    /\ q.phase \in {"reason", "generate", "done"} /\ q.hops = 0 /\ q.readAt = m =>
          q.edges = EdgesAmong(g, IdsOf(q.nodes))

NamedSeen(q) ==
    q.phase = "reason" /\ q.hops > 0 =>
        Items(q.seeds) \subseteq IdsOf(q.nodes) \/ Len(q.nodes) = TopN

\* The edges an instance may meet have weight 1 at most, and in no mode does a node's
\* degree count more than its similarity: so the modes of the source
\* (query.rs:28-31).
LightEdges == Weights \subseteq {0, 1} /\ \A m \in Modes : m.gamma <= m.alpha

NodeFirst(q) ==
    q.kind = "node" =>
        /\ q.phase \in {"retrieve", "done"} /\ q.hops = 0
        /\ \E s \in Nat : q.seeds = <<s>>
        /\ LightEdges /\ q.phase = "done" => q.nodes # <<>> /\ q.nodes[1].id = q.seeds[1]

QueryInv(q, g, m) ==
    /\ AsksInGraph(q, g) /\ IsContext(q.nodes, g)
    /\ EdgesTrue(q.edges, g) /\ OnePerPair(q.edges)
    /\ OffersHeld(q.offered, q.nodes) /\ ReadComplete(q, g, m)
    /\ NamedSeen(q) /\ NodeFirst(q)

RetrievalInv ==
    /\ Sound(graph) /\ sim \in [Entities -> Int] /\ merges \in 0..MaxMerges
    /\ QueryInv(query, graph, merges)

-----------------------------------------------------------------------------
(***************************************************************************)
(* What a walk offers, and what of it a context holds.                     *)
(***************************************************************************)
\* A query that the graph can be asked can be walked.
LEMMA AsksWalks ==
    ASSUME Sound(graph), sim \in [Entities -> Int], NEW q, AsksInGraph(q, graph)
    PROVE  /\ CanWalk(q, graph) /\ NumNodes(graph) \in Nat /\ TopN \in Nat
           /\ \A s \in Items(q.seeds) : s \in Nat /\ s < NumNodes(graph)
<1>1. q.seeds \in Seq(IdSet(graph)) /\ q.mode \in Modes
    BY DEF AsksInGraph
<1>2. q.seeds \in Seq(Nat)
    BY <1>1 DEF IdSet
<1>3. \A s \in Items(q.seeds) : s \in IdSet(graph)
    BY <1>1, ItemsOf
<1>4. NumNodes(graph) \in Nat
    BY SoundArrays
<1>5. TopN \in Nat
    BY RetrievalAssumption
<1> QED
    BY <1>1, <1>2, <1>3, <1>4, <1>5 DEF CanWalk, IdSet

\* The best that a walk offers: a context, and all its offers are held where its
\* nodes are held.
LEMMA CutOffered ==
    ASSUME Sound(graph), sim \in [Entities -> Int], NEW q, AsksInGraph(q, graph)
    PROVE  /\ IsContext(Cut(Offered(q, graph)), graph)
           /\ IdsOf(Cut(Offered(q, graph))) \in SUBSET Nat
           /\ q.hops > 0 => \/ Items(q.seeds) \subseteq IdsOf(Cut(Offered(q, graph)))
                            \/ Len(Cut(Offered(q, graph))) = TopN
<1> DEFINE all == Offered(q, graph)
           some == Cut(all)
<1>1. /\ CanWalk(q, graph) /\ TopN \in Nat
      /\ \A s \in Items(q.seeds) : s \in Nat /\ s < NumNodes(graph)
    BY AsksWalks
<1>2. /\ all \in Seq(Weighed) /\ NoneTwice(all)
      /\ \A x \in Items(all) : x.id < NumNodes(graph)
      /\ q.hops > 0 => \A s \in Items(q.seeds) : s < NumNodes(graph) => s \in IdsOf(all)
    BY <1>1, OfferedProperties
<1> HIDE DEF all
<1>3. /\ some \in Seq(Weighed)
      /\ Len(some) = IF Len(all) < TopN THEN Len(all) ELSE TopN
      /\ Items(some) \subseteq Items(all)
      /\ Len(all) <= TopN => Items(some) = Items(all)
      /\ NoneTwice(all) => NoneTwice(some)
    BY <1>1, <1>2, CutProperties
<1> HIDE DEF some
<1>4. Len(all) \in Nat
    BY <1>2
<1>5. Len(some) <= TopN /\ (Len(all) > TopN => Len(some) = TopN)
    BY <1>1, <1>3, <1>4
<1>6. IsContext(some, graph)
    BY <1>2, <1>3, <1>5 DEF IsContext
<1>7. IdsOf(some) \in SUBSET Nat
    <2>1. \A k \in DOMAIN some : some[k] \in Weighed
        BY <1>3, ItemsOf
    <2> QED
        BY <2>1 DEF IdsOf, Weighed
<1>8. ASSUME q.hops > 0
      PROVE  Items(q.seeds) \subseteq IdsOf(some) \/ Len(some) = TopN
    <2>1. CASE Len(all) > TopN
        BY <1>5, <2>1
    <2>2. CASE Len(all) <= TopN
        <3>1. IdsOf(some) = IdsOf(all)
            BY <1>3, <2>2, IdsOfItems
        <3> QED
            BY <1>1, <1>2, <1>8, <3>1
    <2> QED
        BY <1>1, <1>4, <2>1, <2>2
<1> QED
    BY <1>6, <1>7, <1>8 DEF some, all

\* Of what a walk offers, all that it brings to the context is among its best.
LEMMA OffersOf ==
    ASSUME Sound(graph), sim \in [Entities -> Int], NEW q, AsksInGraph(q, graph),
           NEW o \in Offers(q, Offered(q, graph))
    PROVE  /\ o.weight \in Int
           /\ o.brought => \E x \in Items(Cut(Offered(q, graph))) :
                              x.id = o.id /\ x.weight = o.weight /\ x.id \notin IdsOf(q.nodes)
<1> DEFINE all == Offered(q, graph)
           some == Cut(all)
<1>1. all \in Seq(Weighed)
    BY AsksWalks, OfferedProperties
<1>2. PICK n \in Items(all) :
          o = [id |-> n.id, weight |-> n.weight,
               brought |-> n \in Items(some) /\ n.id \notin IdsOf(q.nodes)]
    BY DEF Offers
<1>3. n \in Weighed
    BY <1>1, ItemsOf
<1> HIDE DEF some, all
<1>4. o.id = n.id /\ o.weight = n.weight
      /\ (o.brought <=> n \in Items(some) /\ n.id \notin IdsOf(q.nodes))
    BY <1>2
<1>5. o.weight \in Int
    BY <1>3, <1>4 DEF Weighed
<1>6. o.brought => \E x \in Items(some) :
                      x.id = o.id /\ x.weight = o.weight /\ x.id \notin IdsOf(q.nodes)
    BY <1>4
<1> QED
    BY <1>5, <1>6 DEF some, all

\* The edges among nodes of the graph.
LEMMA EdgesAmongTrue ==
    ASSUME NEW g, Sound(g), NEW ids \in SUBSET Nat
    PROVE  EdgesTrue(EdgesAmong(g, ids), g) /\ OnePerPair(EdgesAmong(g, ids))
BY EdgesAmongOf DEF EdgesTrue, OnePerPair

LEMMA JoinTrue ==
    ASSUME NEW g, NEW edges, NEW more, EdgesTrue(edges, g), EdgesTrue(more, g),
           OnePerPair(edges), OnePerPair(more)
    PROVE  EdgesTrue(Join(edges, more), g) /\ OnePerPair(Join(edges, more))
<1>1. EdgesTrue(Join(edges, more), g)
    BY DEF EdgesTrue, Join
<1>2. OnePerPair(Join(edges, more))
    BY DEF OnePerPair, Join
<1> QED
    BY <1>1, <1>2


-----------------------------------------------------------------------------
(***************************************************************************)
(* Each action preserves the invariant.                                    *)
(***************************************************************************)
\* A query that has just been put, or an instance that waits for one.
LEMMA AskedInv ==
    ASSUME NEW kind \in {"text", "multihop", "node"}, NEW mode \in Modes, NEW g, NEW m \in Nat,
           NEW seeds \in Seq(IdSet(g)), kind = "node" => \E s \in Nat : seeds = <<s>>
    PROVE  QueryInv(Asked(kind, mode, seeds), g, m)
<1> DEFINE q == Asked(kind, mode, seeds)
<1>1. /\ DOMAIN q = Fields /\ q.kind = kind /\ q.mode = mode /\ q.phase = "retrieve"
      /\ q.seeds = seeds /\ q.nodes = <<>> /\ q.edges = {} /\ q.hops = 0
      /\ q.offered = {} /\ q.readAt = 0
    BY DEF Asked, Fields
<1> HIDE DEF q
<1>2. MaxHops \in Nat /\ TopN \in Nat
    BY RetrievalAssumption
<1>3. AsksInGraph(q, g)
    BY <1>1, <1>2 DEF AsksInGraph
<1>4. IsContext(q.nodes, g)
    <2>1. <<>> \in Seq(Weighed) /\ Len(<<>>) = 0 /\ DOMAIN <<>> = {}
        OBVIOUS
    <2> QED
        BY <1>1, <1>2, <2>1 DEF IsContext, NoneTwice, Items
<1>5. EdgesTrue(q.edges, g) /\ OnePerPair(q.edges) /\ OffersHeld(q.offered, q.nodes)
    BY <1>1 DEF EdgesTrue, OnePerPair, OffersHeld
<1>6. ReadComplete(q, g, m) /\ NamedSeen(q)
    BY <1>1 DEF ReadComplete, NamedSeen
<1>7. NodeFirst(q)
    BY <1>1 DEF NodeFirst
<1>8. QueryInv(q, g, m)
    BY <1>3, <1>4, <1>5, <1>6, <1>7 DEF QueryInv
<1> QED
    BY <1>8 DEF q

LEMMA IdleInv ==
    ASSUME NEW mode \in Modes, NEW g, NEW m \in Nat
    PROVE  QueryInv(Idle(mode), g, m)
<1> DEFINE p == Asked("text", mode, <<>>)
           q == Idle(mode)
<1>1. <<>> \in Seq(IdSet(g))
    OBVIOUS
<1>2. QueryInv(p, g, m)
    BY <1>1, AskedInv
<1>3. /\ DOMAIN q = Fields /\ q.kind = p.kind /\ q.mode = p.mode /\ q.phase = "idle"
      /\ q.seeds = p.seeds /\ q.nodes = p.nodes /\ q.edges = p.edges /\ q.hops = p.hops
      /\ q.offered = p.offered /\ q.readAt = p.readAt /\ q.kind = "text"
    BY DEF Idle, Asked, Fields
<1> HIDE DEF p, q
<1>4. AsksInGraph(q, g) /\ IsContext(q.nodes, g)
    BY <1>2, <1>3 DEF QueryInv, AsksInGraph
<1>5. EdgesTrue(q.edges, g) /\ OnePerPair(q.edges) /\ OffersHeld(q.offered, q.nodes)
    BY <1>2, <1>3 DEF QueryInv
<1>6. ReadComplete(q, g, m) /\ NamedSeen(q) /\ NodeFirst(q)
    BY <1>2, <1>3 DEF QueryInv, ReadComplete, NamedSeen, NodeFirst
<1>7. QueryInv(q, g, m)
    BY <1>4, <1>5, <1>6 DEF QueryInv
<1> QED
    BY <1>7 DEF q

LEMMA InitInv ==
    Init => RetrievalInv
<1> SUFFICES ASSUME Init PROVE RetrievalInv
    OBVIOUS
<1>1. Sound(graph)
    BY BootedIsSound DEF Init
<1>2. sim \in [Entities -> Int]
    BY RetrievalAssumption DEF Init
<1>3. merges = 0 /\ 0 \in Nat /\ merges \in 0..MaxMerges
    BY RetrievalAssumption DEF Init
<1>4. QueryInv(query, graph, merges)
    BY <1>3, IdleInv DEF Init
<1> QED
    BY <1>1, <1>2, <1>3, <1>4 DEF RetrievalInv

LEMMA SearchStep ==
    ASSUME RetrievalInv, NEW kind \in {"text", "multihop"}, Search(kind)
    PROVE  RetrievalInv'
<1>1. /\ Sound(graph) /\ sim \in [Entities -> Int] /\ merges \in 0..MaxMerges
      /\ query.mode \in Modes
    BY DEF RetrievalInv, QueryInv, AsksInGraph
<1>2. graph' = graph /\ sim' = sim /\ merges' = merges /\ merges \in Nat
    BY <1>1 DEF Search
<1>3. PICK hits \in FewNodes(HnswK), edgeHits \in {<<>>} \cup {<<e>> : e \in Items(AllEdges(graph))} :
          query' = Asked(kind, query.mode, MergeSeeds(hits, edgeHits))
    BY DEF Search
<1>4. MergeSeeds(hits, edgeHits) \in Seq(IdSet(graph))
    BY <1>1, SearchSeeds
<1>5. QueryInv(query', graph, merges)
    <2>1. kind \in {"text", "multihop", "node"} /\ kind # "node"
        OBVIOUS
    <2> QED
        BY <1>1, <1>2, <1>3, <1>4, <2>1, AskedInv
<1>6. Sound(graph') /\ QueryInv(query', graph', merges')
    BY <1>1, <1>2, <1>5
<1> QED
    BY <1>1, <1>2, <1>6 DEF RetrievalInv

LEMMA AskNodeStep ==
    ASSUME RetrievalInv, AskNode
    PROVE  RetrievalInv'
<1>1. /\ Sound(graph) /\ sim \in [Entities -> Int] /\ merges \in 0..MaxMerges
      /\ query.mode \in Modes
    BY DEF RetrievalInv, QueryInv, AsksInGraph
<1>2. graph' = graph /\ sim' = sim /\ merges' = merges /\ merges \in Nat
    BY <1>1 DEF AskNode
<1>3. PICK id \in 0..NumNodes(graph) - 1 : query' = Asked("node", query.mode, <<id>>)
    BY DEF AskNode
<1>4. NumNodes(graph) \in Nat
    BY <1>1, SoundArrays
<1>5. id \in Nat /\ <<id>> \in Seq(IdSet(graph))
    <2>1. id \in IdSet(graph) /\ id \in Nat
        BY <1>3, <1>4 DEF IdSet
    <2> QED
        BY <2>1
<1>6. QueryInv(query', graph, merges)
    <2>1. "node" \in {"text", "multihop", "node"}
        OBVIOUS
    <2> QED
        BY <1>1, <1>2, <1>3, <1>5, <2>1, AskedInv
<1>7. Sound(graph') /\ QueryInv(query', graph', merges')
    BY <1>1, <1>2, <1>6
<1> QED
    BY <1>1, <1>2, <1>7 DEF RetrievalInv


\* The fields that the first walk sets.
LEMMA RetrieveStep ==
    ASSUME RetrievalInv, Retrieve
    PROVE  RetrievalInv'
<1> DEFINE q     == query
           r     == query'
           all   == Offered(query, graph)
           some  == Cut(all)
           among == EdgesAmong(graph, IdsOf(some))
<1>1. /\ Sound(graph) /\ sim \in [Entities -> Int] /\ merges \in 0..MaxMerges
      /\ QueryInv(q, graph, merges)
    BY DEF RetrievalInv
<1>2. graph' = graph /\ sim' = sim /\ merges' = merges /\ merges \in Nat
    BY <1>1 DEF Retrieve
<1>3. /\ AsksInGraph(q, graph) /\ NodeFirst(q) /\ DOMAIN q = Fields
      /\ q.kind \in {"text", "multihop", "node"}
    BY <1>1 DEF QueryInv, AsksInGraph
<1>4. /\ DOMAIN r = Fields /\ r.kind = q.kind /\ r.mode = q.mode /\ r.seeds = q.seeds
      /\ r.nodes = some /\ r.edges = among /\ r.hops = q.hops /\ r.hops = 0
      /\ r.offered = Offers(q, all) /\ r.readAt = merges
      /\ r.phase = CASE q.kind = "multihop" -> "reason" [] q.kind = "text" -> "generate" [] OTHER -> "done"
    BY <1>3 DEF Retrieve, Fields
<1>5. IsContext(some, graph) /\ IdsOf(some) \in SUBSET Nat
    BY <1>1, <1>3, CutOffered
<1>6. EdgesTrue(among, graph) /\ OnePerPair(among)
    BY <1>1, <1>5, EdgesAmongTrue
<1>7. OffersHeld(Offers(q, all), some)
    <2>1. ASSUME NEW o \in Offers(q, all)
          PROVE  o.weight \in Int /\ (o.brought => Held(o, some))
        <3>1. /\ o.weight \in Int
              /\ o.brought => \E x \in Items(some) : x.id = o.id /\ x.weight = o.weight
            BY <1>1, <1>3, <2>1, OffersOf
        <3> QED
            BY <3>1 DEF Held
    <2> QED
        BY <2>1 DEF OffersHeld
<1>8. q.kind = "node" /\ LightEdges => some # <<>> /\ some[1].id = q.seeds[1]
    <2> SUFFICES ASSUME q.kind = "node", LightEdges PROVE some # <<>> /\ some[1].id = q.seeds[1]
        OBVIOUS
    <2>1. PICK s \in Nat : q.seeds = <<s>>
        BY <1>3 DEF NodeFirst
    <2>2. CanWalk(q, graph) /\ TopN \in Nat /\ \A x \in Items(q.seeds) : x < NumNodes(graph)
        BY <1>1, <1>3, AsksWalks
    <2>3. q.seeds[1] = s /\ s \in Items(q.seeds)
        BY <2>1 DEF Items
    <2>4. Weights \subseteq {0, 1} /\ q.mode.gamma <= q.mode.alpha
        BY <1>3 DEF LightEdges, AsksInGraph
    <2>5. 1 \in DOMAIN all /\ all[1].id = s
        BY <2>1, <2>2, <2>3, <2>4, NodeOfferedFirst
    <2>6. all \in Seq(Weighed)
        BY <2>2, OfferedProperties
    <2> HIDE DEF all
    <2>7. Len(all) \in Nat /\ Len(all) >= 1
        BY <2>5, <2>6
    <2>8. /\ some \in Seq(Weighed)
          /\ Len(some) = IF Len(all) < TopN THEN Len(all) ELSE TopN
          /\ \A i \in 1..Len(some) : some[i] = all[i]
        BY <2>2, <2>6, CutProperties
    <2> HIDE DEF some
    <2>9. Len(some) >= 1 /\ Len(some) \in Nat
        BY <2>7, <2>8, RetrievalAssumption
    <2> QED
        BY <2>3, <2>5, <2>8, <2>9
<1> HIDE DEF q, r, all, some, among
<1>9. AsksInGraph(r, graph) /\ IsContext(r.nodes, graph)
    BY <1>3, <1>4, <1>5 DEF AsksInGraph
<1>10. EdgesTrue(r.edges, graph) /\ OnePerPair(r.edges) /\ OffersHeld(r.offered, r.nodes)
    BY <1>4, <1>6, <1>7
<1>11. ReadComplete(r, graph, merges)
    BY <1>2, <1>4 DEF ReadComplete, among
<1>12. NamedSeen(r)
    BY <1>4 DEF NamedSeen
<1>13. NodeFirst(r)
    BY <1>3, <1>4, <1>8 DEF NodeFirst
<1>14. QueryInv(r, graph, merges)
    BY <1>9, <1>10, <1>11, <1>12, <1>13 DEF QueryInv
<1>15. Sound(graph') /\ QueryInv(r, graph', merges')
    BY <1>1, <1>2, <1>14
<1> QED
    BY <1>1, <1>2, <1>15 DEF RetrievalInv, r

\* A walk of a multi-hop query adds to the context what it has not got, and the limit
\* drops the least of all.
LEMMA RetrieveMoreStep ==
    ASSUME RetrievalInv, RetrieveMore
    PROVE  RetrievalInv'
<1> DEFINE q     == query
           r     == query'
           all   == Offered(query, graph)
           some  == Cut(all)
           among == EdgesAmong(graph, IdsOf(some))
           both  == Gather(query.nodes, some)
<1>1. /\ Sound(graph) /\ sim \in [Entities -> Int] /\ merges \in 0..MaxMerges
      /\ QueryInv(q, graph, merges)
    BY DEF RetrievalInv
<1>2. graph' = graph /\ sim' = sim /\ merges' = merges /\ merges \in Nat
    BY <1>1 DEF RetrieveMore
<1>3. /\ AsksInGraph(q, graph) /\ NodeFirst(q) /\ DOMAIN q = Fields
      /\ IsContext(q.nodes, graph) /\ EdgesTrue(q.edges, graph) /\ OnePerPair(q.edges)
      /\ OffersHeld(q.offered, q.nodes)
    BY <1>1 DEF QueryInv, AsksInGraph
<1>4. /\ DOMAIN r = Fields /\ r.kind = q.kind /\ r.mode = q.mode /\ r.seeds = q.seeds
      /\ r.nodes = both /\ r.edges = Join(q.edges, among) /\ r.hops = q.hops /\ q.hops > 0
      /\ r.offered = q.offered \cup Offers(q, all) /\ r.readAt = merges
      /\ r.phase = "reason"
    BY <1>3 DEF RetrieveMore, Fields
<1>5. /\ IsContext(some, graph) /\ IdsOf(some) \in SUBSET Nat
      /\ Items(q.seeds) \subseteq IdsOf(some) \/ Len(some) = TopN
    BY <1>1, <1>3, <1>4, CutOffered
<1>6. EdgesTrue(among, graph) /\ OnePerPair(among)
    BY <1>1, <1>5, EdgesAmongTrue
<1>7. TopN \in Nat /\ MaxHops \in Nat
    BY RetrievalAssumption
<1>8. ASSUME NEW o \in Offers(q, all)
      PROVE  /\ o.weight \in Int
             /\ o.brought => \E x \in Items(some) :
                                x.id = o.id /\ x.weight = o.weight /\ x.id \notin IdsOf(q.nodes)
    BY <1>1, <1>3, <1>8, OffersOf
<1> HIDE DEF all, some, among
<1>9. /\ both \in Seq(Weighed) /\ NoneTwice(both) /\ Len(both) <= TopN
      /\ Items(both) \subseteq Items(q.nodes) \cup Items(some)
      /\ IdsOf(q.nodes) \cup IdsOf(some) \subseteq IdsOf(both) \/ Len(both) = TopN
      /\ Len(some) = TopN => Len(both) = TopN
      /\ \A o : o.weight \in Int /\ Held(o, q.nodes) => Held(o, both)
      /\ \A x \in Items(some) : x.id \notin IdsOf(q.nodes) => Held(x, both)
    BY <1>3, <1>5, <1>7, GatherProperties DEF IsContext
<1> HIDE DEF q, r, both
<1>10. IsContext(both, graph)
    BY <1>3, <1>5, <1>9 DEF IsContext
<1>11. OffersHeld(r.offered, both)
    <2>1. ASSUME NEW o \in q.offered
          PROVE  o.weight \in Int /\ (o.brought => Held(o, both))
        BY <1>3, <1>9, <2>1 DEF OffersHeld
    <2>2. ASSUME NEW o \in Offers(q, all)
          PROVE  o.weight \in Int /\ (o.brought => Held(o, both))
        <3>1. ASSUME o.brought PROVE Held(o, both)
            <4>1. PICK x \in Items(some) :
                      x.id = o.id /\ x.weight = o.weight /\ x.id \notin IdsOf(q.nodes)
                BY <1>8, <3>1
            <4>2. Held(x, both)
                BY <1>9, <4>1
            <4> QED
                BY <4>1, <4>2 DEF Held
        <3> QED
            BY <1>8, <3>1
    <2> QED
        BY <1>4, <2>1, <2>2 DEF OffersHeld
<1>12. AsksInGraph(r, graph) /\ IsContext(r.nodes, graph)
    BY <1>3, <1>4, <1>10 DEF AsksInGraph
<1>13. EdgesTrue(r.edges, graph) /\ OnePerPair(r.edges)
    BY <1>3, <1>4, <1>6, JoinTrue
<1>14. ReadComplete(r, graph, merges)
    BY <1>2, <1>4 DEF ReadComplete
<1>15. NamedSeen(r)
    BY <1>4, <1>5, <1>9 DEF NamedSeen
<1>16. NodeFirst(r)
    BY <1>3, <1>4 DEF NodeFirst
<1>17. QueryInv(r, graph, merges)
    BY <1>4, <1>11, <1>12, <1>13, <1>14, <1>15, <1>16 DEF QueryInv
<1>18. Sound(graph') /\ QueryInv(r, graph', merges')
    BY <1>1, <1>2, <1>17
<1> QED
    BY <1>1, <1>2, <1>18 DEF RetrievalInv, r

\* A step of the plugin leaves the context as it is.
LEMMA SameContext ==
    ASSUME NEW q, NEW r, NEW g, NEW m, QueryInv(q, g, m), DOMAIN r = Fields,
           r.kind = q.kind, r.mode = q.mode, r.nodes = q.nodes, r.edges = q.edges,
           r.offered = q.offered, r.readAt = q.readAt,
           r.hops \in 0..MaxHops, r.seeds \in Seq(IdSet(g)),
           q.phase = "reason" \/ (q.phase = "generate" /\ r.phase = "done"),
           r.phase \in {"retrieve", "generate", "done"},
           r.hops = q.hops \/ r.hops # 0
    PROVE  QueryInv(r, g, m)
<1>1. AsksInGraph(r, g)
    BY DEF QueryInv, AsksInGraph
<1>2. /\ IsContext(r.nodes, g) /\ EdgesTrue(r.edges, g) /\ OnePerPair(r.edges)
      /\ OffersHeld(r.offered, r.nodes)
    BY DEF QueryInv
<1>3. ReadComplete(r, g, m) /\ NamedSeen(r)
    BY DEF QueryInv, ReadComplete, NamedSeen
<1>4. NodeFirst(r)
    BY DEF QueryInv, NodeFirst
<1> QED
    BY <1>1, <1>2, <1>3, <1>4 DEF QueryInv

LEMMA AnswerStep ==
    ASSUME RetrievalInv, Reasoned \/ Unfinished \/ Generate
    PROVE  RetrievalInv'
<1>1. /\ Sound(graph) /\ sim \in [Entities -> Int] /\ merges \in 0..MaxMerges
      /\ QueryInv(query, graph, merges)
    BY DEF RetrievalInv
<1>2. graph' = graph /\ sim' = sim /\ merges' = merges
    BY DEF Reasoned, Unfinished, Generate
<1>3. /\ DOMAIN query = Fields /\ query.hops \in 0..MaxHops
      /\ query.seeds \in Seq(IdSet(graph))
    BY <1>1 DEF QueryInv, AsksInGraph
<1>4. /\ DOMAIN query' = Fields /\ query'.kind = query.kind /\ query'.mode = query.mode
      /\ query'.nodes = query.nodes /\ query'.edges = query.edges
      /\ query'.offered = query.offered /\ query'.readAt = query.readAt
      /\ query'.hops = query.hops /\ query'.seeds = query.seeds /\ query'.phase = "done"
      /\ query.phase \in {"reason", "generate"}
    BY <1>3 DEF Reasoned, Unfinished, Generate, Fields
<1>5. QueryInv(query', graph, merges)
    <2> DEFINE r == query'
    <2>1. /\ r.hops \in 0..MaxHops /\ r.seeds \in Seq(IdSet(graph))
          /\ query.phase = "reason" \/ (query.phase = "generate" /\ r.phase = "done")
          /\ r.phase \in {"retrieve", "generate", "done"} /\ (r.hops = query.hops \/ r.hops # 0)
        BY <1>3, <1>4
    <2> HIDE DEF r
    <2>2. /\ DOMAIN r = Fields /\ r.kind = query.kind /\ r.mode = query.mode
          /\ r.nodes = query.nodes /\ r.edges = query.edges
          /\ r.offered = query.offered /\ r.readAt = query.readAt
        BY <1>4 DEF r
    <2>3. QueryInv(r, graph, merges)
        BY <1>1, <2>1, <2>2, SameContext
    <2> QED
        BY <2>3 DEF r
<1>6. Sound(graph') /\ QueryInv(query', graph', merges')
    BY <1>1, <1>2, <1>5
<1> QED
    BY <1>1, <1>2, <1>6 DEF RetrievalInv

LEMMA FollowUpStep ==
    ASSUME RetrievalInv, FollowUp
    PROVE  RetrievalInv'
<1>1. /\ Sound(graph) /\ sim \in [Entities -> Int] /\ merges \in 0..MaxMerges
      /\ QueryInv(query, graph, merges)
    BY DEF RetrievalInv
<1>2. graph' = graph /\ sim' = sim /\ merges' = merges
    BY DEF FollowUp
<1>3. DOMAIN query = Fields /\ query.hops \in 0..MaxHops /\ MaxHops \in Nat
    BY <1>1, RetrievalAssumption DEF QueryInv, AsksInGraph
<1>4. PICK seeds \in FewNodes(MaxNames) :
          query' = [query EXCEPT !.hops = @ + 1, !.seeds = seeds,
                                 !.phase = IF seeds = <<>> THEN "generate" ELSE "retrieve"]
    BY DEF FollowUp
<1>5. seeds \in Seq(IdSet(graph))
    BY <1>1, SoundArrays, FewNodesType
<1>6. /\ DOMAIN query' = Fields /\ query'.kind = query.kind /\ query'.mode = query.mode
      /\ query'.nodes = query.nodes /\ query'.edges = query.edges
      /\ query'.offered = query.offered /\ query'.readAt = query.readAt
      /\ query'.hops = query.hops + 1 /\ query'.seeds = seeds
      /\ query'.phase = IF seeds = <<>> THEN "generate" ELSE "retrieve"
      /\ query.phase = "reason" /\ query.hops < MaxHops
    BY <1>3, <1>4 DEF FollowUp, Fields
<1>7. QueryInv(query', graph, merges)
    <2> DEFINE r == query'
    <2>1. /\ r.hops \in 0..MaxHops /\ r.seeds \in Seq(IdSet(graph))
          /\ query.phase = "reason" \/ (query.phase = "generate" /\ r.phase = "done")
          /\ r.phase \in {"retrieve", "generate", "done"} /\ (r.hops = query.hops \/ r.hops # 0)
        BY <1>3, <1>5, <1>6
    <2> HIDE DEF r
    <2>2. /\ DOMAIN r = Fields /\ r.kind = query.kind /\ r.mode = query.mode
          /\ r.nodes = query.nodes /\ r.edges = query.edges
          /\ r.offered = query.offered /\ r.readAt = query.readAt
        BY <1>6 DEF r
    <2>3. QueryInv(r, graph, merges)
        BY <1>1, <2>1, <2>2, SameContext
    <2> QED
        BY <2>3 DEF r
<1>8. Sound(graph') /\ QueryInv(query', graph', merges')
    BY <1>1, <1>2, <1>7
<1> QED
    BY <1>1, <1>2, <1>8 DEF RetrievalInv

\* A merge leaves a query what it has read.
LEMMA SwapStep ==
    ASSUME RetrievalInv, Swap
    PROVE  RetrievalInv'
<1>1. /\ Sound(graph) /\ sim \in [Entities -> Int] /\ merges \in 0..MaxMerges
      /\ QueryInv(query, graph, merges)
    BY DEF RetrievalInv
<1>2. MaxMerges \in Nat
    BY RetrievalAssumption
<1>3. /\ sim' = sim /\ query' = query /\ merges \in Nat /\ merges' = merges + 1
      /\ merges' \in 0..MaxMerges
    BY <1>1, <1>2 DEF Swap
<1>4. PICK more \in Growths :
          graph' = Build(graph.nodes \o more.nodes, AllEdges(graph) \o more.edges)
    BY DEF Swap
<1>5. /\ Sound(graph') /\ NumNodes(graph) \in Nat /\ NumNodes(graph') \in Nat
      /\ NumNodes(graph) <= NumNodes(graph')
      /\ \A e \in Items(AllEdges(graph)) : e \in Items(AllEdges(graph'))
    BY <1>1, <1>4, SwappedIsSound
<1> DEFINE g == graph
           h == graph'
           q == query
<1>6. /\ AsksInGraph(q, g) /\ IsContext(q.nodes, g) /\ EdgesTrue(q.edges, g)
      /\ OnePerPair(q.edges) /\ OffersHeld(q.offered, q.nodes) /\ ReadComplete(q, g, merges)
      /\ NamedSeen(q) /\ NodeFirst(q)
    BY <1>1 DEF QueryInv
<1>7. NumNodes(g) \in Nat /\ NumNodes(h) \in Nat /\ NumNodes(g) <= NumNodes(h)
      /\ \A e \in Items(AllEdges(g)) : e \in Items(AllEdges(h))
    BY <1>5
<1> HIDE DEF g, h, q
<1>8. IdSet(g) \subseteq IdSet(h)
    BY <1>7 DEF IdSet
<1>9. AsksInGraph(q, h)
    BY <1>6, <1>8 DEF AsksInGraph
<1>10. IsContext(q.nodes, h)
    <2>1. ASSUME NEW x \in Items(q.nodes) PROVE x.id < NumNodes(h)
        <3>1. x \in Weighed /\ x.id < NumNodes(g)
            BY <1>6, <2>1, ItemsOf DEF IsContext
        <3> QED
            BY <1>7, <3>1 DEF Weighed
    <2> QED
        BY <1>6, <2>1 DEF IsContext
<1>11. EdgesTrue(q.edges, h)
    BY <1>6, <1>7 DEF EdgesTrue
<1>12. ReadComplete(q, h, merges + 1)
    BY <1>3, <1>6 DEF ReadComplete
<1>13. QueryInv(q, h, merges + 1)
    BY <1>6, <1>9, <1>10, <1>11, <1>12 DEF QueryInv
<1>14. QueryInv(query', graph', merges')
    BY <1>3, <1>13 DEF q, h
<1> QED
    BY <1>1, <1>3, <1>5, <1>14 DEF RetrievalInv

LEMMA NextInv ==
    RetrievalInv /\ [Next]_vars => RetrievalInv'
<1> SUFFICES ASSUME RetrievalInv, [Next]_vars PROVE RetrievalInv'
    OBVIOUS
<1>1. CASE Search("text") \/ Search("multihop")
    BY <1>1, SearchStep
<1>2. CASE AskNode
    BY <1>2, AskNodeStep
<1>3. CASE Retrieve
    BY <1>3, RetrieveStep
<1>4. CASE RetrieveMore
    BY <1>4, RetrieveMoreStep
<1>5. CASE Reasoned \/ Unfinished \/ Generate
    BY <1>5, AnswerStep
<1>6. CASE FollowUp
    BY <1>6, FollowUpStep
<1>7. CASE Swap
    BY <1>7, SwapStep
<1>8. CASE UNCHANGED vars
    BY <1>8 DEF vars, RetrievalInv
<1> QED
    BY <1>1, <1>2, <1>3, <1>4, <1>5, <1>6, <1>7, <1>8 DEF Next, Answered

LEMMA Invariance ==
    Spec => []RetrievalInv
<1> QED
    BY InitInv, NextInv, PTL DEF Spec


-----------------------------------------------------------------------------
(***************************************************************************)
(* What the invariant shows.                                               *)
(***************************************************************************)
LEMMA InvShape == RetrievalInv => TypeOK
<1> SUFFICES ASSUME RetrievalInv PROVE TypeOK
    OBVIOUS
<1>1. /\ merges \in 0..MaxMerges /\ query.hops \in 0..MaxHops /\ NumNodes(graph) \in Nat
      /\ query.nodes \in Seq(Weighed) /\ NoneTwice(query.nodes) /\ Len(query.nodes) <= TopN
      /\ \A x \in Items(query.nodes) : x.id < NumNodes(graph)
      /\ OnePerPair(query.edges)
    BY SoundArrays DEF RetrievalInv, QueryInv, AsksInGraph, IsContext
<1>2. ASSUME NEW k \in DOMAIN query.nodes PROVE query.nodes[k].id \in 0..NumNodes(graph) - 1
    <2>1. query.nodes[k] \in Weighed /\ query.nodes[k] \in Items(query.nodes)
        BY <1>1, ItemsOf
    <2> QED
        BY <1>1, <2>1, InRange DEF Weighed
<1>3. Cardinality(IdsOf(query.nodes)) = Len(query.nodes)
    BY <1>1, DistinctIds
<1> QED
    BY <1>1, <1>2, <1>3 DEF TypeOK, OnePerPair

LEMMA InvBest == RetrievalInv => BestKept
<1> SUFFICES ASSUME RetrievalInv, NEW o \in query.offered, o.brought PROVE Kept(o)
    BY DEF BestKept
<1>1. Held(o, query.nodes) /\ query.nodes \in Seq(Weighed)
    BY DEF RetrievalInv, QueryInv, OffersHeld, IsContext
<1>2. CASE \E x \in Items(query.nodes) : x.id = o.id /\ x.weight >= o.weight
    BY <1>2 DEF Kept, IdsOf, Items
<1>3. CASE Len(query.nodes) = TopN /\ \A x \in Items(query.nodes) : x.weight >= o.weight
    BY <1>3 DEF Kept, Items
<1> QED
    BY <1>1, <1>2, <1>3 DEF Held

LEMMA InvTrue == RetrievalInv => RelationsTrue
<1> SUFFICES ASSUME RetrievalInv, Shown PROVE RelationsTrue
    BY DEF RelationsTrue
<1> DEFINE ids == IdsOf(query.nodes)
<1>1. /\ Sound(graph) /\ query.nodes \in Seq(Weighed) /\ EdgesTrue(query.edges, graph)
      /\ ReadComplete(query, graph, merges)
    BY DEF RetrievalInv, QueryInv, IsContext
<1>2. ids \in SUBSET Nat
    <2>1. \A k \in DOMAIN query.nodes : query.nodes[k] \in Weighed
        BY <1>1, ItemsOf
    <2> QED
        BY <2>1 DEF IdsOf, Weighed
<1> HIDE DEF ids
<1>3. \A r \in Relations(query) : \E e \in Items(AllEdges(graph)) :
          /\ e.from = r.from /\ e.to = r.to
          /\ e.origin.weight = r.weight /\ e.origin.type = r.type
    BY <1>1 DEF Relations, EdgesTrue
<1>4. ASSUME query.hops = 0, query.readAt = merges, NEW e \in Items(AllEdges(graph)),
             {e.from, e.to} \subseteq ids
      PROVE  \E r \in Relations(query) : r.from = e.from /\ r.to = e.to /\ r.weight >= e.origin.weight
    <2>1. query.edges = EdgesAmong(graph, ids)
        BY <1>1, <1>4 DEF ReadComplete, Shown, ids
    <2>2. PICK r \in EdgesAmong(graph, ids) :
              r.from = e.from /\ r.to = e.to /\ r.weight >= e.origin.weight
        BY <1>1, <1>2, <1>4, EdgesAmongOf
    <2>3. r \in Relations(query)
        BY <1>4, <2>1, <2>2 DEF Relations, ids
    <2> QED
        BY <2>2, <2>3
<1> QED
    BY <1>3, <1>4 DEF RelationsTrue, ids

LEMMA InvSeen == RetrievalInv /\ LightEdges => AskedForIsSeen
BY DEF RetrievalInv, QueryInv, NamedSeen, NodeFirst, AskedForIsSeen

\* For any graph, growth, mode and limit: the context has no node twice and no more
\* nodes than context_top_n, all of the served graph, and one edge of a pair, however
\* many walks it was gathered in (query_multihop, merge_context, merge_edges).
THEOREM ContextShape == Spec => []TypeOK
<1> QED
    BY Invariance, InvShape, PTL

\* For any of them: a node that a walk brought is missing from the context only where
\* the context is full of nodes that weigh no less (merge_context and its sort).
THEOREM ContextIsBest == Spec => []BestKept
<1> QED
    BY Invariance, InvBest, PTL

\* For any of them: the relations handed over are edges of the graph, also of the one
\* that a merge swaps in meanwhile, and those of a single walk are complete
\* (edges_between, build_edges).
THEOREM RelationsAreTrue == Spec => []RelationsTrue
<1> QED
    BY Invariance, InvTrue, PTL

\* For any of them, with edges of weight 1 at most and modes in which degree counts no
\* more than similarity, as in all of resolve_weights: the plugin sees what it named
\* unless the context is full, and a node query's node is the top-ranked.
THEOREM NamedAreSeen == Spec => [](LightEdges => AskedForIsSeen)
<1>1. RetrievalInv => (LightEdges => AskedForIsSeen)
    BY InvSeen
<1> QED
    BY Invariance, <1>1, PTL

=============================================================================
