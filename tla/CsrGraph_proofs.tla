---------------------------- MODULE CsrGraph_proofs ----------------------------
(***************************************************************************)
(* Theorems about the operators of CsrGraph, for any nodes and edges:      *)
(* what is read back from a packed graph, what a fold and a filter give,   *)
(* what edges_between keeps and what bfs_expand finds.                     *)
(***************************************************************************)
EXTENDS CsrGraph, FiniteSetTheorems, SequenceTheorems, WellFoundedInduction, TLAPS

(***************************************************************************)
(* Naturals and sequences.                                                 *)
(***************************************************************************)

\* A set of naturals has a least element.
LEMMA LeastNat ==
    ASSUME NEW T, T \subseteq Nat, T # {}
    PROVE  \E x \in T : \A y \in T : x <= y
<1>1. PICK x \in T : \A y \in T : ~ (<<y, x>> \in OpToRel(<, Nat))
    BY NatLessThanWellFounded, WFMin
<1>2. ASSUME NEW y \in T PROVE x <= y
    <2>1. <<y, x>> \in OpToRel(<, Nat) <=> y < x
        BY SMT DEF OpToRel
    <2>2. ~ (y < x)
        BY <1>1, <2>1, Zenon
    <2>3. x \in Nat /\ y \in Nat
        OBVIOUS
    <2> QED
        BY <2>2, <2>3, SMT
<1> QED
    BY <1>2

\* A sequence defined element by element has the type of its elements.
LEMMA DefinedSeq ==
    ASSUME NEW S, NEW n \in Nat, NEW f, f \in [1..n -> S]
    PROVE  f \in Seq(S) /\ Len(f) = n /\ DOMAIN f = 1..n
BY SeqDef

\* The first m elements of a sequence.
Prefix(f, m) == [p \in 1..m |-> f[p]]

LEMMA PrefixProperties ==
    ASSUME NEW S, NEW f \in Seq(S), NEW m \in Nat, m <= Len(f)
    PROVE  /\ Prefix(f, m) \in Seq(S) /\ Len(Prefix(f, m)) = m
           /\ \A k \in 1..m : Prefix(f, m)[k] = f[k]
<1>1. Prefix(f, m) \in [1..m -> S]
    BY DEF Prefix
<1>2. Prefix(f, m) \in Seq(S) /\ Len(Prefix(f, m)) = m
    BY <1>1, DefinedSeq
<1> QED
    BY <1>2 DEF Prefix

\* A sequence is the concatenation of two that hold its elements in turn.
LEMMA ConcatIs ==
    ASSUME NEW S, NEW x \in Seq(S), NEW y \in Seq(S), NEW z \in Seq(S),
           Len(z) = Len(x) + Len(y),
           \A k \in 1..Len(x) : x[k] = z[k],
           \A k \in 1..Len(y) : y[k] = z[Len(x) + k]
    PROVE  x \o y = z
<1>1. /\ x \o y \in Seq(S) /\ Len(x \o y) = Len(x) + Len(y)
      /\ \A k \in 1..(Len(x) + Len(y)) :
            (x \o y)[k] = IF k <= Len(x) THEN x[k] ELSE y[k - Len(x)]
    BY ConcatProperties
<1>2. Len(x) \in Nat /\ Len(y) \in Nat
    OBVIOUS
<1>3. ASSUME NEW k \in 1..Len(z) PROVE (x \o y)[k] = z[k]
    <2>1. CASE k <= Len(x)
        BY <1>1, <1>2, <2>1
    <2>2. CASE ~ (k <= Len(x))
        <3>1. k - Len(x) \in 1..Len(y) /\ Len(x) + (k - Len(x)) = k
            BY <1>2, <2>2
        <3>2. y[k - Len(x)] = z[k]
            BY <3>1
        <3> QED
            BY <1>1, <1>2, <2>2, <3>2
    <2> QED
        BY <2>1, <2>2
<1>4. Len(x \o y) = Len(z)
    BY <1>1
<1> QED
    BY <1>1, <1>3, <1>4, SeqEqual

(***************************************************************************)
(* Flattening.  A sequence that is cut into slices is what the slices give *)
(* when they are put behind each other.                                    *)
(***************************************************************************)
Cuts(f, c, n) ==
    /\ c \in [0..n -> Nat] /\ c[0] = 0 /\ c[n] = Len(f)
    /\ \A i \in 1..n : c[i - 1] <= c[i] /\ c[i] <= Len(f)

Slices(seqs, f, c, n) ==
    /\ Len(seqs) = n
    /\ \A i \in 1..n :
          /\ Len(seqs[i]) = c[i] - c[i - 1]
          /\ \A k \in 1..(c[i] - c[i - 1]) : seqs[i][k] = f[c[i - 1] + k]

LEMMA FlattenSlices ==
    ASSUME NEW S, NEW f \in Seq(S), NEW n \in Nat, NEW c, Cuts(f, c, n),
           NEW seqs, seqs \in Seq(Seq(S)), Slices(seqs, f, c, n)
    PROVE  Seqs!FlattenSeq(seqs) = f
<1> USE DEF Cuts, Slices
<1>1. CASE n = 0
    <2>1. Len(f) = 0 /\ Len(seqs) = 0
        BY <1>1
    <2>2. f = <<>> /\ seqs = <<>>
        BY <2>1, EmptySeq
    <2> QED
        BY <2>1, <2>2 DEF Seqs!FlattenSeq
<1>2. CASE n # 0
    <2> DEFINE Step(h) == [i \in 1..n |-> IF i = 1 THEN seqs[i] ELSE h[i - 1] \o seqs[i]]
               Cut(i) == Prefix(f, c[i])
               g == [i \in 1..n |-> Cut(i)]
    <2>1. ASSUME NEW i \in 1..n, i # 1 PROVE Cut(i - 1) \o seqs[i] = Cut(i)
        <3>1. i - 1 \in 1..n /\ i - 1 \in 0..n /\ i \in 0..n
            BY <2>1
        <3>2. c[i - 1] \in Nat /\ c[i] \in Nat /\ c[i - 1] <= c[i] /\ c[i] <= Len(f)
            BY <3>1
        <3>3. Cut(i - 1) \in Seq(S) /\ Len(Cut(i - 1)) = c[i - 1]
            <4>1. c[i - 1] \in Nat /\ c[i - 1] <= Len(f)
                BY <3>2
            <4> QED
                BY ONLY f \in Seq(S), <4>1, PrefixProperties
        <3>4. Cut(i) \in Seq(S) /\ Len(Cut(i)) = c[i]
            BY ONLY f \in Seq(S), <3>2, PrefixProperties
        <3>5. seqs[i] \in Seq(S)
            OBVIOUS
        <3>6. Len(seqs[i]) = c[i] - c[i - 1]
            OBVIOUS
        <3>7. \A k \in 1..(c[i] - c[i - 1]) : seqs[i][k] = f[c[i - 1] + k] /\ c[i - 1] + k \in 1..c[i]
            <4>1. \A k \in 1..(c[i] - c[i - 1]) : seqs[i][k] = f[c[i - 1] + k]
                BY ONLY i \in 1..n, Slices(seqs, f, c, n) DEF Slices
            <4>2. \A k \in 1..(c[i] - c[i - 1]) : c[i - 1] + k \in 1..c[i]
                BY ONLY <3>2
            <4> QED
                BY ONLY <4>1, <4>2
        <3>8. \A k \in 1..c[i - 1] : k \in 1..c[i] /\ Cut(i - 1)[k] = f[k]
            BY <3>2 DEF Prefix
        <3>9. \A k \in 1..c[i] : Cut(i)[k] = f[k]
            BY DEF Prefix
        <3> DEFINE x == Cut(i - 1)  y == seqs[i]  z == Cut(i)
        <3>10. /\ x \in Seq(S) /\ y \in Seq(S) /\ z \in Seq(S)
               /\ Len(x) = c[i - 1] /\ Len(y) = c[i] - c[i - 1] /\ Len(z) = c[i]
               /\ \A k \in 1..c[i - 1] : x[k] = z[k]
               /\ \A k \in 1..(c[i] - c[i - 1]) : y[k] = z[c[i - 1] + k]
            BY <3>3, <3>4, <3>5, <3>6, <3>7, <3>8, <3>9
        <3> HIDE DEF x, y, z
        <3>11. /\ Len(z) = Len(x) + Len(y)
               /\ \A k \in 1..Len(x) : x[k] = z[k]
               /\ \A k \in 1..Len(y) : y[k] = z[Len(x) + k]
            <4>1. Len(z) = Len(x) + Len(y)
                BY ONLY <3>2, <3>10
            <4>2. \A k \in 1..Len(x) : x[k] = z[k]
                BY ONLY <3>10
            <4>3. \A k \in 1..Len(y) : y[k] = z[Len(x) + k]
                BY ONLY <3>10
            <4> QED
                BY ONLY <4>1, <4>2, <4>3
        <3>12. x \o y = z
            BY ONLY <3>10, <3>11, ConcatIs
        <3> QED
            BY <3>12 DEF x, y, z
    <2>2. seqs[1] = Cut(1)
        <3>1. 1 - 1 = 0 /\ 1 \in 1..n /\ 1 \in 0..n
            BY <1>2
        <3>2. c[0] = 0 /\ c[1] \in Nat /\ c[1] <= Len(f)
            BY <3>1
        <3>3. seqs[1] \in Seq(S) /\ Len(seqs[1]) = c[1] - c[1 - 1]
                /\ \A k \in 1..(c[1] - c[1 - 1]) : seqs[1][k] = f[c[1 - 1] + k]
            BY <3>1
        <3>4. Len(seqs[1]) = c[1] /\ \A k \in 1..c[1] : seqs[1][k] = f[k]
            <4>1. c[1] - c[1 - 1] = c[1] /\ \A k \in 1..c[1] : c[1 - 1] + k = k
                BY <3>1, <3>2
            <4> QED
                BY <3>3, <4>1
        <3>5. Cut(1) \in Seq(S) /\ Len(Cut(1)) = c[1] /\ \A k \in 1..c[1] : Cut(1)[k] = f[k]
            BY <3>2, PrefixProperties
        <3> HIDE DEF Cut
        <3>6. Len(seqs[1]) = Len(Cut(1)) /\ \A k \in 1..Len(seqs[1]) : seqs[1][k] = Cut(1)[k]
            BY <3>4, <3>5
        <3> QED
            BY ONLY <3>3, <3>5, <3>6, SeqEqual
    <2> HIDE DEF Cut
    <2>3. g = Step(g)
        <3>1. ASSUME NEW i \in 1..n
              PROVE  g[i] = IF i = 1 THEN seqs[i] ELSE g[i - 1] \o seqs[i]
            <4>1. CASE i = 1
                BY <4>1, <2>2
            <4>2. CASE i # 1
                <5>1. i - 1 \in 1..n
                    BY <4>2
                <5>2. g[i - 1] = Cut(i - 1) /\ g[i] = Cut(i)
                    BY <5>1
                <5> QED
                    BY <4>2, <5>2, <2>1
            <4> QED
                BY <4>1, <4>2
        <3> HIDE DEF g
        <3>2. g = [i \in 1..n |-> g[i]]
            BY DEF g
        <3>3. Step(g) = [i \in 1..n |-> g[i]]
            BY <3>1
        <3> QED
            BY <3>2, <3>3
    <2> DEFINE h == CHOOSE h : h = Step(h)
    <2>4. h = Step(h)
        BY <2>3
    <2>5. \A i \in 1..n : h[i] = IF i = 1 THEN seqs[i] ELSE h[i - 1] \o seqs[i]
        <3> HIDE DEF h
        <3> QED
            BY <2>4
    <2>6. h = CHOOSE h1 : h1 = [i \in 1..n |-> IF i = 1 THEN seqs[i] ELSE h1[i - 1] \o seqs[i]]
        OBVIOUS
    <2> HIDE DEF h
    <2>7. \A i \in 1..n : h[i] = Cut(i)
        <3>1. SUFFICES ASSUME NEW j \in 1..n, h[j] # Cut(j) PROVE FALSE
            OBVIOUS
        <3> DEFINE T == {i \in 1..n : h[i] # Cut(i)}
        <3>2. T \subseteq Nat /\ j \in T
            BY <3>1
        <3>3. PICK i \in T : \A k \in T : i <= k
            <4> HIDE DEF T
            <4> QED
                BY <3>2, LeastNat
        <3>4. CASE i = 1
            BY <3>3, <3>4, <2>2, <2>5
        <3>5. CASE i # 1
            <4>1. i - 1 \in 1..n /\ i \in 1..n /\ ~ (i <= i - 1)
                BY <3>3, <3>5
            <4>2. h[i - 1] = Cut(i - 1)
                BY <4>1, <3>3
            <4>3. h[i] = Cut(i)
                BY <4>1, <4>2, <3>5, <2>1, <2>5
            <4> QED
                BY <4>3, <3>3
        <3> QED
            BY <3>4, <3>5
    <2>8. Seqs!FlattenSeq(seqs) = h[n]
        BY <1>2, <2>6 DEF Seqs!FlattenSeq
    <2>9. h[n] = Cut(n)
        BY <2>7, <1>2
    <2>10. Cut(n) = f
        BY DEF Cut, Prefix
    <2> QED
        BY <2>8, <2>9, <2>10
<1> QED
    BY <1>1, <1>2

(***************************************************************************)
(* Packing.  The places of the edges are a permutation that sorts them by  *)
(* one of their ends.                                                      *)
(***************************************************************************)
Below(ends, id) == {k \in DOMAIN ends : ends[k] < id}
SameEnd(ends, j) == {k \in 1..j : ends[k] = ends[j]}

\* The first n positions are n.
LEMMA FirstFew ==
    ASSUME NEW n \in Nat
    PROVE  IsFiniteSet(1..n) /\ Cardinality(1..n) = n
BY FS_Interval

\* A set of positions of a sequence is finite, and its subsets have no more.
LEMMA Positions ==
    ASSUME NEW m \in Nat, NEW B, B \subseteq 1..m, NEW A, A \subseteq B
    PROVE  /\ IsFiniteSet(A) /\ IsFiniteSet(B)
           /\ Cardinality(A) \in Nat /\ Cardinality(B) \in Nat
           /\ Cardinality(A) <= Cardinality(B) /\ Cardinality(B) <= m
           /\ Cardinality(A) = Cardinality(B) => A = B
<1>1. IsFiniteSet(1..m) /\ Cardinality(1..m) = m
    BY FirstFew
<1>2. IsFiniteSet(B) /\ Cardinality(B) <= m
    <2>1. B \in SUBSET (1..m)
        OBVIOUS
    <2> QED
        BY ONLY <1>1, <2>1, FS_Subset
<1>3. IsFiniteSet(A) /\ Cardinality(A) <= Cardinality(B) /\ (Cardinality(B) = Cardinality(A) => B = A)
    BY <1>2, FS_Subset
<1> QED
    BY <1>2, <1>3, FS_CardinalityType

\* The slices of two nodes do not overlap, and together they cover all edges.
LEMMA SliceStartProperties ==
    ASSUME NEW ends \in Seq(Nat)
    PROVE  /\ \A a \in Nat : SliceStart(ends, a) \in Nat /\ SliceStart(ends, a) <= Len(ends)
           /\ \A a, b \in Nat : a <= b => SliceStart(ends, a) <= SliceStart(ends, b)
           /\ SliceStart(ends, 0) = 0
           /\ \A n \in Nat : (\A k \in DOMAIN ends : ends[k] < n) => SliceStart(ends, n) = Len(ends)
<1>1. Len(ends) \in Nat /\ DOMAIN ends = 1..Len(ends) /\ \A k \in 1..Len(ends) : ends[k] \in Nat
    OBVIOUS
<1>2. \A a : SliceStart(ends, a) = Cardinality(Below(ends, a)) /\ Below(ends, a) \subseteq 1..Len(ends)
    BY <1>1 DEF SliceStart, Below
<1>3. ASSUME NEW a \in Nat, NEW b \in Nat, a <= b
      PROVE  SliceStart(ends, a) \in Nat /\ SliceStart(ends, a) <= SliceStart(ends, b)
    <2>1. Below(ends, a) \subseteq Below(ends, b)
        BY <1>1, <1>3 DEF Below
    <2>2. /\ Cardinality(Below(ends, a)) \in Nat
          /\ Cardinality(Below(ends, a)) <= Cardinality(Below(ends, b))
        <3>1. Len(ends) \in Nat /\ Below(ends, b) \subseteq 1..Len(ends)
            BY <1>1, <1>2
        <3> QED
            BY ONLY <2>1, <3>1, Positions
    <2> QED
        BY <1>2, <2>2
<1>4. ASSUME NEW a \in Nat PROVE SliceStart(ends, a) \in Nat /\ SliceStart(ends, a) <= Len(ends)
    BY <1>1, <1>2, Positions
<1>5. SliceStart(ends, 0) = 0
    <2>1. Below(ends, 0) = {}
        BY <1>1 DEF Below
    <2> QED
        BY <1>2, <2>1, FS_EmptySet
<1>6. ASSUME NEW n \in Nat, \A k \in DOMAIN ends : ends[k] < n PROVE SliceStart(ends, n) = Len(ends)
    <2>1. Below(ends, n) = 1..Len(ends)
        BY <1>1, <1>6 DEF Below
    <2>2. Cardinality(1..Len(ends)) = Len(ends)
        BY <1>1, FirstFew
    <2> QED
        BY <1>2, <2>1, <2>2
<1> QED
    BY <1>3, <1>4, <1>5, <1>6

\* An edge is placed in the slice of its end.
LEMMA PlacedInSlice ==
    ASSUME NEW ends \in Seq(Nat), NEW j \in DOMAIN ends
    PROVE  /\ Placed(ends, j) \in 1..Len(ends)
           /\ SliceStart(ends, ends[j]) < Placed(ends, j)
           /\ Placed(ends, j) <= SliceStart(ends, ends[j] + 1)
<1> DEFINE e == ends[j]
           A == Below(ends, e)
           B == SameEnd(ends, j)
<1>1. /\ Len(ends) \in Nat /\ DOMAIN ends = 1..Len(ends) /\ j \in 1..Len(ends)
      /\ \A k \in 1..Len(ends) : ends[k] \in Nat
    OBVIOUS
<1>2. A \subseteq 1..Len(ends) /\ B \subseteq 1..Len(ends) /\ j \in B /\ {j} \subseteq B
    BY <1>1 DEF Below, SameEnd
<1>3. IsFiniteSet(A) /\ IsFiniteSet(B) /\ Cardinality(A) \in Nat /\ Cardinality(B) \in Nat
    BY <1>1, <1>2, Positions
<1>4. Cardinality(B) >= 1
    <2>1. Cardinality({j}) = 1
        BY FS_Singleton
    <2>2. Cardinality({j}) <= Cardinality(B)
        BY <1>1, <1>2, Positions
    <2> QED
        BY <1>3, <2>1, <2>2
<1>5. A \cap B = {}
    BY <1>1 DEF Below, SameEnd
<1>6. Cardinality(A \cup B) = Cardinality(A) + Cardinality(B)
    <2>1. Cardinality(A \cup B) = Cardinality(A) + Cardinality(B) - Cardinality(A \cap B)
        BY <1>3, FS_Union
    <2>2. Cardinality(A \cap B) = 0
        BY <1>5, FS_EmptySet
    <2> QED
        BY <1>3, <2>1, <2>2
<1>7. A \cup B \subseteq Below(ends, e + 1) /\ Below(ends, e + 1) \subseteq 1..Len(ends)
    BY <1>1 DEF Below, SameEnd
<1>8. Cardinality(A \cup B) <= Cardinality(Below(ends, e + 1)) /\ Cardinality(Below(ends, e + 1)) <= Len(ends)
    BY <1>1, <1>7, Positions
<1>9. Placed(ends, j) = Cardinality(A) + Cardinality(B)
    BY DEF Placed, SliceStart, Below, SameEnd
<1>10. SliceStart(ends, e) = Cardinality(A) /\ SliceStart(ends, e + 1) = Cardinality(Below(ends, e + 1))
    BY DEF SliceStart, Below
<1>11. Cardinality(Below(ends, e + 1)) \in Nat
    BY <1>1, <1>7, Positions
<1> HIDE DEF A, B, e
<1>12. Placed(ends, j) \in 1..Len(ends) /\ Cardinality(A) < Placed(ends, j)
          /\ Placed(ends, j) <= Cardinality(Below(ends, e + 1))
    BY <1>1, <1>3, <1>4, <1>6, <1>8, <1>9, <1>11
<1> QED
    BY <1>10, <1>12 DEF e

\* Two edges have two places.
LEMMA PlacedOnce ==
    ASSUME NEW ends \in Seq(Nat), NEW i \in DOMAIN ends, NEW j \in DOMAIN ends, i < j
    PROVE  Placed(ends, i) # Placed(ends, j)
<1>1. /\ Len(ends) \in Nat /\ DOMAIN ends = 1..Len(ends) /\ i \in 1..Len(ends) /\ j \in 1..Len(ends)
      /\ ends[i] \in Nat /\ ends[j] \in Nat
    OBVIOUS
<1>2. CASE ends[i] = ends[j]
    <2>1. SameEnd(ends, i) \subseteq SameEnd(ends, j) /\ SameEnd(ends, j) \subseteq 1..Len(ends)
            /\ j \in SameEnd(ends, j) /\ j \notin SameEnd(ends, i)
        BY <1>1, <1>2 DEF SameEnd
    <2>2. /\ Cardinality(SameEnd(ends, i)) \in Nat /\ Cardinality(SameEnd(ends, j)) \in Nat
          /\ Cardinality(SameEnd(ends, i)) = Cardinality(SameEnd(ends, j))
                => SameEnd(ends, i) = SameEnd(ends, j)
        BY <1>1, <2>1, Positions
    <2>3. Cardinality(SameEnd(ends, i)) # Cardinality(SameEnd(ends, j))
        BY <2>1, <2>2
    <2>4. /\ Placed(ends, i) = SliceStart(ends, ends[i]) + Cardinality(SameEnd(ends, i))
          /\ Placed(ends, j) = SliceStart(ends, ends[j]) + Cardinality(SameEnd(ends, j))
        BY DEF Placed, SameEnd
    <2>5. SliceStart(ends, ends[i]) \in Nat
        BY <1>1, SliceStartProperties
    <2> QED
        BY <1>2, <2>2, <2>3, <2>4, <2>5
<1>3. ASSUME NEW a \in DOMAIN ends, NEW b \in DOMAIN ends, ends[a] < ends[b]
      PROVE  Placed(ends, a) # Placed(ends, b)
    <2>1. ends[a] \in Nat /\ ends[b] \in Nat /\ ends[a] + 1 \in Nat /\ ends[a] + 1 <= ends[b]
        BY <1>1, <1>3
    <2>2. SliceStart(ends, ends[a] + 1) <= SliceStart(ends, ends[b])
        BY <2>1, SliceStartProperties
    <2>3. SliceStart(ends, ends[a] + 1) \in Nat /\ SliceStart(ends, ends[b]) \in Nat
        BY <2>1, SliceStartProperties
    <2>4. Placed(ends, a) \in Nat /\ Placed(ends, a) <= SliceStart(ends, ends[a] + 1)
        <3>1. Placed(ends, a) \in 1..Len(ends) /\ Placed(ends, a) <= SliceStart(ends, ends[a] + 1)
            BY ONLY ends \in Seq(Nat), a \in DOMAIN ends, PlacedInSlice
        <3> QED
            BY ONLY <3>1
    <2>5. Placed(ends, b) \in Nat /\ SliceStart(ends, ends[b]) < Placed(ends, b)
        <3>1. Placed(ends, b) \in 1..Len(ends) /\ SliceStart(ends, ends[b]) < Placed(ends, b)
            BY ONLY ends \in Seq(Nat), b \in DOMAIN ends, PlacedInSlice
        <3> QED
            BY ONLY <3>1
    <2> QED
        BY <2>2, <2>3, <2>4, <2>5
<1> QED
    BY <1>1, <1>2, <1>3

\* Every place is some edge's.
Places(ends) == [j \in 1..Len(ends) |-> Placed(ends, j)]

LEMMA PlacesPermute ==
    ASSUME NEW ends \in Seq(Nat)
    PROVE  Places(ends) \in Bijection(1..Len(ends), 1..Len(ends))
<1> DEFINE m == Len(ends)
           place == Places(ends)
<1>1. m \in Nat /\ DOMAIN ends = 1..m
    OBVIOUS
<1>2. place \in [1..m -> 1..m]
    BY <1>1, PlacedInSlice DEF Places
<1>3. ASSUME NEW i \in 1..m, NEW j \in 1..m, place[i] = place[j] PROVE i = j
    <2>1. Placed(ends, i) = Placed(ends, j)
        BY <1>3 DEF Places
    <2>2. ~ (i < j) /\ ~ (j < i)
        BY <1>1, <2>1, PlacedOnce
    <2> QED
        BY <1>1, <2>2
<1> HIDE DEF place
<1>4. place \in Injection(1..m, 1..m)
    BY <1>2, <1>3 DEF Injection, IsInjective
<1>5. IsFiniteSet(1..m)
    BY <1>1, FirstFew
<1>6. place \in Surjection(1..m, 1..m)
    BY <1>4, <1>5, FS_Injection
<1> QED
    BY <1>4, <1>6 DEF place, Bijection

LEMMA PlacedOnto ==
    ASSUME NEW ends \in Seq(Nat), NEW p \in 1..Len(ends)
    PROVE  \E j \in DOMAIN ends : Placed(ends, j) = p
<1>1. PICK j \in 1..Len(ends) : Places(ends)[j] = p
    BY PlacesPermute DEF Bijection, Surjection
<1> QED
    BY <1>1 DEF Places

\* The packed edges are the edges, each in the slice of its end.
LEMMA PackedProperties ==
    ASSUME NEW S, NEW es \in Seq(S), NEW ends \in Seq(Nat), Len(ends) = Len(es)
    PROVE  /\ Packed(es, ends) \in Seq(S) /\ Len(Packed(es, ends)) = Len(es)
           /\ \A p \in 1..Len(es) : \E j \in 1..Len(es) :
                 Placed(ends, j) = p /\ Packed(es, ends)[p] = es[j]
           /\ \A j \in 1..Len(es) : Packed(es, ends)[Placed(ends, j)] = es[j]
<1> DEFINE m == Len(es)
           Where(p) == CHOOSE j \in DOMAIN es : Placed(ends, j) = p
<1>1. m \in Nat /\ DOMAIN ends = 1..m /\ DOMAIN es = 1..m
    OBVIOUS
<1>2. ASSUME NEW p \in 1..m PROVE Where(p) \in 1..m /\ Placed(ends, Where(p)) = p
    BY <1>1, PlacedOnto
<1>3. \A p \in 1..m : Packed(es, ends)[p] = es[Where(p)]
    BY <1>1 DEF Packed
<1>4. Packed(es, ends) \in [1..m -> S]
    <2>1. \A p \in 1..m : es[Where(p)] \in S
        BY <1>1, <1>2
    <2> QED
        BY <1>1, <2>1 DEF Packed
<1>5. Packed(es, ends) \in Seq(S) /\ Len(Packed(es, ends)) = m
    BY <1>1, <1>4, DefinedSeq
<1> HIDE DEF Where
<1>6. ASSUME NEW j \in 1..m PROVE Packed(es, ends)[Placed(ends, j)] = es[j]
    <2>1. Placed(ends, j) \in 1..m
        BY <1>1, PlacedInSlice
    <2>2. Where(Placed(ends, j)) \in 1..m /\ Placed(ends, Where(Placed(ends, j))) = Placed(ends, j)
        BY <1>2, <2>1
    <2>3. Where(Placed(ends, j)) = j
        <3> DEFINE i == Where(Placed(ends, j))
        <3> HIDE DEF i
        <3>1. i \in 1..m /\ Placed(ends, i) = Placed(ends, j)
            BY <2>2 DEF i
        <3>2. ~ (i < j) /\ ~ (j < i)
            BY <1>1, <3>1, PlacedOnce
        <3>3. i = j
            BY <1>1, <3>1, <3>2
        <3> QED
            BY <3>3 DEF i
    <2> QED
        BY <1>3, <2>1, <2>3
<1> QED
    BY <1>2, <1>3, <1>5, <1>6

Targetless(e) == [to |-> e.to, src |-> e.src, dst |-> e.dst, origin |-> e.origin]

LEMMA BuildFields ==
    ASSUME NEW ns, NEW es
    PROVE  /\ Build(ns, es).nodes = ns
           /\ Build(ns, es).offsets = Offsets(Len(ns), Sources(es))
           /\ Build(ns, es).edges =
                 [k \in DOMAIN es |-> Targetless(Packed(es, Sources(es))[k])]
BY DEF Build, Targetless

\* The edges of a graph whose nodes are Ents, and what is between its nodes.
EdgeSet(Ents, Origins) == [from : Nat, to : Nat, src : Ents, dst : Ents, origin : Origins]

Inside(es, n) == \A j \in DOMAIN es : es[j].from < n /\ es[j].to < n

LEMMA SourcesOfEdges ==
    ASSUME NEW Ents, NEW Origins, NEW es \in Seq(EdgeSet(Ents, Origins))
    PROVE  /\ Sources(es) \in Seq(Nat) /\ Len(Sources(es)) = Len(es)
           /\ \A k \in 1..Len(es) : Sources(es)[k] = es[k].from
<1>1. Len(es) \in Nat /\ DOMAIN es = 1..Len(es) /\ \A k \in 1..Len(es) : es[k] \in EdgeSet(Ents, Origins)
    OBVIOUS
<1>2. \A k \in 1..Len(es) : es[k].from \in Nat
    BY <1>1 DEF EdgeSet
<1>3. Sources(es) \in [1..Len(es) -> Nat]
    BY <1>1, <1>2 DEF Sources
<1>4. Sources(es) \in Seq(Nat) /\ Len(Sources(es)) = Len(es)
    BY <1>1, <1>3, DefinedSeq
<1> QED
    BY <1>1, <1>4 DEF Sources

\* What CsrGraph::build packs, the iteration over nodes and neighbours unpacks,
\* sorted by source: no edge is lost or changed and none is added.
LEMMA BuiltIsPacked ==
    ASSUME NEW Ents, NEW Origins, NEW ns, Len(ns) \in Nat,
           NEW es \in Seq(EdgeSet(Ents, Origins)), Inside(es, Len(ns))
    PROVE  AllEdges(Build(ns, es)) = Packed(es, Sources(es))
<1> DEFINE n == Len(ns)
           m == Len(es)
           ends == Sources(es)
           f == Packed(es, Sources(es))
           g == Build(ns, es)
           c == [i \in 0..n |-> SliceStart(ends, i)]
           slim == [k \in DOMAIN es |-> Targetless(f[k])]
<1>1. n \in Nat /\ m \in Nat /\ DOMAIN es = 1..m
    OBVIOUS
<1>2. ends \in Seq(Nat) /\ Len(ends) = m /\ DOMAIN ends = 1..m
        /\ \A k \in 1..m : ends[k] = es[k].from
    BY SourcesOfEdges
<1>3. \A k \in DOMAIN ends : ends[k] < n
    BY <1>1, <1>2 DEF Inside
<1>4. f \in Seq(EdgeSet(Ents, Origins)) /\ Len(f) = m /\ DOMAIN f = 1..m
        /\ \A p \in 1..m : \E j \in 1..m : Placed(ends, j) = p /\ f[p] = es[j]
    <2> HIDE DEF ends
    <2>1. /\ Packed(es, ends) \in Seq(EdgeSet(Ents, Origins)) /\ Len(Packed(es, ends)) = m
          /\ \A p \in 1..m : \E j \in 1..m : Placed(ends, j) = p /\ Packed(es, ends)[p] = es[j]
        BY <1>2, PackedProperties
    <2>2. f = Packed(es, ends)
        BY DEF ends
    <2> HIDE DEF f
    <2>3. /\ f \in Seq(EdgeSet(Ents, Origins)) /\ Len(f) = m
          /\ \A p \in 1..m : \E j \in 1..m : Placed(ends, j) = p /\ f[p] = es[j]
        BY ONLY <2>1, <2>2
    <2> QED
        BY <1>1, <2>3
<1>5. /\ \A a \in Nat : SliceStart(ends, a) \in Nat /\ SliceStart(ends, a) <= m
      /\ \A a, b \in Nat : a <= b => SliceStart(ends, a) <= SliceStart(ends, b)
      /\ SliceStart(ends, 0) = 0 /\ SliceStart(ends, n) = m
    BY <1>1, <1>2, <1>3, SliceStartProperties
<1>6. /\ NumNodes(g) = n
      /\ g.offsets = [i \in 1..(n + 1) |-> SliceStart(ends, i - 1)]
      /\ g.edges = slim
    BY BuildFields DEF NumNodes, Offsets
<1> HIDE DEF g, f
<1>7. /\ slim \in Seq({Targetless(f[k]) : k \in 1..m}) /\ Len(slim) = m
      /\ \A k \in 1..m : slim[k] \in {Targetless(f[j]) : j \in 1..m}
    <2>1. slim \in [1..m -> {Targetless(f[k]) : k \in 1..m}]
        BY <1>1
    <2> HIDE DEF slim
    <2> QED
        BY <1>1, <2>1, DefinedSeq
<1> HIDE DEF ends
<1>8. ASSUME NEW i \in 1..n
      PROVE  /\ c[i - 1] = SliceStart(ends, i - 1) /\ c[i] = SliceStart(ends, i)
             /\ c[i - 1] \in Nat /\ c[i] \in Nat /\ c[i - 1] <= c[i] /\ c[i] <= m
    <2>1. i - 1 \in 0..n /\ i \in 0..n /\ i - 1 \in Nat /\ i \in Nat /\ i - 1 <= i
        BY <1>1
    <2> QED
        BY <1>5, <2>1
<1>9. c \in [0..n -> Nat] /\ c[0] = 0 /\ c[n] = m
    BY <1>1, <1>5
<1> HIDE DEF c, slim
<1>10. ASSUME NEW i \in 1..n
       PROVE  Neighbors(g, i - 1) = [k \in 1..(c[i] - c[i - 1]) |-> Targetless(f[c[i - 1] + k])]
    <2>1. /\ (i - 1) + 1 = i /\ (i - 1) + 2 = i + 1 /\ i + 1 \in 1..(n + 1) /\ i \in 1..(n + 1)
          /\ (i + 1) - 1 = i /\ ~ (i >= n + 1)
        BY <1>1
    <2>2. g.offsets[i] = c[i - 1] /\ g.offsets[i + 1] = c[i]
        BY <1>6, <1>8, <2>1
    <2>3. Len(g.offsets) = n + 1
        BY <1>1, <1>6
    <2>4. Neighbors(g, i - 1) = SubSeq(slim, c[i - 1] + 1, c[i])
        BY <1>6, <2>1, <2>2, <2>3 DEF Neighbors, Slice
    <2>5. c[i - 1] \in Nat /\ c[i] \in Nat /\ c[i - 1] <= c[i] /\ c[i] <= m
        BY <1>8
    <2>6. SubSeq(slim, c[i - 1] + 1, c[i])
            = [k \in 1..(c[i] - c[i - 1]) |-> slim[c[i - 1] + k]]
        <3>1. (1 + c[i] - (c[i - 1] + 1)) = c[i] - c[i - 1]
            BY <2>5
        <3>2. \A k \in 1..(c[i] - c[i - 1]) : c[i - 1] + 1 + k - 1 = c[i - 1] + k
            BY <2>5
        <3> DEFINE T == {Targetless(f[k]) : k \in 1..m}
                   a == c[i - 1] + 1
                   b == c[i]
                   s == SubSeq(slim, a, b)
        <3>3. a \in Int /\ b \in Int /\ b - a + 1 = c[i] - c[i - 1]
            BY <2>5
        <3>4. \A k \in a..b : slim[k] \in T
            <4>1. \A k \in a..b : k \in 1..m
                BY <1>1, <2>5
            <4> QED
                BY <1>7, <4>1
        <3> HIDE DEF T, a, b
        <3>5. /\ s \in Seq(T) /\ Len(s) = IF a <= b THEN b - a + 1 ELSE 0
              /\ \A k \in 1..(b - a + 1) : s[k] = slim[a + k - 1]
            BY <3>3, <3>4, SubSeqProperties
        <3>6. Len(s) = c[i] - c[i - 1]
            BY <2>5, <3>3, <3>5 DEF a, b
        <3>7. \A k \in 1..(c[i] - c[i - 1]) : s[k] = slim[c[i - 1] + k]
            BY <3>2, <3>3, <3>5 DEF a, b
        <3>8. s = [k \in 1..(c[i] - c[i - 1]) |-> s[k]]
            <4> DEFINE l == c[i] - c[i - 1]
            <4> HIDE DEF s, l
            <4>1. s \in Seq(T) /\ Len(s) = l
                BY <3>5, <3>6 DEF l
            <4>2. s = [k \in 1..l |-> s[k]]
                BY ONLY <4>1
            <4> QED
                BY <4>2 DEF l
        <3>9. s = [k \in 1..(c[i] - c[i - 1]) |-> slim[c[i - 1] + k]]
            BY <3>7, <3>8
        <3> QED
            BY <3>9 DEF a, b
    <2>7. \A k \in 1..(c[i] - c[i - 1]) : slim[c[i - 1] + k] = Targetless(f[c[i - 1] + k])
        <3>1. m \in Nat
            BY <1>1
        <3>2. \A k \in 1..(c[i] - c[i - 1]) : c[i - 1] + k \in 1..m
            BY ONLY <2>5, <3>1
        <3>3. \A p \in 1..m : slim[p] = Targetless(f[p])
            BY DEF slim
        <3> QED
            BY ONLY <3>2, <3>3
    <2> QED
        BY <2>4, <2>6, <2>7
<1>11. ASSUME NEW i \in 1..n, NEW k \in 1..(c[i] - c[i - 1])
       PROVE  f[c[i - 1] + k] \in EdgeSet(Ents, Origins) /\ f[c[i - 1] + k].from = i - 1
    <2> DEFINE p == c[i - 1] + k
    <2>1. p \in 1..m /\ SliceStart(ends, i - 1) < p /\ p <= SliceStart(ends, i)
        <3>1. m \in Nat
            BY <1>1
        <3>2. /\ c[i - 1] = SliceStart(ends, i - 1) /\ c[i] = SliceStart(ends, i)
              /\ c[i - 1] \in Nat /\ c[i] \in Nat /\ c[i - 1] <= c[i] /\ c[i] <= m
            BY <1>8
        <3>3. k \in 1..(c[i] - c[i - 1])
            OBVIOUS
        <3>4. p \in 1..m /\ c[i - 1] < p /\ p <= c[i]
            BY ONLY <3>1, <3>2, <3>3
        <3> QED
            BY ONLY <3>2, <3>4
    <2>2. PICK j \in 1..m : Placed(ends, j) = p /\ f[p] = es[j]
        BY <1>4, <2>1
    <2>3. ends[j] \in Nat /\ ends[j] = es[j].from /\ es[j] \in EdgeSet(Ents, Origins)
        BY <1>1, <1>2
    <2>4. SliceStart(ends, ends[j]) < p /\ p <= SliceStart(ends, ends[j] + 1)
        BY <1>2, <2>2, PlacedInSlice
    <2>5. ends[j] <= i - 1
        <3>1. CASE i <= ends[j]
            <4>1. i \in Nat
                BY <1>1
            <4>2. SliceStart(ends, i) <= SliceStart(ends, ends[j])
                BY <1>5, <2>3, <3>1, <4>1
            <4>3. SliceStart(ends, i) \in Nat /\ SliceStart(ends, ends[j]) \in Nat
                BY <1>5, <2>3, <4>1
            <4> QED
                BY <2>1, <2>4, <4>2, <4>3
        <3> QED
            BY <1>1, <2>3, <3>1
    <2>6. i - 1 <= ends[j]
        <3>1. CASE ends[j] + 1 <= i - 1
            <4>1. i - 1 \in Nat /\ ends[j] + 1 \in Nat
                BY <1>1, <2>3
            <4>2. SliceStart(ends, ends[j] + 1) <= SliceStart(ends, i - 1)
                BY <1>5, <3>1, <4>1
            <4>3. SliceStart(ends, i - 1) \in Nat /\ SliceStart(ends, ends[j] + 1) \in Nat
                BY <1>5, <4>1
            <4> QED
                BY <2>1, <2>4, <4>2, <4>3
        <3> QED
            BY <1>1, <2>3, <3>1
    <2>7. ends[j] = i - 1
        BY <1>1, <2>3, <2>5, <2>6
    <2> QED
        BY <2>2, <2>3, <2>7
<1> DEFINE part(i) == [k \in DOMAIN Neighbors(g, i - 1) |->
                          LET e == Neighbors(g, i - 1)[k]
                          IN  [from |-> i - 1, to |-> e.to, src |-> e.src, dst |-> e.dst,
                               origin |-> e.origin]]
           seqs == [i \in 1..n |-> part(i)]
<1>12. ASSUME NEW i \in 1..n
       PROVE  part(i) = [k \in 1..(c[i] - c[i - 1]) |-> f[c[i - 1] + k]]
    <2>1. ASSUME NEW k \in 1..(c[i] - c[i - 1])
          PROVE  LET e == Targetless(f[c[i - 1] + k])
                 IN  [from |-> i - 1, to |-> e.to, src |-> e.src, dst |-> e.dst,
                      origin |-> e.origin] = f[c[i - 1] + k]
        <3> DEFINE e == f[c[i - 1] + k]
        <3>1. e \in EdgeSet(Ents, Origins) /\ e.from = i - 1
            BY <1>11
        <3> HIDE DEF e
        <3>2. e = [from |-> e.from, to |-> e.to, src |-> e.src, dst |-> e.dst, origin |-> e.origin]
            BY <3>1 DEF EdgeSet
        <3>3. [from |-> i - 1, to |-> Targetless(e).to, src |-> Targetless(e).src,
               dst |-> Targetless(e).dst, origin |-> Targetless(e).origin] = e
            BY <3>1, <3>2 DEF Targetless
        <3> QED
            BY <3>3 DEF e
    <2>2. part(i) = [k \in 1..(c[i] - c[i - 1]) |->
                        LET e == Targetless(f[c[i - 1] + k])
                        IN  [from |-> i - 1, to |-> e.to, src |-> e.src, dst |-> e.dst,
                             origin |-> e.origin]]
        <3> DEFINE near == Neighbors(g, i - 1)
                   l == c[i] - c[i - 1]
                   Thin(k) == Targetless(f[c[i - 1] + k])
        <3>1. near = [k \in 1..l |-> Thin(k)]
            BY <1>10
        <3>2. part(i) = [k \in DOMAIN near |->
                            [from |-> i - 1, to |-> near[k].to, src |-> near[k].src,
                             dst |-> near[k].dst, origin |-> near[k].origin]]
            OBVIOUS
        <3> HIDE DEF near, l, Thin, part
        <3>3. DOMAIN near = 1..l /\ \A k \in 1..l : near[k] = Thin(k)
            BY ONLY <3>1
        <3>4. part(i) = [k \in 1..l |-> [from |-> i - 1, to |-> Thin(k).to, src |-> Thin(k).src,
                                          dst |-> Thin(k).dst, origin |-> Thin(k).origin]]
            BY ONLY <3>2, <3>3
        <3> QED
            BY <3>4 DEF l, Thin
    <2> QED
        BY <2>1, <2>2
<1>13. seqs \in Seq(Seq(EdgeSet(Ents, Origins))) /\ Len(seqs) = n
    <2>1. ASSUME NEW i \in 1..n PROVE part(i) \in Seq(EdgeSet(Ents, Origins))
        <3> DEFINE piece == [k \in 1..(c[i] - c[i - 1]) |-> f[c[i - 1] + k]]
        <3>0. part(i) = piece /\ piece \in [1..(c[i] - c[i - 1]) -> EdgeSet(Ents, Origins)]
            BY <1>11, <1>12
        <3>1. part(i) \in [1..(c[i] - c[i - 1]) -> EdgeSet(Ents, Origins)]
            BY ONLY <3>0
        <3>2. c[i] - c[i - 1] \in Nat
            BY <1>8
        <3> HIDE DEF part
        <3> QED
            BY <3>1, <3>2, DefinedSeq
    <2> HIDE DEF part
    <2>2. seqs \in [1..n -> Seq(EdgeSet(Ents, Origins))]
        BY <2>1
    <2> HIDE DEF seqs
    <2> QED
        BY <1>1, <2>2, DefinedSeq
<1>14. AllEdges(g) = Seqs!FlattenSeq(seqs)
    BY <1>6 DEF AllEdges
<1> HIDE DEF part
<1>15. \A i \in 1..n : seqs[i] = [k \in 1..(c[i] - c[i - 1]) |-> f[c[i - 1] + k]]
    BY <1>12
<1> HIDE DEF seqs
<1>16. ASSUME NEW i \in 1..n
       PROVE  /\ Len(seqs[i]) = c[i] - c[i - 1]
              /\ \A k \in 1..(c[i] - c[i - 1]) : seqs[i][k] = f[c[i - 1] + k]
    <2>1. seqs[i] \in Seq(EdgeSet(Ents, Origins))
        BY <1>1, <1>13
    <2>2. c[i] - c[i - 1] \in Nat
        BY <1>8
    <2>3. seqs[i] = [k \in 1..(c[i] - c[i - 1]) |-> f[c[i - 1] + k]]
        BY <1>15
    <2>4. DOMAIN seqs[i] = 1..(c[i] - c[i - 1])
            /\ \A k \in 1..(c[i] - c[i - 1]) : seqs[i][k] = f[c[i - 1] + k]
        BY <2>3
    <2>5. Len(seqs[i]) = c[i] - c[i - 1]
        BY <2>1, <2>2, <2>4
    <2> QED
        BY <2>4, <2>5
<1>17. Seqs!FlattenSeq(seqs) = f
    <2>1. Cuts(f, c, n)
        BY <1>4, <1>8, <1>9 DEF Cuts
    <2>2. Slices(seqs, f, c, n)
        BY <1>13, <1>16 DEF Slices
    <2> HIDE DEF n
    <2> QED
        BY <1>1, <1>4, <1>13, <2>1, <2>2, FlattenSlices
<1> QED
    BY <1>14, <1>17 DEF g, f

\* Building the graph keeps the edges (CsrGraph::build, and the exports and merges
\* that unpack it): what is read back is a rearrangement of what was packed.
THEOREM PackingKeepsEdges ==
    ASSUME NEW Ents, NEW Origins, NEW ns, Len(ns) \in Nat,
           NEW es \in Seq(EdgeSet(Ents, Origins)), Inside(es, Len(ns))
    PROVE  /\ AllEdges(Build(ns, es)) \in Seq(EdgeSet(Ents, Origins))
           /\ Len(AllEdges(Build(ns, es))) = Len(es)
           /\ \E place \in Bijection(1..Len(es), 1..Len(es)) :
                 \A j \in 1..Len(es) : AllEdges(Build(ns, es))[place[j]] = es[j]
<1>1. AllEdges(Build(ns, es)) = Packed(es, Sources(es))
    BY BuiltIsPacked
<1>2. Sources(es) \in Seq(Nat) /\ Len(Sources(es)) = Len(es)
    BY SourcesOfEdges
<1>3. /\ Packed(es, Sources(es)) \in Seq(EdgeSet(Ents, Origins)) /\ Len(Packed(es, Sources(es))) = Len(es)
      /\ \A j \in 1..Len(es) : Packed(es, Sources(es))[Placed(Sources(es), j)] = es[j]
    BY <1>2, PackedProperties
<1>4. Places(Sources(es)) \in Bijection(1..Len(es), 1..Len(es))
    BY <1>2, PlacesPermute
<1>5. \A j \in 1..Len(es) : Packed(es, Sources(es))[Places(Sources(es))[j]] = es[j]
    BY <1>2, <1>3 DEF Places
<1> QED
    BY <1>1, <1>3, <1>4, <1>5

(***************************************************************************)
(* Sequences and their elements.                                           *)
(***************************************************************************)
LEMMA ItemsOf ==
    ASSUME NEW S, NEW s \in Seq(S)
    PROVE  /\ \A i \in 1..Len(s) : s[i] \in S /\ s[i] \in Items(s)
           /\ \A x \in Items(s) : x \in S /\ \E i \in 1..Len(s) : s[i] = x
           /\ DOMAIN s = 1..Len(s) /\ Len(s) \in Nat
<1>1. DOMAIN s = 1..Len(s) /\ Len(s) \in Nat /\ \A i \in 1..Len(s) : s[i] \in S
    OBVIOUS
<1> QED
    BY <1>1 DEF Items

\* z is t put behind s.
Behind(S, z, s, t) ==
    /\ z \in Seq(S) /\ Len(z) = Len(s) + Len(t)
    /\ \A i \in 1..Len(s) : z[i] = s[i]
    /\ \A i \in 1..Len(t) : z[Len(s) + i] = t[i]

\* A concatenation is that.
LEMMA ConcatBehind ==
    ASSUME NEW S, NEW s \in Seq(S), NEW t \in Seq(S)
    PROVE  Behind(S, s \o t, s, t)
<1>1. /\ s \o t \in Seq(S) /\ Len(s \o t) = Len(s) + Len(t)
      /\ \A i \in 1..(Len(s) + Len(t)) : (s \o t)[i] = IF i <= Len(s) THEN s[i] ELSE t[i - Len(s)]
    BY ConcatProperties
<1>2. Len(s) \in Nat /\ Len(t) \in Nat
    OBVIOUS
<1>3. ASSUME NEW i \in 1..Len(s) PROVE (s \o t)[i] = s[i]
    <2>1. i \in 1..(Len(s) + Len(t)) /\ i <= Len(s)
        BY <1>2
    <2> QED
        BY <1>1, <2>1
<1>4. ASSUME NEW i \in 1..Len(t) PROVE (s \o t)[Len(s) + i] = t[i]
    <2>1. Len(s) + i \in 1..(Len(s) + Len(t)) /\ ~ (Len(s) + i <= Len(s)) /\ (Len(s) + i) - Len(s) = i
        BY <1>2
    <2> QED
        BY <1>1, <2>1
<1> QED
    BY <1>1, <1>3, <1>4 DEF Behind

\* The elements of a concatenation are those of its parts.
LEMMA ConcatItems ==
    ASSUME NEW S, NEW s \in Seq(S), NEW t \in Seq(S)
    PROVE  /\ s \o t \in Seq(S) /\ Len(s \o t) = Len(s) + Len(t)
           /\ \A i \in 1..Len(s) : (s \o t)[i] = s[i]
           /\ \A i \in 1..Len(t) : (s \o t)[Len(s) + i] = t[i]
           /\ \A x : x \in Items(s \o t) <=> x \in Items(s) \/ x \in Items(t)
<1>1. /\ s \o t \in Seq(S) /\ Len(s \o t) = Len(s) + Len(t)
      /\ \A i \in 1..(Len(s) + Len(t)) : (s \o t)[i] = IF i <= Len(s) THEN s[i] ELSE t[i - Len(s)]
    BY ConcatProperties
<1>2. Len(s) \in Nat /\ Len(t) \in Nat /\ DOMAIN s = 1..Len(s) /\ DOMAIN t = 1..Len(t)
    OBVIOUS
<1>3. DOMAIN (s \o t) = 1..(Len(s) + Len(t))
    BY <1>1
<1>4. ASSUME NEW i \in 1..Len(s) PROVE (s \o t)[i] = s[i] /\ i \in 1..(Len(s) + Len(t))
    <2>1. i \in 1..(Len(s) + Len(t)) /\ i <= Len(s)
        BY <1>2
    <2> QED
        BY <1>1, <2>1
<1>5. ASSUME NEW i \in 1..Len(t) PROVE (s \o t)[Len(s) + i] = t[i] /\ Len(s) + i \in 1..(Len(s) + Len(t))
    <2>1. Len(s) + i \in 1..(Len(s) + Len(t)) /\ ~ (Len(s) + i <= Len(s)) /\ (Len(s) + i) - Len(s) = i
        BY <1>2
    <2> QED
        BY <1>1, <2>1
<1>6. ASSUME NEW i \in 1..(Len(s) + Len(t))
      PROVE  i \in 1..Len(s) \/ \E j \in 1..Len(t) : i = Len(s) + j
    <2>1. CASE i <= Len(s)
        BY <1>2, <2>1
    <2>2. CASE ~ (i <= Len(s))
        <3>1. i - Len(s) \in 1..Len(t) /\ i = Len(s) + (i - Len(s))
            BY <1>2, <2>2
        <3> QED
            BY <3>1
    <2> QED
        BY <2>1, <2>2
<1>7. ASSUME NEW x, x \in Items(s \o t) PROVE x \in Items(s) \/ x \in Items(t)
    <2>1. PICK i \in 1..(Len(s) + Len(t)) : x = (s \o t)[i]
        BY <1>3, <1>7 DEF Items
    <2>2. CASE i \in 1..Len(s)
        BY <1>2, <1>4, <2>1, <2>2 DEF Items
    <2>3. CASE \E j \in 1..Len(t) : i = Len(s) + j
        BY <1>2, <1>5, <2>1, <2>3 DEF Items
    <2> QED
        BY <1>6, <2>2, <2>3
<1>8. ASSUME NEW x, x \in Items(s) PROVE x \in Items(s \o t)
    <2>1. PICK i \in 1..Len(s) : x = s[i]
        BY <1>2, <1>8 DEF Items
    <2> QED
        BY <1>3, <1>4, <2>1 DEF Items
<1>9. ASSUME NEW x, x \in Items(t) PROVE x \in Items(s \o t)
    <2>1. PICK i \in 1..Len(t) : x = t[i]
        BY <1>2, <1>9 DEF Items
    <2> QED
        BY <1>3, <1>5, <2>1 DEF Items
<1> QED
    BY <1>1, <1>4, <1>5, <1>7, <1>8, <1>9

LEMMA PushItems ==
    ASSUME NEW S, NEW s \in Seq(S), NEW x \in S
    PROVE  /\ s \o <<x>> \in Seq(S) /\ Len(s \o <<x>>) = Len(s) + 1
           /\ \A i \in 1..Len(s) : (s \o <<x>>)[i] = s[i]
           /\ (s \o <<x>>)[Len(s) + 1] = x
           /\ \A y : y \in Items(s \o <<x>>) <=> y \in Items(s) \/ y = x
<1> DEFINE t == <<x>>
<1>1. t \in Seq(S) /\ Len(t) = 1 /\ t[1] = x /\ 1 \in 1..Len(t)
    OBVIOUS
<1>2. \A y : y \in Items(t) <=> y = x
    BY DEF Items
<1> HIDE DEF t
<1>3. /\ s \o t \in Seq(S) /\ Len(s \o t) = Len(s) + Len(t)
      /\ \A i \in 1..Len(s) : (s \o t)[i] = s[i]
      /\ \A i \in 1..Len(t) : (s \o t)[Len(s) + i] = t[i]
      /\ \A y : y \in Items(s \o t) <=> y \in Items(s) \/ y \in Items(t)
    BY <1>1, ConcatItems
<1>4. /\ s \o t \in Seq(S) /\ Len(s \o t) = Len(s) + 1
      /\ \A i \in 1..Len(s) : (s \o t)[i] = s[i]
      /\ (s \o t)[Len(s) + 1] = x
      /\ \A y : y \in Items(s \o t) <=> y \in Items(s) \/ y = x
    BY <1>1, <1>2, <1>3
<1> QED
    BY <1>4 DEF t

LEMMA BuiltSame ==
    ASSUME NEW Ents, NEW Origins, NEW ns, Len(ns) \in Nat,
           NEW es \in Seq(EdgeSet(Ents, Origins)), Inside(es, Len(ns))
    PROVE  \A e : e \in Items(AllEdges(Build(ns, es))) <=> e \in Items(es)
<1> DEFINE ps == AllEdges(Build(ns, es))
<1>1. ps = Packed(es, Sources(es))
    BY BuiltIsPacked
<1>2. Sources(es) \in Seq(Nat) /\ Len(Sources(es)) = Len(es)
    BY SourcesOfEdges
<1>3. /\ ps \in Seq(EdgeSet(Ents, Origins)) /\ Len(ps) = Len(es)
      /\ \A p \in 1..Len(es) : \E j \in 1..Len(es) : ps[p] = es[j]
      /\ \A j \in 1..Len(es) : ps[Placed(Sources(es), j)] = es[j]
    <2>1. es \in Seq(EdgeSet(Ents, Origins))
        OBVIOUS
    <2> HIDE DEF ps
    <2> QED
        BY ONLY <1>1, <1>2, <2>1, PackedProperties
<1>4. \A j \in 1..Len(es) : Placed(Sources(es), j) \in 1..Len(es)
    <2>1. DOMAIN Sources(es) = 1..Len(es)
        BY <1>2
    <2> QED
        BY <1>2, <2>1, PlacedInSlice
<1> HIDE DEF ps
<1>5. DOMAIN es = 1..Len(es) /\ DOMAIN ps = 1..Len(es)
    BY <1>3
<1>6. ASSUME NEW e, e \in Items(ps) PROVE e \in Items(es)
    <2>1. PICK p \in 1..Len(es) : e = ps[p]
        BY <1>5, <1>6 DEF Items
    <2>2. PICK j \in 1..Len(es) : ps[p] = es[j]
        BY <1>3
    <2> QED
        BY <1>5, <2>1, <2>2 DEF Items
<1>7. ASSUME NEW e, e \in Items(es) PROVE e \in Items(ps)
    <2>1. PICK j \in 1..Len(es) : e = es[j]
        BY <1>5, <1>7 DEF Items
    <2>2. Placed(Sources(es), j) \in 1..Len(es) /\ ps[Placed(Sources(es), j)] = e
        BY <1>3, <1>4, <2>1
    <2> QED
        BY <1>5, <2>2 DEF Items
<1> QED
    BY <1>6, <1>7 DEF ps

(***************************************************************************)
(* Induction and recursion over an interval.                               *)
(***************************************************************************)
LEMMA UpTo ==
    ASSUME NEW n \in Nat, NEW T, 0 \in T, \A k \in 1..n : k - 1 \in T => k \in T
    PROVE  \A k \in 0..n : k \in T
<1>1. SUFFICES ASSUME NEW j \in 0..n, j \notin T PROVE FALSE
    OBVIOUS
<1> DEFINE U == {k \in 0..n : k \notin T}
<1>2. U \subseteq Nat /\ j \in U
    BY <1>1
<1>3. PICK k \in U : \A y \in U : k <= y
    <2> HIDE DEF U
    <2> QED
        BY <1>2, LeastNat
<1>4. k \in 0..n /\ k \notin T /\ k # 0
    BY <1>3
<1>5. k \in 1..n /\ k - 1 \in 0..n /\ ~ (k <= k - 1)
    BY <1>4
<1>6. k - 1 \in T
    BY <1>3, <1>5
<1> QED
    BY <1>4, <1>5, <1>6

\* A function that is given its values one after the other exists.
Stepwise(g, m, S, base, step) ==
    /\ g \in [0..m -> S] /\ g[0] = base
    /\ \A k \in 1..m : g[k] = step[g[k - 1], k]

LEMMA StepwiseExists ==
    ASSUME NEW S, NEW base \in S, NEW n \in Nat, NEW step \in [S \X (1..n) -> S]
    PROVE  \E g : Stepwise(g, n, S, base, step)
<1> DEFINE T == {m \in 0..n : \E g : Stepwise(g, m, S, base, step)}
<1>1. 0 \in T
    <2> DEFINE g == [k \in 0..0 |-> base]
    <2>1. Stepwise(g, 0, S, base, step)
        BY DEF Stepwise
    <2>2. 0 \in 0..n
        OBVIOUS
    <2> QED
        BY <2>1, <2>2, Zenon
<1>2. ASSUME NEW m \in 1..n, m - 1 \in T PROVE m \in T
    <2>1. PICK g : Stepwise(g, m - 1, S, base, step)
        BY <1>2
    <2> DEFINE l == m - 1
    <2>2. l \in Nat /\ m = l + 1 /\ m \in Nat
        OBVIOUS
    <2> HIDE DEF l
    <2>3. g \in [0..l -> S] /\ g[0] = base /\ \A k \in 1..l : g[k] = step[g[k - 1], k]
        BY <2>1 DEF Stepwise, l
    <2>4. g[l] \in S
        <3>1. l \in 0..l
            BY <2>2
        <3>2. g \in [0..l -> S]
            BY <2>3
        <3> QED
            BY ONLY <3>1, <3>2
    <2> DEFINE v == step[g[l], m]
               h == [k \in 0..m |-> IF k = m THEN v ELSE g[k]]
    <2>5. v \in S
        BY <2>4
    <2> HIDE DEF v
    <2>6. h \in [0..m -> S]
        <3>1. \A k \in 0..m : k # m => k \in 0..l
            BY <2>2
        <3> QED
            BY <2>3, <2>5, <3>1
    <2>7. h[0] = base
        <3>1. 0 # m /\ 0 \in 0..m
            BY <2>2
        <3> QED
            BY <2>3, <3>1
    <2>8. ASSUME NEW k \in 1..m PROVE h[k] = step[h[k - 1], k]
        <3>1. k - 1 \in 0..m /\ k - 1 # m /\ k \in 0..m
            BY <2>2
        <3>2. h[k - 1] = g[k - 1]
            BY <3>1
        <3>3. CASE k = m
            <4>1. h[k] = v /\ k - 1 = l
                BY <2>2, <3>1, <3>3
            <4> QED
                BY <3>2, <3>3, <4>1 DEF v
        <3>4. CASE k # m
            <4>1. k \in 1..l /\ h[k] = g[k]
                BY <2>2, <3>1, <3>4
            <4> QED
                BY <2>3, <3>2, <4>1
        <3> QED
            BY <3>3, <3>4
    <2> HIDE DEF h
    <2>9. Stepwise(h, m, S, base, step)
        BY <2>6, <2>7, <2>8 DEF Stepwise
    <2>10. m \in 0..n
        OBVIOUS
    <2> QED
        BY <2>9, <2>10, Zenon
<1> HIDE DEF T
<1>3. n \in T
    BY <1>1, <1>2, UpTo
<1> QED
    BY <1>3 DEF T

(***************************************************************************)
(* The places that a strict order gives to the elements of a finite set.   *)
(***************************************************************************)
IsStrictOrder(before, D) ==
    /\ \A i \in D : <<i, i>> \notin before
    /\ \A i, j, k \in D : <<i, j>> \in before /\ <<j, k>> \in before => <<i, k>> \in before
    /\ \A i, j \in D : i = j \/ <<i, j>> \in before \/ <<j, i>> \in before

PlacesOf(before, D) == [j \in D |-> Cardinality({i \in D : <<i, j>> \in before}) + 1]

LEMMA PlacesInOrder ==
    ASSUME NEW D, IsFiniteSet(D), NEW before, IsStrictOrder(before, D)
    PROVE  /\ Cardinality(D) \in Nat
           /\ PlacesOf(before, D) \in Bijection(D, 1..Cardinality(D))
           /\ \A i, j \in D :
                 <<i, j>> \in before <=> PlacesOf(before, D)[i] < PlacesOf(before, D)[j]
<1> DEFINE c == Cardinality(D)
           Lower(j) == {i \in D : <<i, j>> \in before}
           place == PlacesOf(before, D)
<1>1. c \in Nat
    BY FS_CardinalityType
<1>2. ASSUME NEW j \in D
      PROVE  /\ IsFiniteSet(Lower(j)) /\ Cardinality(Lower(j)) \in Nat /\ Cardinality(Lower(j)) < c
             /\ place[j] = Cardinality(Lower(j)) + 1
    <2>1. Lower(j) \in SUBSET D /\ j \notin Lower(j)
        BY DEF IsStrictOrder
    <2>2. IsFiniteSet(Lower(j)) /\ Cardinality(Lower(j)) <= c /\ (c = Cardinality(Lower(j)) => D = Lower(j))
        BY <2>1, FS_Subset
    <2>3. Cardinality(Lower(j)) \in Nat /\ c # Cardinality(Lower(j))
        BY <2>1, <2>2, FS_CardinalityType
    <2>4. place[j] = Cardinality(Lower(j)) + 1
        BY DEF PlacesOf
    <2> QED
        BY <1>1, <2>2, <2>3, <2>4
<1>3. ASSUME NEW i \in D, NEW j \in D, <<i, j>> \in before
      PROVE  Cardinality(Lower(i)) < Cardinality(Lower(j))
    <2>1. Lower(i) \in SUBSET Lower(j) /\ i \in Lower(j) /\ i \notin Lower(i)
        BY <1>3 DEF IsStrictOrder
    <2>2. IsFiniteSet(Lower(j))
        BY <1>2
    <2>3. Cardinality(Lower(i)) <= Cardinality(Lower(j))
            /\ (Cardinality(Lower(j)) = Cardinality(Lower(i)) => Lower(j) = Lower(i))
        BY <2>1, <2>2, FS_Subset
    <2>4. Cardinality(Lower(i)) # Cardinality(Lower(j))
        BY <2>1, <2>3
    <2>5. Cardinality(Lower(i)) \in Nat /\ Cardinality(Lower(j)) \in Nat
        BY <1>2
    <2> QED
        BY <2>3, <2>4, <2>5
<1> HIDE DEF Lower, c
<1>4. \A i \in D : place[i] \in 1..c
    BY <1>1, <1>2
<1>5. \A i, j \in D : <<i, j>> \in before => place[i] < place[j]
    BY <1>2, <1>3
<1>6. \A i, j \in D : place[i] < place[j] => <<i, j>> \in before
    <2>1. SUFFICES ASSUME NEW i \in D, NEW j \in D, place[i] < place[j], <<i, j>> \notin before
                   PROVE  FALSE
        OBVIOUS
    <2>2. i = j \/ place[j] < place[i]
        BY <1>5, <2>1 DEF IsStrictOrder
    <2> QED
        BY <1>1, <1>4, <2>1, <2>2
<1>7. place \in [D -> 1..c]
    BY <1>4 DEF PlacesOf
<1>8. \A i, j \in D : place[i] = place[j] => i = j
    <2>1. SUFFICES ASSUME NEW i \in D, NEW j \in D, place[i] = place[j], i # j PROVE FALSE
        OBVIOUS
    <2>2. place[i] < place[j] \/ place[j] < place[i]
        BY <1>5, <2>1 DEF IsStrictOrder
    <2> QED
        BY <1>1, <1>4, <2>1, <2>2
<1> HIDE DEF place
<1>9. place \in Injection(D, 1..c)
    BY <1>7, <1>8 DEF Injection, IsInjective
<1>10. IsFiniteSet(1..c) /\ Cardinality(1..c) = c
    BY <1>1, FirstFew
<1>11. place \in Surjection(D, 1..c)
    BY <1>9, <1>10, FS_Injection DEF c
<1>12. place \in Bijection(D, 1..c)
    BY <1>9, <1>11 DEF Bijection
<1> QED
    BY <1>1, <1>5, <1>6, <1>12 DEF place, c

(***************************************************************************)
(* Filters.  What is kept of a sequence stands in its order.               *)
(***************************************************************************)
\* t has the elements of s at the places, in their order.
IsKept(t, s, places) ==
    \E rank \in Bijection(places, 1..Len(t)) :
        /\ \A i \in places : t[rank[i]] = s[i]
        /\ \A i, j \in places : i < j <=> rank[i] < rank[j]

LEMMA AtProperties ==
    ASSUME NEW S, NEW s \in Seq(S), NEW places, places \subseteq 1..Len(s)
    PROVE  /\ IsFiniteSet(places) /\ Cardinality(places) \in Nat
           /\ At(s, places) \in Seq(S) /\ Len(At(s, places)) = Cardinality(places)
           /\ IsKept(At(s, places), s, places)
<1> DEFINE c == Cardinality(places)
           before == {p \in places \X places : p[1] < p[2]}
           rank == PlacesOf(before, places)
<1>1. Len(s) \in Nat /\ \A i \in places : i \in Nat /\ i \in 1..Len(s) /\ s[i] \in S
    OBVIOUS
<1>2. IsFiniteSet(places)
    <2>1. IsFiniteSet(1..Len(s))
        BY <1>1, FirstFew
    <2> QED
        BY <2>1, FS_Subset
<1>3. \A i, j \in places : <<i, j>> \in before <=> i < j
    OBVIOUS
<1>4. IsStrictOrder(before, places)
    <2> HIDE DEF before
    <2> QED
        BY <1>1, <1>3 DEF IsStrictOrder
<1>5. /\ c \in Nat
      /\ rank \in Bijection(places, 1..c)
      /\ \A i, j \in places : <<i, j>> \in before <=> rank[i] < rank[j]
    <2> HIDE DEF before
    <2> QED
        BY <1>2, <1>4, PlacesInOrder
<1>6. ASSUME NEW i \in places PROVE rank[i] = Cardinality({j \in places : j <= i})
    <2> DEFINE L == {j \in places : <<j, i>> \in before}
    <2>1. IsFiniteSet(L)
        BY <1>2, FS_Subset
    <2> DEFINE M == {j \in places : j <= i}
    <2>a. \A j : j \in L <=> j \in places /\ <<j, i>> \in before
        OBVIOUS
    <2>b. \A j : j \in M <=> j \in places /\ j <= i
        OBVIOUS
    <2>c. L \subseteq places
        OBVIOUS
    <2> HIDE DEF L, M, before
    <2>d. \A j : j \in L <=> j \in places /\ j < i
        BY <1>3, <2>a
    <2>2. i \notin L /\ L \cup {i} = M
        <3>1. i \in Nat /\ \A j \in places : j \in Nat
            BY <1>1
        <3>2. i \notin L
            BY <2>d, <3>1
        <3>3. ASSUME NEW j PROVE j \in L \cup {i} <=> j \in M
            <4>1. CASE j \in places
                <5>1. j \in Nat /\ i \in places
                    BY <3>1, <4>1
                <5>2. j \in L <=> j < i
                    BY <2>d, <4>1
                <5>3. j \in M <=> j <= i
                    BY <2>b, <4>1
                <5> QED
                    BY <3>1, <5>1, <5>2, <5>3
            <4>2. CASE j \notin places
                BY <2>b, <2>d, <4>2
            <4> QED
                BY <4>1, <4>2
        <3> QED
            BY <3>2, <3>3
    <2>3. Cardinality(L \cup {i}) = Cardinality(L) + 1
        BY <2>1, <2>2, FS_AddElement
    <2>4. rank[i] = Cardinality(L) + 1
        BY DEF PlacesOf, L
    <2> QED
        BY <2>2, <2>3, <2>4 DEF M
<1> HIDE DEF rank, before
<1>7. /\ \A i \in places : rank[i] \in 1..c
      /\ \A k \in 1..c : \E i \in places : rank[i] = k
      /\ \A i, j \in places : rank[i] = rank[j] => i = j
    BY <1>5 DEF Bijection, Injection, Surjection, IsInjective
<1> DEFINE Where(k) == CHOOSE i \in places : Cardinality({j \in places : j <= i}) = k
<1>8. ASSUME NEW k \in 1..c PROVE Where(k) \in places /\ rank[Where(k)] = k
    <2>1. PICK i \in places : rank[i] = k
        BY <1>7
    <2>2. Cardinality({j \in places : j <= i}) = k
        BY <1>6, <2>1
    <2>3. Where(k) \in places /\ Cardinality({j \in places : j <= Where(k)}) = k
        BY <2>2
    <2> HIDE DEF Where
    <2> QED
        BY <1>6, <2>3
<1>9. \A i \in places : Where(rank[i]) = i
    <2> HIDE DEF Where
    <2> QED
        BY <1>7, <1>8
<1>10. At(s, places) = [k \in 1..c |-> s[Where(k)]]
    BY DEF At
<1> HIDE DEF Where
<1>11. At(s, places) \in [1..c -> S]
    BY <1>1, <1>8, <1>10
<1>12. At(s, places) \in Seq(S) /\ Len(At(s, places)) = c
    <2> DEFINE t == At(s, places)
    <2> HIDE DEF t, c
    <2>1. t \in [1..c -> S]
        BY <1>11 DEF t
    <2>2. t \in Seq(S) /\ Len(t) = c
        BY <1>5, <2>1, DefinedSeq
    <2> QED
        BY <2>2 DEF t
<1>13. \A i \in places : At(s, places)[rank[i]] = s[i]
    BY <1>7, <1>9, <1>10
<1>14. IsKept(At(s, places), s, places)
    <2> DEFINE t == At(s, places)
    <2> HIDE DEF t, c
    <2>1. Len(t) = c /\ \A i \in places : t[rank[i]] = s[i]
        BY <1>12, <1>13 DEF t
    <2>2. \A i, j \in places : i < j <=> rank[i] < rank[j]
        BY <1>3, <1>5
    <2>3. IsKept(t, s, places)
        BY <1>5, <2>1, <2>2 DEF IsKept
    <2> QED
        BY <2>3 DEF t
<1> QED
    BY <1>2, <1>5, <1>12, <1>14 DEF c

LEMMA AtItems ==
    ASSUME NEW S, NEW s \in Seq(S), NEW places, places \subseteq 1..Len(s)
    PROVE  Items(At(s, places)) = {s[i] : i \in places}
<1> DEFINE t == At(s, places)
           c == Cardinality(places)
<1>1. t \in Seq(S) /\ Len(t) = c /\ IsKept(t, s, places)
    BY AtProperties
<1> HIDE DEF t, c
<1>2. PICK rank \in Bijection(places, 1..c) : \A i \in places : t[rank[i]] = s[i]
    BY <1>1 DEF IsKept
<1>3. DOMAIN t = 1..c
    BY <1>1
<1>4. \A i \in places : rank[i] \in 1..c
    BY DEF Bijection, Injection
<1>5. \A k \in 1..c : \E i \in places : rank[i] = k
    BY DEF Bijection, Surjection
<1>6. ASSUME NEW x, x \in Items(t) PROVE x \in {s[i] : i \in places}
    BY <1>2, <1>3, <1>5, <1>6 DEF Items
<1>7. ASSUME NEW x, x \in {s[i] : i \in places} PROVE x \in Items(t)
    BY <1>2, <1>3, <1>4, <1>7 DEF Items
<1> QED
    BY <1>6, <1>7 DEF t

(***************************************************************************)
(* The heaviest of parallel edges.                                         *)
(***************************************************************************)
LEMMA HeaviestProperties ==
    ASSUME NEW S, NEW es \in Seq(S), es # <<>>, \A e \in S : e.origin.weight \in Nat
    PROVE  /\ Heaviest(es) \in Items(es)
           /\ \A e \in Items(es) : e.origin.weight <= Heaviest(es).origin.weight
<1> DEFINE n == Len(es)
           W(e) == e.origin.weight
           Better(best, e) == IF W(e) > W(best) THEN e ELSE best
           step == [p \in S \X (1..n) |-> Better(p[1], es[p[2]])]
           Step(f) == [k \in 0..n |-> IF k = 0 THEN es[1] ELSE Better(f[k - 1], es[k])]
           f == CHOOSE f : f = Step(f)
<1>1. n \in Nat /\ DOMAIN es = 1..n /\ 1 \in 1..n /\ \A k \in 1..n : es[k] \in S
    BY EmptySeq
<1>2. Heaviest(es) = f[n]
    BY DEF Heaviest, Folded
<1> HIDE DEF n
<1>3. step \in [S \X (1..n) -> S]
    BY <1>1
<1>4. \A x \in S, k \in 1..n : step[x, k] = Better(x, es[k])
    OBVIOUS
<1> HIDE DEF step, Better
<1>5. \E g : g = Step(g)
    <2>1. PICK g : Stepwise(g, n, S, es[1], step)
        BY <1>1, <1>3, StepwiseExists
    <2>2. g \in [0..n -> S] /\ g[0] = es[1] /\ \A k \in 1..n : g[k] = step[g[k - 1], k]
        BY <2>1 DEF Stepwise
    <2>3. ASSUME NEW k \in 0..n PROVE g[k] = IF k = 0 THEN es[1] ELSE Better(g[k - 1], es[k])
        <3>1. CASE k = 0
            BY <2>2, <3>1
        <3>2. CASE k # 0
            <4>1. k \in 1..n /\ k - 1 \in 0..n
                BY <1>1, <3>2
            <4>2. g[k - 1] \in S
                BY <2>2, <4>1
            <4> QED
                BY <1>4, <2>2, <3>2, <4>1, <4>2
        <3> QED
            BY <3>1, <3>2
    <2>4. g = [k \in 0..n |-> g[k]]
        BY <2>2
    <2>5. g = Step(g)
        BY <2>3, <2>4
    <2> QED
        BY <2>5
<1>6. f = Step(f)
    BY <1>5
<1> HIDE DEF f
<1>7. f[0] = es[1] /\ \A k \in 1..n : f[k] = Better(f[k - 1], es[k])
    <2>1. \A k \in 0..n : f[k] = IF k = 0 THEN es[1] ELSE Better(f[k - 1], es[k])
        BY <1>6
    <2>2. 0 \in 0..n /\ \A k \in 1..n : k \in 0..n /\ k # 0
        BY <1>1
    <2> QED
        BY <2>1, <2>2
<1> DEFINE T == {k \in 0..n : /\ \E i \in 1..n : f[k] = es[i]
                              /\ \A i \in 1..k : W(es[i]) <= W(f[k])}
<1>8. 0 \in T
    BY <1>1, <1>7
<1>9. ASSUME NEW k \in 1..n, k - 1 \in T PROVE k \in T
    <2>1. PICK i \in 1..n : f[k - 1] = es[i]
        BY <1>9
    <2>2. \A j \in 1..(k - 1) : W(es[j]) <= W(f[k - 1])
        BY <1>9
    <2>3. W(f[k - 1]) \in Nat /\ \A j \in 1..n : W(es[j]) \in Nat
        BY <1>1, <2>1
    <2>4. \A j \in 1..k : j \in 1..n /\ (j = k \/ j \in 1..(k - 1))
        BY <1>1
    <2>5. f[k] = Better(f[k - 1], es[k])
        BY <1>7
    <2> HIDE DEF W
    <2>6. CASE W(es[k]) > W(f[k - 1])
        <3>1. f[k] = es[k]
            BY <2>5, <2>6 DEF Better
        <3>2. \A j \in 1..k : W(es[j]) <= W(f[k])
            BY <2>2, <2>3, <2>4, <2>6, <3>1
        <3> QED
            BY <1>1, <3>1, <3>2
    <2>7. CASE ~ (W(es[k]) > W(f[k - 1]))
        <3>1. f[k] = f[k - 1]
            BY <2>5, <2>7 DEF Better
        <3>2. \A j \in 1..k : W(es[j]) <= W(f[k])
            BY <2>2, <2>3, <2>4, <2>7, <3>1
        <3> QED
            BY <1>1, <2>1, <3>1, <3>2
    <2> QED
        BY <2>6, <2>7
<1>10. n \in T
    <2> HIDE DEF T
    <2>1. \A k \in 0..n : k \in T
        BY <1>1, <1>8, <1>9, UpTo
    <2> QED
        BY <1>1, <2>1
<1>11. (\E i \in 1..n : f[n] = es[i]) /\ \A i \in 1..n : W(es[i]) <= W(f[n])
    BY <1>10
<1> QED
    BY <1>1, <1>2, <1>11 DEF Items

(***************************************************************************)
(* What a slice of a packed array holds: the edges of its end.             *)
(***************************************************************************)
\* sl has the entries of the end id, and no others.
SliceOf(sl, packed, ends, id) ==
    \A x : x \in Items(sl) <=> \E j \in 1..Len(ends) : ends[j] = id /\ x = packed[Placed(ends, j)]

SliceFrom(sl, packed, a, b) ==
    /\ a \in Nat /\ b \in Nat /\ a <= b /\ b <= Len(packed)
    /\ Len(sl) = b - a /\ DOMAIN sl = 1..(b - a) /\ \A i \in 1..(b - a) : sl[i] = packed[a + i]

LEMMA SliceIs ==
    ASSUME NEW T, NEW packed \in Seq(T), NEW ends \in Seq(Nat), Len(ends) = Len(packed),
           NEW n \in Nat, NEW id \in Nat
    PROVE  /\ Slice(Offsets(n, ends), packed, id) \in Seq(T)
           /\ id >= n => Slice(Offsets(n, ends), packed, id) = <<>>
           /\ id < n => SliceFrom(Slice(Offsets(n, ends), packed, id), packed,
                                  SliceStart(ends, id), SliceStart(ends, id + 1))
<1> DEFINE sl == Slice(Offsets(n, ends), packed, id)
           a == SliceStart(ends, id)
           b == SliceStart(ends, id + 1)
<1>1. DOMAIN Offsets(n, ends) = 1..(n + 1) /\ Len(Offsets(n, ends)) = n + 1
    <2>1. Offsets(n, ends) = [i \in 1..(n + 1) |-> SliceStart(ends, i - 1)]
        BY DEF Offsets
    <2>2. \A i \in 1..(n + 1) : SliceStart(ends, i - 1) \in Nat
        BY SliceStartProperties
    <2>3. n + 1 \in Nat
        OBVIOUS
    <2> QED
        BY <2>1, <2>2, <2>3, DefinedSeq
<1>0. a \in Nat /\ b \in Nat /\ a <= b /\ b <= Len(packed)
    <2>1. id \in Nat /\ id + 1 \in Nat /\ id <= id + 1
        OBVIOUS
    <2>2. ends \in Seq(Nat) /\ Len(ends) = Len(packed)
        OBVIOUS
    <2> QED
        BY ONLY <2>1, <2>2, SliceStartProperties
<1>2. CASE id >= n
    <2>1. sl = <<>>
        BY <1>1, <1>2 DEF Slice
    <2> QED
        BY <1>0, <1>2, <2>1
<1>3. CASE id < n
    <2>1. sl = SubSeq(packed, a + 1, b)
        <3>1. Offsets(n, ends)[id + 1] = SliceStart(ends, (id + 1) - 1)
            BY <1>3 DEF Offsets
        <3>2. Offsets(n, ends)[id + 2] = SliceStart(ends, (id + 2) - 1)
            BY <1>3 DEF Offsets
        <3>3. (id + 1) - 1 = id /\ (id + 2) - 1 = id + 1
            OBVIOUS
        <3>4. ~ (id + 1 >= Len(Offsets(n, ends)))
            BY <1>1, <1>3
        <3> QED
            BY <3>1, <3>2, <3>3, <3>4 DEF Slice
    <2>2. a \in Nat /\ b \in Nat /\ a <= b /\ b <= Len(packed)
        BY <1>0
    <2> HIDE DEF sl
    <2>3. Len(packed) \in Nat /\ \A p \in 1..Len(packed) : packed[p] \in T
        OBVIOUS
    <2>4. \A i \in (a + 1)..b : packed[i] \in T
        BY <2>2, <2>3
    <2> HIDE DEF a, b
    <2>5. /\ sl \in Seq(T) /\ Len(sl) = IF a + 1 <= b THEN b - (a + 1) + 1 ELSE 0
          /\ \A i \in 1..(b - (a + 1) + 1) : sl[i] = packed[(a + 1) + i - 1]
        <3> DEFINE x == a + 1
        <3>1. x \in Int /\ b \in Int
            BY <2>2
        <3>2. sl = SubSeq(packed, x, b) /\ \A i \in x..b : packed[i] \in T
            BY <2>1, <2>4
        <3> HIDE DEF x
        <3>3. /\ sl \in Seq(T) /\ Len(sl) = IF x <= b THEN b - x + 1 ELSE 0
              /\ \A i \in 1..(b - x + 1) : sl[i] = packed[x + i - 1]
            BY ONLY <3>1, <3>2, SubSeqProperties
        <3> QED
            BY ONLY <3>3 DEF x
    <2>6. Len(sl) = b - a /\ DOMAIN sl = 1..(b - a) /\ \A i \in 1..(b - a) : sl[i] = packed[a + i]
        <3>1. b - a \in Nat /\ (a + 1 <= b <=> b - a # 0) /\ b - (a + 1) + 1 = b - a
            BY <2>2
        <3>2. Len(sl) = b - a
            BY ONLY <2>5, <3>1, <2>2
        <3>3. \A i \in 1..(b - a) : (a + 1) + i - 1 = a + i
            BY ONLY <2>2
        <3>4. \A i \in 1..(b - a) : sl[i] = packed[a + i]
            BY ONLY <2>5, <3>1, <3>3
        <3>5. DOMAIN sl = 1..Len(sl)
            BY ONLY <2>5
        <3> QED
            BY ONLY <3>2, <3>4, <3>5
    <2> QED
        BY <1>3, <2>2, <2>5, <2>6 DEF sl, a, b, SliceFrom
<1> QED
    BY <1>2, <1>3

\* The places behind the start of a node's slice, up to the next, are those of its edges.
LEMMA EndOfPlace ==
    ASSUME NEW ends \in Seq(Nat), NEW id \in Nat, NEW p \in 1..Len(ends),
           SliceStart(ends, id) < p, p <= SliceStart(ends, id + 1)
    PROVE  \E j \in 1..Len(ends) : Placed(ends, j) = p /\ ends[j] = id
<1> DEFINE a == SliceStart(ends, id)
           b == SliceStart(ends, id + 1)
<1>1. /\ \A x \in Nat : SliceStart(ends, x) \in Nat
      /\ \A x, y \in Nat : x <= y => SliceStart(ends, x) <= SliceStart(ends, y)
    BY SliceStartProperties
<1>2. a \in Nat /\ b \in Nat /\ a < p /\ p <= b
    BY <1>1
<1> HIDE DEF a, b
<1>3. PICK j \in 1..Len(ends) : Placed(ends, j) = p
    BY PlacedOnto
<1>4. ends[j] \in Nat /\ SliceStart(ends, ends[j]) < p /\ p <= SliceStart(ends, ends[j] + 1)
    BY <1>3, PlacedInSlice
<1>5. /\ SliceStart(ends, ends[j]) \in Nat /\ SliceStart(ends, ends[j] + 1) \in Nat
      /\ ends[j] + 1 \in Nat
    <2>1. ends[j] + 1 \in Nat
        BY <1>4
    <2> QED
        BY <1>1, <1>4, <2>1
<1>6. ~ (ends[j] + 1 <= id)
    <2>1. SUFFICES ASSUME ends[j] + 1 <= id PROVE FALSE
        OBVIOUS
    <2>2. SliceStart(ends, ends[j] + 1) <= a
        BY <1>1, <1>5, <2>1 DEF a
    <2> QED
        BY <1>2, <1>4, <1>5, <2>2
<1>7. ~ (id + 1 <= ends[j])
    <2>1. SUFFICES ASSUME id + 1 <= ends[j] PROVE FALSE
        OBVIOUS
    <2>2. b <= SliceStart(ends, ends[j])
        <3>1. id + 1 \in Nat
            OBVIOUS
        <3> QED
            BY <1>1, <1>4, <2>1, <3>1 DEF b
    <2> QED
        BY <1>2, <1>4, <1>5, <2>2
<1>8. ends[j] = id
    BY <1>4, <1>6, <1>7
<1> QED
    BY <1>3, <1>8

\* The edges of an end, one after the other, are a slice: none is there twice.
SlicePlaced(sl, packed, ends, id) ==
    \E h \in Bijection({j \in 1..Len(ends) : ends[j] = id}, 1..Len(sl)) :
        \A j \in 1..Len(ends) : ends[j] = id => sl[h[j]] = packed[Placed(ends, j)]

LEMMA SliceOnce ==
    ASSUME NEW T, NEW packed \in Seq(T), NEW ends \in Seq(Nat), Len(ends) = Len(packed),
           NEW n \in Nat, NEW id \in Nat
    PROVE  /\ Len(Slice(Offsets(n, ends), packed, id)) <= Len(packed)
           /\ id < n => SlicePlaced(Slice(Offsets(n, ends), packed, id), packed, ends, id)
<1> DEFINE sl == Slice(Offsets(n, ends), packed, id)
           a == SliceStart(ends, id)
           b == SliceStart(ends, id + 1)
           D == {j \in 1..Len(ends) : ends[j] = id}
           h == [j \in D |-> Placed(ends, j) - a]
<1>0. sl \in Seq(T) /\ (id >= n => sl = <<>>) /\ (id < n => SliceFrom(sl, packed, a, b))
    BY SliceIs
<1>1. /\ a \in Nat /\ b \in Nat /\ a <= b /\ b <= Len(packed)
      /\ id < n => /\ Len(sl) = b - a /\ DOMAIN sl = 1..(b - a)
                   /\ \A i \in 1..(b - a) : sl[i] = packed[a + i]
    <2>1. id + 1 \in Nat /\ id <= id + 1
        OBVIOUS
    <2>2. a \in Nat /\ b \in Nat /\ a <= b /\ b <= Len(ends)
        BY <2>1, SliceStartProperties
    <2> HIDE DEF sl, a, b
    <2>3. id < n => /\ Len(sl) = b - a /\ DOMAIN sl = 1..(b - a)
                    /\ \A i \in 1..(b - a) : sl[i] = packed[a + i]
        BY <1>0 DEF SliceFrom
    <2> QED
        BY <2>2, <2>3
<1>2. ASSUME NEW j \in 1..Len(ends), ends[j] = id
      PROVE  Placed(ends, j) \in 1..Len(ends) /\ a < Placed(ends, j) /\ Placed(ends, j) <= b
    BY <1>2, PlacedInSlice
<1>3. Len(packed) \in Nat /\ Len(<<>>) = 0
    OBVIOUS
<1> HIDE DEF sl
<1>4. Len(sl) <= Len(packed)
    BY <1>0, <1>1, <1>3
<1>5. ASSUME id < n PROVE SlicePlaced(sl, packed, ends, id)
    <2>1. \A p \in 1..Len(ends) : a < p /\ p <= b => \E j \in D : Placed(ends, j) = p
        BY EndOfPlace
    <2> HIDE DEF a, b
    <2>2. h \in [D -> 1..(b - a)]
        <3>1. ASSUME NEW j \in D PROVE Placed(ends, j) - a \in 1..(b - a)
            BY <1>1, <1>2
        <3> QED
            BY <3>1
    <2>3. \A i, j \in D : h[i] = h[j] => i = j
        <3> SUFFICES ASSUME NEW i \in D, NEW j \in D, h[i] = h[j] PROVE i = j
            OBVIOUS
        <3>1. Placed(ends, i) = Placed(ends, j)
            <4>1. Placed(ends, i) - a = Placed(ends, j) - a
                OBVIOUS
            <4>2. Placed(ends, i) \in Nat /\ Placed(ends, j) \in Nat
                <5>1. i \in 1..Len(ends) /\ ends[i] = id /\ j \in 1..Len(ends) /\ ends[j] = id
                    OBVIOUS
                <5>2. Placed(ends, i) \in 1..Len(ends) /\ Placed(ends, j) \in 1..Len(ends)
                    BY ONLY <1>2, <5>1
                <5> QED
                    BY ONLY <5>2
            <4> QED
                BY ONLY <1>1, <4>1, <4>2
        <3>2. DOMAIN ends = 1..Len(ends)
            OBVIOUS
        <3>3. i \in DOMAIN ends /\ j \in DOMAIN ends /\ i \in Nat /\ j \in Nat
            BY <3>2
        <3>4. ~ (i < j) /\ ~ (j < i)
            BY <3>1, <3>3, PlacedOnce
        <3> QED
            BY <3>3, <3>4
    <2>4. \A k \in 1..(b - a) : \E j \in D : h[j] = k
        <3> SUFFICES ASSUME NEW k \in 1..(b - a) PROVE \E j \in D : h[j] = k
            OBVIOUS
        <3>1. a + k \in 1..Len(ends) /\ a < a + k /\ a + k <= b
            BY <1>1, <1>3
        <3>2. PICK j \in D : Placed(ends, j) = a + k
            BY <2>1, <3>1
        <3>3. (a + k) - a = k
            BY <1>1
        <3> QED
            BY <3>2, <3>3
    <2>5. h \in Bijection(D, 1..Len(sl))
        <3>1. 1..Len(sl) = 1..(b - a)
            BY <1>1, <1>5
        <3> HIDE DEF h, D
        <3> QED
            BY <2>2, <2>3, <2>4, <3>1 DEF Bijection, Injection, Surjection, IsInjective
    <2>6. \A j \in 1..Len(ends) : ends[j] = id => sl[h[j]] = packed[Placed(ends, j)]
        <3> SUFFICES ASSUME NEW j \in 1..Len(ends), ends[j] = id
                     PROVE  sl[h[j]] = packed[Placed(ends, j)]
            OBVIOUS
        <3>1. j \in D /\ h[j] \in 1..(b - a) /\ h[j] = Placed(ends, j) - a
            BY <2>2
        <3>2. a + h[j] = Placed(ends, j)
            <4>1. Placed(ends, j) \in 1..Len(ends)
                BY <1>2
            <4>2. a \in Nat /\ h[j] = Placed(ends, j) - a
                BY <1>1, <3>1
            <4> HIDE DEF h
            <4> QED
                BY ONLY <4>1, <4>2
        <3> HIDE DEF h, D
        <3> QED
            BY <1>1, <1>5, <3>1, <3>2
    <2> HIDE DEF h
    <2> QED
        BY <2>5, <2>6 DEF SlicePlaced
<1> QED
    BY <1>4, <1>5 DEF sl

LEMMA SliceItems ==
    ASSUME NEW T, NEW packed \in Seq(T), NEW ends \in Seq(Nat), Len(ends) = Len(packed),
           NEW n \in Nat, NEW id \in Nat
    PROVE  /\ Slice(Offsets(n, ends), packed, id) \in Seq(T)
           /\ id >= n => Slice(Offsets(n, ends), packed, id) = <<>>
           /\ id < n => SliceOf(Slice(Offsets(n, ends), packed, id), packed, ends, id)
<1> DEFINE sl == Slice(Offsets(n, ends), packed, id)
           D == {j \in 1..Len(ends) : ends[j] = id}
<1>1. sl \in Seq(T) /\ (id >= n => sl = <<>>)
    BY SliceIs
<1>2. id < n => SlicePlaced(sl, packed, ends, id)
    BY SliceOnce
<1> HIDE DEF sl
<1>3. ASSUME id < n PROVE SliceOf(sl, packed, ends, id)
    <2>1. PICK h \in Bijection(D, 1..Len(sl)) :
              \A j \in 1..Len(ends) : ends[j] = id => sl[h[j]] = packed[Placed(ends, j)]
        BY <1>2, <1>3 DEF SlicePlaced
    <2>2. h \in [D -> 1..Len(sl)] /\ \A k \in 1..Len(sl) : \E j \in D : h[j] = k
        BY <2>1 DEF Bijection, Injection, Surjection
    <2>3. DOMAIN sl = 1..Len(sl)
        BY <1>1
    <2>4. ASSUME NEW x, x \in Items(sl)
          PROVE  \E j \in 1..Len(ends) : ends[j] = id /\ x = packed[Placed(ends, j)]
        <3>1. PICK k \in 1..Len(sl) : x = sl[k]
            BY <2>3, <2>4 DEF Items
        <3>2. PICK j \in D : h[j] = k
            BY <2>2
        <3> QED
            BY <2>1, <3>1, <3>2
    <2>5. ASSUME NEW j \in 1..Len(ends), ends[j] = id
          PROVE  packed[Placed(ends, j)] \in Items(sl)
        <3>1. h[j] \in 1..Len(sl) /\ sl[h[j]] = packed[Placed(ends, j)]
            BY <2>1, <2>2, <2>5
        <3> QED
            BY <2>3, <3>1 DEF Items
    <2> QED
        BY <2>4, <2>5 DEF SliceOf
<1> QED
    BY <1>1, <1>3 DEF sl

\* The links of a node in the forward index.
LinkSet(Ents, Origins) == [to : Nat, src : Ents, dst : Ents, origin : Origins]

LEMMA BuildArrays ==
    ASSUME NEW Ents, NEW Origins, NEW ns, Len(ns) \in Nat,
           NEW es \in Seq(EdgeSet(Ents, Origins))
    PROVE  /\ Build(ns, es).edges \in Seq(LinkSet(Ents, Origins))
           /\ Len(Build(ns, es).edges) = Len(es)
           /\ \A j \in 1..Len(es) :
                 Build(ns, es).edges[Placed(Sources(es), j)] = Targetless(es[j])
           /\ Targets(es) \in Seq(Nat) /\ Len(Targets(es)) = Len(es)
           /\ \A j \in 1..Len(es) : Targets(es)[j] = es[j].to
           /\ Build(ns, es).revOffsets = Offsets(Len(ns), Targets(es))
           /\ Build(ns, es).revEdges \in Seq(Nat) /\ Len(Build(ns, es).revEdges) = Len(es)
           /\ \A j \in 1..Len(es) :
                 Build(ns, es).revEdges[Placed(Targets(es), j)] = es[j].from
<1> DEFINE n == Len(es)
           E == EdgeSet(Ents, Origins)
           fwd == Packed(es, Sources(es))
           bwd == Packed(es, Targets(es))
<1>1. n \in Nat /\ DOMAIN es = 1..n /\ \A j \in 1..n : es[j] \in E
    OBVIOUS
<1>2. Sources(es) \in Seq(Nat) /\ Len(Sources(es)) = n
    BY SourcesOfEdges
<1>3. \A e \in E : e.from \in Nat /\ e.to \in Nat /\ Targetless(e) \in LinkSet(Ents, Origins)
    BY DEF EdgeSet, LinkSet, Targetless
<1>4. /\ Targets(es) \in Seq(Nat) /\ Len(Targets(es)) = n
      /\ \A j \in 1..n : Targets(es)[j] = es[j].to
    <2>1. Targets(es) = [k \in 1..n |-> es[k].to]
        BY <1>1 DEF Targets
    <2>2. [k \in 1..n |-> es[k].to] \in [1..n -> Nat]
        BY <1>1, <1>3
    <2> QED
        BY <1>1, <2>1, <2>2, DefinedSeq
<1> HIDE DEF E
<1>5. /\ fwd \in Seq(E) /\ Len(fwd) = n
      /\ \A j \in 1..n : fwd[Placed(Sources(es), j)] = es[j]
    BY <1>2, PackedProperties DEF E
<1>6. /\ bwd \in Seq(E) /\ Len(bwd) = n
      /\ \A j \in 1..n : bwd[Placed(Targets(es), j)] = es[j]
    BY <1>4, PackedProperties DEF E
<1>7. /\ \A j \in 1..n : Placed(Sources(es), j) \in 1..n
      /\ \A j \in 1..n : Placed(Targets(es), j) \in 1..n
    BY <1>2, <1>4, PlacedInSlice
<1> HIDE DEF n, fwd, bwd
<1>8. /\ Build(ns, es).edges \in Seq(LinkSet(Ents, Origins))
      /\ Len(Build(ns, es).edges) = n
      /\ \A k \in 1..n : Build(ns, es).edges[k] = Targetless(fwd[k])
    <2>1. Build(ns, es).edges = [k \in 1..n |-> Targetless(fwd[k])]
        BY <1>1, BuildFields DEF fwd
    <2>2. \A k \in 1..n : fwd[k] \in E
        BY <1>5
    <2>3. [k \in 1..n |-> Targetless(fwd[k])] \in [1..n -> LinkSet(Ents, Origins)]
        BY <1>3, <2>2
    <2> QED
        BY <1>1, <2>1, <2>3, DefinedSeq
<1>9. /\ Build(ns, es).revEdges \in Seq(Nat) /\ Len(Build(ns, es).revEdges) = n
      /\ \A k \in 1..n : Build(ns, es).revEdges[k] = bwd[k].from
    <2>1. DOMAIN bwd = 1..n /\ \A k \in 1..n : bwd[k] \in E
        BY <1>6
    <2>2. Build(ns, es).revEdges = Sources(bwd)
        BY DEF Build, RevSources, bwd
    <2>3. Sources(bwd) = [k \in 1..n |-> bwd[k].from]
        BY <2>1 DEF Sources
    <2>4. [k \in 1..n |-> bwd[k].from] \in [1..n -> Nat]
        BY <1>3, <2>1
    <2> QED
        BY <1>1, <2>2, <2>3, <2>4, DefinedSeq
<1>10. Build(ns, es).revOffsets = Offsets(Len(ns), Targets(es))
    BY DEF Build
<1>11. \A j \in 1..n : Build(ns, es).edges[Placed(Sources(es), j)] = Targetless(es[j])
    BY <1>5, <1>7, <1>8
<1>12. \A j \in 1..n : Build(ns, es).revEdges[Placed(Targets(es), j)] = es[j].from
    BY <1>6, <1>7, <1>9
<1> QED
    BY <1>4, <1>8, <1>9, <1>10, <1>11, <1>12 DEF n

\* neighbors() gives the edges that leave a node, rev_neighbors() the nodes whose
\* edges enter it, and no others.
LEMMA NeighborsOf ==
    ASSUME NEW Ents, NEW Origins, NEW ns, Len(ns) \in Nat,
           NEW es \in Seq(EdgeSet(Ents, Origins)), Inside(es, Len(ns)), NEW id \in Nat
    PROVE  /\ Neighbors(Build(ns, es), id) \in Seq(LinkSet(Ents, Origins))
           /\ \A x : x \in Items(Neighbors(Build(ns, es), id)) <=>
                  \E e \in Items(es) : e.from = id /\ x = Targetless(e)
           /\ RevNeighbors(Build(ns, es), id) \in Seq(Nat)
           /\ \A x : x \in Items(RevNeighbors(Build(ns, es), id)) <=>
                  \E e \in Items(es) : e.to = id /\ x = e.from
<1> DEFINE g == Build(ns, es)
           n == Len(ns)
           m == Len(es)
           L == LinkSet(Ents, Origins)
           src == Sources(es)
           dst == Targets(es)
           near == Slice(Offsets(n, src), g.edges, id)
           back == Slice(Offsets(n, dst), g.revEdges, id)
<1>1. /\ src \in Seq(Nat) /\ Len(src) = m /\ \A k \in 1..m : src[k] = es[k].from
    BY SourcesOfEdges
<1>2. /\ g.edges \in Seq(L) /\ Len(g.edges) = m
      /\ \A j \in 1..m : g.edges[Placed(src, j)] = Targetless(es[j])
      /\ dst \in Seq(Nat) /\ Len(dst) = m /\ \A j \in 1..m : dst[j] = es[j].to
      /\ g.revOffsets = Offsets(n, dst)
      /\ g.revEdges \in Seq(Nat) /\ Len(g.revEdges) = m
      /\ \A j \in 1..m : g.revEdges[Placed(dst, j)] = es[j].from
    BY BuildArrays
<1>3. Neighbors(g, id) = near /\ RevNeighbors(g, id) = back
    BY <1>2, BuildFields DEF Neighbors, RevNeighbors
<1>4. m \in Nat /\ DOMAIN es = 1..m /\ \A j \in 1..m : es[j].from < n /\ es[j].to < n
    BY DEF Inside
<1> HIDE DEF g, n, m, L, src, dst
<1>5. /\ near \in Seq(L) /\ (id >= n => near = <<>>)
      /\ id < n => SliceOf(near, g.edges, src, id)
    <2>1. n \in Nat /\ Len(src) = Len(g.edges) /\ g.edges \in Seq(L) /\ src \in Seq(Nat)
        BY <1>1, <1>2 DEF n
    <2> QED
        BY ONLY id \in Nat, <2>1, SliceItems
<1>6. /\ back \in Seq(Nat) /\ (id >= n => back = <<>>)
      /\ id < n => SliceOf(back, g.revEdges, dst, id)
    <2>1. n \in Nat /\ Len(dst) = Len(g.revEdges) /\ g.revEdges \in Seq(Nat) /\ dst \in Seq(Nat)
        BY <1>1, <1>2 DEF n
    <2> QED
        BY ONLY id \in Nat, <2>1, SliceItems
<1> HIDE DEF near, back
<1>7. Items(<<>>) = {}
    BY DEF Items
<1>8. n \in Nat /\ \A e : e \in Items(es) <=> \E j \in 1..m : e = es[j]
    BY <1>4 DEF Items, n
<1>9. ASSUME NEW x
      PROVE  x \in Items(near) <=> \E e \in Items(es) : e.from = id /\ x = Targetless(e)
    <2>1. CASE id < n
        <3>1. x \in Items(near) <=> \E j \in 1..m : es[j].from = id /\ x = Targetless(es[j])
            <4>1. x \in Items(near) <=>
                      \E j \in 1..m : src[j] = id /\ x = g.edges[Placed(src, j)]
                BY <1>1, <1>5, <2>1 DEF SliceOf
            <4>2. \A j \in 1..m : src[j] = es[j].from /\ g.edges[Placed(src, j)] = Targetless(es[j])
                BY <1>1, <1>2
            <4> QED
                BY ONLY <4>1, <4>2, Zenon
        <3> QED
            BY <1>8, <3>1
    <2>2. CASE ~ (id < n)
        <3>1. x \notin Items(near)
            BY <1>5, <1>7, <1>8, <2>2
        <3>2. \A e \in Items(es) : e.from # id
            BY <1>4, <1>8, <2>2
        <3> QED
            BY <3>1, <3>2
    <2> QED
        BY <2>1, <2>2
<1>10. ASSUME NEW x
      PROVE  x \in Items(back) <=> \E e \in Items(es) : e.to = id /\ x = e.from
    <2>1. CASE id < n
        <3>1. x \in Items(back) <=> \E j \in 1..m : es[j].to = id /\ x = es[j].from
            <4>1. x \in Items(back) <=>
                      \E j \in 1..m : dst[j] = id /\ x = g.revEdges[Placed(dst, j)]
                BY <1>2, <1>6, <2>1 DEF SliceOf
            <4>2. \A j \in 1..m : dst[j] = es[j].to /\ g.revEdges[Placed(dst, j)] = es[j].from
                BY <1>2
            <4> QED
                BY ONLY <4>1, <4>2, Zenon
        <3> QED
            BY <1>8, <3>1
    <2>2. CASE ~ (id < n)
        <3>1. x \notin Items(back)
            BY <1>6, <1>7, <1>8, <2>2
        <3>2. \A e \in Items(es) : e.to # id
            BY <1>4, <1>8, <2>2
        <3> QED
            BY <3>1, <3>2
    <2> QED
        BY <2>1, <2>2
<1> QED
    BY <1>3, <1>5, <1>6, <1>9, <1>10 DEF g, L

(***************************************************************************)
(* edges_between: the heaviest edge of each linked pair.                   *)
(***************************************************************************)
\* The edges from one node to another.
LinksOf(es, from, to) == {e \in Items(es) : e.from = from /\ e.to = to}

\* near holds the edges from a node, back the sources of the edges to it.
AreNeighbors(L, near, es, id) ==
    near \in Seq(L) /\ \A x : x \in Items(near) <=> \E e \in Items(es) : e.from = id /\ x = Targetless(e)

AreSources(back, es, id) ==
    back \in Seq(Nat) /\ \A x : x \in Items(back) <=> \E e \in Items(es) : e.to = id /\ x = e.from

\* neighbors and rev_neighbors of a packed graph.
LEMMA NeighborsAre ==
    ASSUME NEW Ents, NEW Origins, NEW ns, Len(ns) \in Nat,
           NEW es \in Seq(EdgeSet(Ents, Origins)), Inside(es, Len(ns)), NEW id \in Nat
    PROVE  /\ AreNeighbors(LinkSet(Ents, Origins), Neighbors(Build(ns, es), id), es, id)
           /\ AreSources(RevNeighbors(Build(ns, es), id), es, id)
<1>1. /\ Neighbors(Build(ns, es), id) \in Seq(LinkSet(Ents, Origins))
      /\ \A x : x \in Items(Neighbors(Build(ns, es), id)) <=>
             \E e \in Items(es) : e.from = id /\ x = Targetless(e)
    BY NeighborsOf
<1>2. /\ RevNeighbors(Build(ns, es), id) \in Seq(Nat)
      /\ \A x : x \in Items(RevNeighbors(Build(ns, es), id)) <=>
             \E e \in Items(es) : e.to = id /\ x = e.from
    BY NeighborsOf
<1> QED
    BY ONLY <1>1, <1>2 DEF AreNeighbors, AreSources

LEMMA BetweenOf ==
    ASSUME NEW Ents, NEW Origins, NEW ns, Len(ns) \in Nat,
           NEW es \in Seq(EdgeSet(Ents, Origins)), Inside(es, Len(ns)),
           NEW from \in Nat, NEW to
    PROVE  /\ Between(Build(ns, es), from, to) \in Seq(LinkSet(Ents, Origins))
           /\ \A x : x \in Items(Between(Build(ns, es), from, to)) <=>
                  \E e \in LinksOf(es, from, to) : x = Targetless(e)
           /\ Between(Build(ns, es), from, to) # <<>> <=> LinksOf(es, from, to) # {}
<1> DEFINE near == Neighbors(Build(ns, es), from)
           places == {i \in DOMAIN near : near[i].to = to}
           kept == Between(Build(ns, es), from, to)
<1>1. /\ near \in Seq(LinkSet(Ents, Origins))
      /\ \A x : x \in Items(near) <=> \E e \in Items(es) : e.from = from /\ x = Targetless(e)
    BY NeighborsOf
<1>2. kept = At(near, places)
    BY DEF Between, Selected
<1> HIDE DEF near
<1>3. DOMAIN near = 1..Len(near) /\ places \subseteq 1..Len(near)
    BY <1>1
<1>4. \A x : x \in {near[i] : i \in places} <=> x \in Items(near) /\ x.to = to
    BY DEF Items
<1> HIDE DEF places, kept
<1>5. kept \in Seq(LinkSet(Ents, Origins)) /\ Items(kept) = {near[i] : i \in places}
    BY <1>1, <1>2, <1>3, AtProperties, AtItems
<1>6. \A e : Targetless(e).to = e.to
    BY DEF Targetless
<1>7. \A x : x \in Items(kept) <=> \E e \in LinksOf(es, from, to) : x = Targetless(e)
    <2>1. SUFFICES ASSUME NEW x
                   PROVE  x \in Items(kept) <=> \E e \in LinksOf(es, from, to) : x = Targetless(e)
        OBVIOUS
    <2>2. x \in Items(kept) <=> x \in Items(near) /\ x.to = to
        BY <1>4, <1>5
    <2>3. x \in Items(near) <=> \E e \in Items(es) : e.from = from /\ x = Targetless(e)
        BY <1>1
    <2> QED
        BY <1>6, <2>2, <2>3 DEF LinksOf
<1>8. kept # <<>> <=> Items(kept) # {}
    <2>1. kept # <<>> => 1 \in DOMAIN kept
        BY <1>5
    <2> QED
        BY <2>1 DEF Items
<1> QED
    BY <1>5, <1>7, <1>8 DEF kept

\* edges_between gives a pair of nodes one edge if any leads from the one to the
\* other, a true one, and no edge of the pair is heavier.
THEOREM HeaviestOfPair ==
    ASSUME NEW Ents, NEW Origins, \A o \in Origins : o.weight \in Nat, NEW ns, Len(ns) \in Nat,
           NEW es \in Seq(EdgeSet(Ents, Origins)), Inside(es, Len(ns)),
           NEW from \in Nat, NEW to, LinksOf(es, from, to) # {}
    PROVE  \E e \in LinksOf(es, from, to) :
              /\ Heaviest(Between(Build(ns, es), from, to)) = Targetless(e)
              /\ \A other \in LinksOf(es, from, to) : other.origin.weight <= e.origin.weight
<1> DEFINE kept == Between(Build(ns, es), from, to)
           L == LinkSet(Ents, Origins)
<1>1. /\ kept \in Seq(L) /\ kept # <<>>
      /\ \A x : x \in Items(kept) <=> \E e \in LinksOf(es, from, to) : x = Targetless(e)
    BY BetweenOf
<1>2. \A x \in L : x.origin.weight \in Nat
    BY DEF LinkSet
<1> HIDE DEF kept, L
<1>3. /\ Heaviest(kept) \in Items(kept)
      /\ \A x \in Items(kept) : x.origin.weight <= Heaviest(kept).origin.weight
    BY <1>1, <1>2, HeaviestProperties
<1>4. PICK e \in LinksOf(es, from, to) : Heaviest(kept) = Targetless(e)
    BY <1>1, <1>3
<1>5. \A o : Targetless(o).origin = o.origin
    BY DEF Targetless
<1>6. ASSUME NEW other \in LinksOf(es, from, to) PROVE other.origin.weight <= e.origin.weight
    <2>1. Targetless(other) \in Items(kept)
        BY <1>1
    <2> QED
        BY <1>3, <1>4, <1>5, <2>1
<1> QED
    BY <1>4, <1>6 DEF kept

\* Each edge that EdgesBetween lists, by its pair; and each pair that has edges.
LEMMA EdgesBetweenOf ==
    ASSUME NEW Ents, NEW Origins, \A o \in Origins : o.weight \in Nat, NEW ns, Len(ns) \in Nat,
           NEW es \in Seq(EdgeSet(Ents, Origins)), Inside(es, Len(ns)), NEW ids \in SUBSET Nat
    PROVE  /\ \A p \in EdgesBetween(Build(ns, es), ids) :
                 \E e \in Items(es) : /\ e.from \in ids /\ e.to \in ids
                                      /\ p = <<e.from, Targetless(e)>>
           /\ \A p, q \in EdgesBetween(Build(ns, es), ids) :
                 p[1] = q[1] /\ p[2].to = q[2].to => p = q
           /\ \A e \in Items(es) : e.from \in ids /\ e.to \in ids =>
                 \E p \in EdgesBetween(Build(ns, es), ids) :
                    p[1] = e.from /\ p[2].to = e.to /\ p[2].origin.weight >= e.origin.weight
<1> DEFINE g == Build(ns, es)
           best(a, b) == Heaviest(Between(g, a, b))
<1>1. \A p : p \in EdgesBetween(g, ids) <=>
          \E a \in ids, b \in ids : Between(g, a, b) # <<>> /\ p = <<a, best(a, b)>>
    <2>1. SUFFICES ASSUME NEW p
                   PROVE  p \in EdgesBetween(g, ids) <=>
                             \E a \in ids, b \in ids : Between(g, a, b) # <<>> /\ p = <<a, best(a, b)>>
        OBVIOUS
    <2> DEFINE linked == {q \in ids \X ids : Between(g, q[1], q[2]) # <<>>}
    <2>2. EdgesBetween(g, ids) = {<<q[1], best(q[1], q[2])>> : q \in linked}
        BY DEF EdgesBetween
    <2>3. \A a \in ids, b \in ids : Between(g, a, b) # <<>> => <<a, b>> \in linked
        OBVIOUS
    <2>4. \A q \in linked : q[1] \in ids /\ q[2] \in ids /\ Between(g, q[1], q[2]) # <<>>
        OBVIOUS
    <2> HIDE DEF g, linked, best
    <2>5. ASSUME p \in EdgesBetween(g, ids)
          PROVE  \E a \in ids, b \in ids : Between(g, a, b) # <<>> /\ p = <<a, best(a, b)>>
        <3>1. PICK q \in linked : p = <<q[1], best(q[1], q[2])>>
            BY <2>2, <2>5
        <3> QED
            BY <2>4, <3>1
    <2>6. ASSUME NEW a \in ids, NEW b \in ids, Between(g, a, b) # <<>>, p = <<a, best(a, b)>>
          PROVE  p \in EdgesBetween(g, ids)
        <3> DEFINE q == <<a, b>>
        <3>1. q \in linked /\ p = <<q[1], best(q[1], q[2])>>
            BY <2>3, <2>6
        <3> HIDE DEF q
        <3> QED
            BY <2>2, <3>1
    <2> QED
        BY <2>5, <2>6
<1>2. ASSUME NEW a \in ids, NEW b \in ids
      PROVE  /\ Between(g, a, b) # <<>> <=> LinksOf(es, a, b) # {}
             /\ LinksOf(es, a, b) # {} =>
                   \E e \in LinksOf(es, a, b) :
                      /\ best(a, b) = Targetless(e)
                      /\ \A other \in LinksOf(es, a, b) : other.origin.weight <= e.origin.weight
    <2>1. a \in Nat
        OBVIOUS
    <2>2. Between(g, a, b) # <<>> <=> LinksOf(es, a, b) # {}
        BY <2>1, BetweenOf
    <2>3. ASSUME LinksOf(es, a, b) # {}
          PROVE  \E e \in LinksOf(es, a, b) :
                      /\ best(a, b) = Targetless(e)
                      /\ \A other \in LinksOf(es, a, b) : other.origin.weight <= e.origin.weight
        BY <2>1, <2>3, HeaviestOfPair
    <2> QED
        BY <2>2, <2>3
<1>3. \A e : Targetless(e).origin = e.origin /\ Targetless(e).to = e.to
    BY DEF Targetless
<1>4. \A a, b : \A e \in LinksOf(es, a, b) : e \in Items(es) /\ e.from = a /\ e.to = b
    BY DEF LinksOf
<1>5. \A e \in Items(es) : e \in LinksOf(es, e.from, e.to) /\ e.origin.weight \in Nat
    <2>1. \A e \in Items(es) : e \in EdgeSet(Ents, Origins)
        BY DEF Items
    <2> QED
        BY <2>1 DEF LinksOf, EdgeSet
<1> HIDE DEF g, best
<1>6. ASSUME NEW p \in EdgesBetween(g, ids)
      PROVE  \E e \in Items(es) : /\ e.from \in ids /\ e.to \in ids
                                  /\ p = <<e.from, Targetless(e)>>
                                  /\ p = <<e.from, best(e.from, e.to)>>
    <2>1. PICK a \in ids, b \in ids : Between(g, a, b) # <<>> /\ p = <<a, best(a, b)>>
        BY <1>1
    <2>2. PICK e \in LinksOf(es, a, b) : best(a, b) = Targetless(e)
        BY <1>2, <2>1
    <2> QED
        BY <1>4, <2>1, <2>2
<1>7. ASSUME NEW p \in EdgesBetween(g, ids), NEW q \in EdgesBetween(g, ids),
             p[1] = q[1], p[2].to = q[2].to
      PROVE  p = q
    <2>1. PICK d \in Items(es) : p = <<d.from, Targetless(d)>> /\ p = <<d.from, best(d.from, d.to)>>
        BY <1>6
    <2>2. PICK e \in Items(es) : q = <<e.from, Targetless(e)>> /\ q = <<e.from, best(e.from, e.to)>>
        BY <1>6
    <2>3. d.from = e.from
        BY <1>7, <2>1, <2>2
    <2>4. d.to = e.to
        BY <1>3, <1>7, <2>1, <2>2
    <2> QED
        BY <2>1, <2>2, <2>3, <2>4
<1>8. ASSUME NEW e \in Items(es), e.from \in ids, e.to \in ids
      PROVE  \E p \in EdgesBetween(g, ids) :
                    p[1] = e.from /\ p[2].to = e.to /\ p[2].origin.weight >= e.origin.weight
    <2>1. LinksOf(es, e.from, e.to) # {} /\ Between(g, e.from, e.to) # <<>>
        BY <1>2, <1>5, <1>8
    <2>2. PICK h \in LinksOf(es, e.from, e.to) :
              /\ best(e.from, e.to) = Targetless(h)
              /\ \A other \in LinksOf(es, e.from, e.to) : other.origin.weight <= h.origin.weight
        BY <1>2, <1>8, <2>1
    <2> DEFINE p == <<e.from, best(e.from, e.to)>>
    <2>3. p \in EdgesBetween(g, ids)
        BY <1>1, <1>8, <2>1
    <2>4. p[1] = e.from /\ p[2] = Targetless(h)
        BY <2>2
    <2>5. h \in Items(es) /\ h.to = e.to /\ e.origin.weight <= h.origin.weight
        BY <1>4, <1>5, <2>2
    <2>6. p[2].to = e.to /\ p[2].origin.weight >= e.origin.weight
        BY <1>3, <1>5, <2>4, <2>5
    <2> QED
        BY <2>3, <2>4, <2>6
<1> QED
    BY <1>6, <1>7, <1>8 DEF g

(***************************************************************************)
(* bfs_expand.  Whatever it visits, it keeps what it started from; no node *)
(* stands in its result twice, and what it adds is a hop away or more.     *)
(***************************************************************************)
FoundSet(W) == [id : Nat, hop : Nat, weight : W]

NoneTwice(seen) == \A j, k \in DOMAIN seen : seen[j].id = seen[k].id => j = k

Grown(base, seen) ==
    /\ Len(base) <= Len(seen) /\ \A k \in 1..Len(base) : seen[k] = base[k]
    /\ \A k \in 1..Len(seen) : k > Len(base) => seen[k].hop >= 1

AccSet(base, W) ==
    {acc \in [seen : Seq(FoundSet(W)), full : BOOLEAN] :
        NoneTwice(acc.seen) /\ Grown(base, acc.seen)}

LEMMA AppendOf ==
    ASSUME NEW S, NEW s \in Seq(S), NEW x \in S
    PROVE  /\ Append(s, x) \in Seq(S) /\ Len(Append(s, x)) = Len(s) + 1
           /\ DOMAIN Append(s, x) = 1..(Len(s) + 1) /\ Len(s) \in Nat /\ DOMAIN s = 1..Len(s)
           /\ \A i \in 1..Len(s) : Append(s, x)[i] = s[i]
           /\ Append(s, x)[Len(s) + 1] = x
    OBVIOUS

LEMMA VisitGrows ==
    ASSUME NEW W, NEW base, Len(base) \in Nat, NEW maxNodes \in Nat, NEW acc \in AccSet(base, W),
           NEW found \in FoundSet(W), found.hop >= 1
    PROVE  Visit(maxNodes, acc, found) \in AccSet(base, W)
<1> DEFINE seen == acc.seen
           new  == Append(seen, found)
           n == Len(seen)
<1>1. /\ acc \in [seen : Seq(FoundSet(W)), full : BOOLEAN]
      /\ seen \in Seq(FoundSet(W)) /\ NoneTwice(seen) /\ Grown(base, seen)
    BY DEF AccSet
<1>2. CASE acc.full \/ \E k \in DOMAIN acc.seen : acc.seen[k].id = found.id
    BY <1>2 DEF Visit
<1>3. CASE ~ (acc.full \/ \E k \in DOMAIN acc.seen : acc.seen[k].id = found.id)
    <2>1. /\ new \in Seq(FoundSet(W)) /\ Len(new) = n + 1 /\ DOMAIN new = 1..(n + 1)
          /\ n \in Nat /\ DOMAIN seen = 1..n
          /\ \A i \in 1..n : new[i] = seen[i]
          /\ new[n + 1] = found
        BY <1>1, AppendOf
    <2>2. Visit(maxNodes, acc, found) = [seen |-> new, full |-> n + 1 >= maxNodes]
        BY <1>3 DEF Visit
    <2>a. \A k \in DOMAIN seen : seen[k].id # found.id
        BY <1>3
    <2> HIDE DEF seen, new, n
    <2>3. NoneTwice(new)
        <3>1. SUFFICES ASSUME NEW j \in 1..(n + 1), NEW k \in 1..(n + 1), new[j].id = new[k].id
                       PROVE  j = k
            BY <2>1 DEF NoneTwice
        <3>2. j = n + 1 \/ j \in 1..n
            BY <2>1
        <3>3. k = n + 1 \/ k \in 1..n
            BY <2>1
        <3>4. CASE j \in 1..n /\ k \in 1..n
            BY <1>1, <2>1, <3>1, <3>4 DEF NoneTwice
        <3>5. CASE j = n + 1 /\ k \in 1..n
            BY <2>1, <2>a, <3>1, <3>5
        <3>6. CASE j \in 1..n /\ k = n + 1
            BY <2>1, <2>a, <3>1, <3>6
        <3> QED
            BY <3>2, <3>3, <3>4, <3>5, <3>6
    <2>4. Grown(base, new)
        <3>1. Len(base) <= n /\ \A k \in 1..Len(base) : seen[k] = base[k]
            BY <1>1 DEF Grown, n
        <3>2. \A k \in 1..n : k > Len(base) => seen[k].hop >= 1
            BY <1>1 DEF Grown, n
        <3>3. Len(base) <= Len(new) /\ \A k \in 1..Len(base) : new[k] = base[k]
            BY <2>1, <3>1
        <3>4. \A k \in 1..Len(new) : k > Len(base) => new[k].hop >= 1
            <4>1. SUFFICES ASSUME NEW k \in 1..(n + 1), k > Len(base) PROVE new[k].hop >= 1
                BY <2>1
            <4>2. k = n + 1 \/ k \in 1..n
                BY <2>1
            <4> QED
                BY <2>1, <3>2, <4>1, <4>2
        <3> QED
            BY <3>3, <3>4 DEF Grown
    <2>5. (n + 1 >= maxNodes) \in BOOLEAN
        OBVIOUS
    <2> QED
        BY <2>1, <2>2, <2>3, <2>4, <2>5 DEF AccSet
<1> QED
    BY <1>2, <1>3

\* A graph whose arrays hold ids and, as weights of its edges, elements of W.
Walkable(g, W) ==
    \A id \in Nat :
        /\ \E L : /\ Neighbors(g, id) \in Seq(L)
                  /\ \A x \in L : x.to \in Nat /\ x.origin.weight \in W
        /\ RevNeighbors(g, id) \in Seq(Nat)

\* What the expansion of the node `at` visits, in this order.
Visits(g, at, both) ==
    LET out == [j \in DOMAIN Neighbors(g, at.id) |->
                   [id |-> Neighbors(g, at.id)[j].to, hop |-> at.hop + 1,
                    weight |-> Neighbors(g, at.id)[j].origin.weight]]
        in  == [j \in DOMAIN RevNeighbors(g, at.id) |->
                   [id |-> RevNeighbors(g, at.id)[j], hop |-> at.hop + 1, weight |-> 1]]
    IN  IF both THEN out \o in ELSE out

\* The nodes one hop away.
NextTo(g, id, both) ==
    {e.to : e \in Items(Neighbors(g, id))} \cup (IF both THEN Items(RevNeighbors(g, id)) ELSE {})

AreVisits(W, g, at, both, s) ==
    /\ s \in Seq(FoundSet(W))
    /\ \A i \in 1..Len(s) : /\ s[i] \in FoundSet(W) /\ s[i].hop = at.hop + 1
                            /\ s[i].id \in NextTo(g, at.id, both)
    /\ \A x \in NextTo(g, at.id, both) : \E i \in 1..Len(s) : s[i].id = x

LEMMA VisitsAre ==
    ASSUME NEW W, 1 \in W, NEW g, Walkable(g, W), NEW both \in BOOLEAN, NEW at \in FoundSet(W)
    PROVE  AreVisits(W, g, at, both, Visits(g, at, both))
<1> DEFINE near == Neighbors(g, at.id)
           back == RevNeighbors(g, at.id)
           F == {f \in FoundSet(W) : f.hop = at.hop + 1 /\ f.id \in NextTo(g, at.id, both)}
           out == [j \in DOMAIN near |->
                      [id |-> near[j].to, hop |-> at.hop + 1, weight |-> near[j].origin.weight]]
           in  == [j \in DOMAIN back |-> [id |-> back[j], hop |-> at.hop + 1, weight |-> 1]]
           s == Visits(g, at, both)
<1>1. at.id \in Nat /\ at.hop + 1 \in Nat
    BY DEF FoundSet
<1>2. s = IF both THEN out \o in ELSE out
    BY DEF Visits
<1>3. NextTo(g, at.id, both) = {e.to : e \in Items(near)} \cup (IF both THEN Items(back) ELSE {})
    BY DEF NextTo
<1> HIDE DEF s
<1>4. PICK L : near \in Seq(L) /\ \A x \in L : x.to \in Nat /\ x.origin.weight \in W
    BY <1>1 DEF Walkable
<1>5. back \in Seq(Nat)
    BY <1>1 DEF Walkable
<1> HIDE DEF near, back
<1>6. /\ DOMAIN near = 1..Len(near) /\ Len(near) \in Nat
      /\ \A j \in 1..Len(near) : near[j].to \in Nat /\ near[j].origin.weight \in W
      /\ \A j \in 1..Len(near) : near[j] \in Items(near)
      /\ \A x \in Items(near) : \E j \in 1..Len(near) : near[j] = x
    BY <1>4, ItemsOf
<1>7. /\ DOMAIN back = 1..Len(back) /\ Len(back) \in Nat
      /\ \A j \in 1..Len(back) : back[j] \in Nat /\ back[j] \in Items(back)
      /\ \A x \in Items(back) : \E j \in 1..Len(back) : back[j] = x
    BY <1>5, ItemsOf
<1>8. /\ out \in Seq(F) /\ Len(out) = Len(near)
      /\ \A j \in 1..Len(near) : out[j].id = near[j].to
    <2>1. \A j \in 1..Len(near) : out[j] \in F
        <3>1. SUFFICES ASSUME NEW j \in 1..Len(near) PROVE out[j] \in F
            OBVIOUS
        <3>2. out[j] = [id |-> near[j].to, hop |-> at.hop + 1, weight |-> near[j].origin.weight]
            BY <1>6
        <3>3. near[j].to \in Nat /\ near[j].origin.weight \in W /\ near[j].to \in NextTo(g, at.id, both)
            BY <1>3, <1>6
        <3> HIDE DEF out
        <3>4. out[j] \in FoundSet(W)
            BY <1>1, <3>2, <3>3 DEF FoundSet
        <3> QED
            BY <3>2, <3>3, <3>4
    <2>2. out \in [1..Len(near) -> F] /\ \A j \in 1..Len(near) : out[j].id = near[j].to
        BY <1>6, <2>1
    <2> HIDE DEF out, F
    <2> QED
        BY <1>6, <2>2, DefinedSeq
<1>9. both => /\ in \in Seq(F) /\ Len(in) = Len(back)
              /\ \A j \in 1..Len(back) : in[j].id = back[j]
    <2>1. SUFFICES ASSUME both PROVE /\ in \in Seq(F) /\ Len(in) = Len(back)
                                     /\ \A j \in 1..Len(back) : in[j].id = back[j]
        OBVIOUS
    <2>2. \A j \in 1..Len(back) : in[j] \in F
        <3>1. SUFFICES ASSUME NEW j \in 1..Len(back) PROVE in[j] \in F
            OBVIOUS
        <3>2. in[j] = [id |-> back[j], hop |-> at.hop + 1, weight |-> 1]
            BY <1>7
        <3>3. back[j] \in Nat /\ back[j] \in NextTo(g, at.id, both)
            BY <1>3, <1>7, <2>1
        <3> HIDE DEF in
        <3>4. in[j] \in FoundSet(W)
            BY <1>1, <3>2, <3>3 DEF FoundSet
        <3> QED
            BY <3>2, <3>3, <3>4
    <2>3. in \in [1..Len(back) -> F] /\ \A j \in 1..Len(back) : in[j].id = back[j]
        BY <1>7, <2>2
    <2> HIDE DEF in, F
    <2> QED
        BY <1>7, <2>3, DefinedSeq
<1> HIDE DEF out, in
<1>10. \A f \in F : f \in FoundSet(W) /\ f.hop = at.hop + 1 /\ f.id \in NextTo(g, at.id, both)
    OBVIOUS
<1>11. s \in Seq(F) /\ \A x \in NextTo(g, at.id, both) : \E i \in 1..Len(s) : s[i].id = x
    <2> HIDE DEF F
    <2>1. CASE both
        <3>1. s = out \o in
            BY <1>2, <2>1
        <3>2. /\ s \in Seq(F) /\ Len(s) = Len(near) + Len(back)
              /\ \A i \in 1..Len(near) : s[i] = out[i]
              /\ \A i \in 1..Len(back) : s[Len(near) + i] = in[i]
            <4>1. /\ out \in Seq(F) /\ Len(out) = Len(near)
                  /\ in \in Seq(F) /\ Len(in) = Len(back)
                BY <1>8, <1>9, <2>1
            <4>2. Behind(F, out \o in, out, in)
                BY ONLY <4>1, ConcatBehind
            <4> HIDE DEF s
            <4>3. Behind(F, s, out, in)
                BY ONLY <3>1, <4>2
            <4> QED
                BY ONLY <4>1, <4>3 DEF Behind
        <3>3. ASSUME NEW x \in NextTo(g, at.id, both) PROVE \E i \in 1..Len(s) : s[i].id = x
            <4>1. CASE \E e \in Items(near) : x = e.to
                <5>1. PICK j \in 1..Len(near) : x = near[j].to
                    BY <1>6, <4>1
                <5>2. j \in 1..Len(s) /\ s[j].id = x
                    BY <1>6, <1>7, <1>8, <3>2, <5>1
                <5> QED
                    BY <5>2
            <4>2. CASE x \in Items(back)
                <5>1. PICK j \in 1..Len(back) : x = back[j]
                    BY <1>7, <4>2
                <5>2. Len(near) + j \in 1..Len(s)
                    BY <1>6, <1>7, <3>2, <5>1
                <5>3. s[Len(near) + j] = in[j]
                    BY <3>2, <1>9, <2>1, <5>1
                <5>4. in[j].id = x
                    BY <1>9, <2>1, <5>1
                <5> QED
                    BY <5>2, <5>3, <5>4
            <4> QED
                BY <1>3, <2>1, <4>1, <4>2
        <3> QED
            BY <3>2, <3>3
    <2>2. CASE ~ both
        <3>1. s = out
            BY <1>2, <2>2
        <3>2. ASSUME NEW x \in NextTo(g, at.id, both) PROVE \E i \in 1..Len(s) : s[i].id = x
            <4>1. PICK e \in Items(near) : x = e.to
                BY <1>3, <2>2
            <4>2. PICK j \in 1..Len(near) : x = near[j].to
                BY <1>6, <4>1
            <4> QED
                BY <1>8, <3>1, <4>2
        <3> QED
            BY <1>8, <3>1, <3>2
    <2> QED
        BY <2>1, <2>2
<1>12. Len(s) \in Nat /\ s \in Seq(FoundSet(W)) /\ \A i \in 1..Len(s) : s[i] \in F
    <2>1. Len(s) \in Nat /\ DOMAIN s = 1..Len(s) /\ \A i \in 1..Len(s) : s[i] \in F
        BY <1>11
    <2> HIDE DEF F
    <2>2. s \in [1..Len(s) -> FoundSet(W)]
        BY <1>10, <1>11, <2>1
    <2>3. s \in Seq(FoundSet(W))
        BY <2>1, <2>2, DefinedSeq
    <2> QED
        BY <2>1, <2>3
<1> HIDE DEF F
<1>13. AreVisits(W, g, at, both, s)
    BY <1>10, <1>11, <1>12 DEF AreVisits
<1> QED
    BY <1>13 DEF s

\* What the visits of an expansion keep true, from place to place, it keeps true.
LEMMA ExpandSteps ==
    ASSUME NEW W, 1 \in W, NEW g, Walkable(g, W), NEW base, Len(base) \in Nat,
           NEW maxDepth \in Nat, NEW maxNodes \in Nat, NEW both \in BOOLEAN,
           NEW acc \in AccSet(base, W), NEW k \in 1..Len(acc.seen), acc.seen[k].hop < maxDepth,
           NEW Inv, acc \in Inv[0],
           \A i \in 1..Len(Visits(g, acc.seen[k], both)) : \A a \in AccSet(base, W) :
               a \in Inv[i - 1] => Visit(maxNodes, a, Visits(g, acc.seen[k], both)[i]) \in Inv[i]
    PROVE  /\ Expand(g, maxDepth, maxNodes, both, acc, k) \in AccSet(base, W)
           /\ Expand(g, maxDepth, maxNodes, both, acc, k) \in Inv[Len(Visits(g, acc.seen[k], both))]
<1> DEFINE A  == AccSet(base, W)
           at == acc.seen[k]
           s  == Visits(g, at, both)
           n  == Len(s)
           step == [p \in A \X (1..n) |-> Visit(maxNodes, p[1], s[p[2]])]
           Step(f) == [i \in 0..n |-> IF i = 0 THEN acc ELSE Visit(maxNodes, f[i - 1], s[i])]
           f == CHOOSE f : f = Step(f)
<1>1. at \in FoundSet(W) /\ at.hop \in Nat /\ at.hop < maxDepth
    <2>1. acc.seen \in Seq(FoundSet(W))
        BY DEF AccSet
    <2>2. at \in FoundSet(W)
        BY <2>1
    <2> QED
        BY <2>2 DEF FoundSet
<1>2. Expand(g, maxDepth, maxNodes, both, acc, k) = f[n]
    <2>1. Expand(g, maxDepth, maxNodes, both, acc, k) = IF at.hop >= maxDepth THEN acc ELSE f[n]
        BY DEF Expand, Folded, Visits
    <2>2. ~ (at.hop >= maxDepth)
        BY <1>1
    <2> QED
        BY <2>1, <2>2
<1>3. /\ \A i \in 1..n : \A a \in A : a \in Inv[i - 1] => Visit(maxNodes, a, s[i]) \in Inv[i]
      /\ acc \in Inv[0] /\ acc \in A
    OBVIOUS
<1> HIDE DEF at
<1>5. s \in Seq(FoundSet(W)) /\ n \in Nat /\ \A i \in 1..n : s[i] \in FoundSet(W) /\ s[i].hop >= 1
    <2>1. AreVisits(W, g, at, both, s)
        BY <1>1, VisitsAre
    <2> HIDE DEF s
    <2>2. s \in Seq(FoundSet(W)) /\ \A i \in 1..n : s[i] \in FoundSet(W) /\ s[i].hop = at.hop + 1
        BY <2>1 DEF AreVisits
    <2> QED
        BY <1>1, <2>2
<1> HIDE DEF s, n
<1>6. ASSUME NEW a \in A, NEW i \in 1..n PROVE Visit(maxNodes, a, s[i]) \in A
    BY <1>5, VisitGrows
<1> HIDE DEF A
<1>8. step \in [A \X (1..n) -> A] /\ \A a \in A, i \in 1..n : step[a, i] = Visit(maxNodes, a, s[i])
    BY <1>6
<1> HIDE DEF step
<1>9. \E h : h = Step(h)
    <2>1. PICK h : Stepwise(h, n, A, acc, step)
        BY <1>3, <1>5, <1>8, StepwiseExists
    <2>2. h \in [0..n -> A] /\ h[0] = acc /\ \A i \in 1..n : h[i] = step[h[i - 1], i]
        BY <2>1 DEF Stepwise
    <2>3. ASSUME NEW i \in 0..n PROVE h[i] = IF i = 0 THEN acc ELSE Visit(maxNodes, h[i - 1], s[i])
        <3>1. CASE i = 0
            BY <2>2, <3>1
        <3>2. CASE i # 0
            <4>1. i \in 1..n /\ i - 1 \in 0..n
                BY <1>5, <3>2
            <4>2. h[i - 1] \in A
                BY <2>2, <4>1
            <4> QED
                BY <1>8, <2>2, <3>2, <4>1, <4>2
        <3> QED
            BY <3>1, <3>2
    <2>4. h = [i \in 0..n |-> h[i]]
        BY <2>2
    <2>5. h = Step(h)
        BY <2>3, <2>4
    <2> QED
        BY <2>5
<1>10. f = Step(f)
    BY <1>9
<1> HIDE DEF f
<1>11. f[0] = acc /\ \A i \in 1..n : f[i] = Visit(maxNodes, f[i - 1], s[i])
    <2>1. \A i \in 0..n : f[i] = IF i = 0 THEN acc ELSE Visit(maxNodes, f[i - 1], s[i])
        BY <1>10
    <2>2. 0 \in 0..n /\ \A i \in 1..n : i \in 0..n /\ i # 0
        BY <1>5
    <2> QED
        BY <2>1, <2>2
<1> DEFINE T == {i \in 0..n : f[i] \in A /\ f[i] \in Inv[i]}
<1>12. 0 \in T
    BY <1>3, <1>5, <1>11
<1>13. ASSUME NEW i \in 1..n, i - 1 \in T PROVE i \in T
    <2>1. f[i - 1] \in A /\ f[i - 1] \in Inv[i - 1] /\ f[i] = Visit(maxNodes, f[i - 1], s[i])
        BY <1>11, <1>13
    <2>2. f[i] \in A /\ f[i] \in Inv[i]
        BY <1>3, <1>6, <2>1
    <2>3. i \in 0..n
        BY <1>5
    <2> QED
        BY <2>2, <2>3
<1>14. f[n] \in A /\ f[n] \in Inv[n]
    <2> HIDE DEF T
    <2>1. \A i \in 0..n : i \in T
        BY <1>5, <1>12, <1>13, UpTo
    <2>2. n \in T
        BY <1>5, <2>1
    <2> QED
        BY <2>2 DEF T
<1> QED
    BY <1>2, <1>14 DEF A, n, s, at

LEMMA ExpandGrows ==
    ASSUME NEW W, 1 \in W, NEW g, Walkable(g, W), NEW base, Len(base) \in Nat,
           NEW maxDepth \in Nat, NEW maxNodes \in Nat, NEW both \in BOOLEAN,
           NEW acc \in AccSet(base, W), NEW k \in 1..Len(acc.seen)
    PROVE  Expand(g, maxDepth, maxNodes, both, acc, k) \in AccSet(base, W)
<1> DEFINE at == acc.seen[k]
           s == Visits(g, at, both)
           n == Len(s)
           Inv == [i \in 0..n |-> AccSet(base, W)]
<1>1. at \in FoundSet(W) /\ at.hop \in Nat
    <2>1. acc.seen \in Seq(FoundSet(W))
        BY DEF AccSet
    <2>2. at \in FoundSet(W)
        BY <2>1
    <2> QED
        BY <2>2 DEF FoundSet
<1>2. CASE at.hop >= maxDepth
    BY <1>2 DEF Expand
<1>3. CASE at.hop < maxDepth
    <2>a. AreVisits(W, g, at, both, s)
        BY <1>1, VisitsAre
    <2> HIDE DEF s
    <2>1. s \in Seq(FoundSet(W)) /\ \A i \in 1..n : s[i] \in FoundSet(W) /\ s[i].hop = at.hop + 1
        BY <2>a DEF AreVisits
    <2>2. n \in Nat
        BY <2>1
    <2>3. \A i \in 1..n : \A a \in AccSet(base, W) : Visit(maxNodes, a, s[i]) \in AccSet(base, W)
        <3> SUFFICES ASSUME NEW i \in 1..n, NEW a \in AccSet(base, W)
                     PROVE  Visit(maxNodes, a, s[i]) \in AccSet(base, W)
            OBVIOUS
        <3>1. s[i] \in FoundSet(W) /\ s[i].hop >= 1
            BY <1>1, <2>1
        <3> QED
            BY <3>1, VisitGrows
    <2>4. acc \in Inv[0] /\ \A i \in 1..n : \A a \in AccSet(base, W) :
              a \in Inv[i - 1] => Visit(maxNodes, a, s[i]) \in Inv[i]
        BY <2>2, <2>3
    <2> HIDE DEF Inv, n
    <2> QED
        BY <1>3, <2>4, ExpandSteps DEF s, n
<1> QED
    BY <1>1, <1>2, <1>3

\* The seeds, each once, at hop 0 and weight 1.
LEMMA SeedsFound ==
    ASSUME NEW seeds \in Seq(Nat)
    PROVE  /\ BfsSeeds(seeds) \in Seq(FoundSet({1})) /\ NoneTwice(BfsSeeds(seeds))
           /\ \A k \in DOMAIN BfsSeeds(seeds) : BfsSeeds(seeds)[k].hop = 0
           /\ \A s \in Items(seeds) : \E k \in DOMAIN BfsSeeds(seeds) : BfsSeeds(seeds)[k].id = s
           /\ \A k \in DOMAIN BfsSeeds(seeds) : BfsSeeds(seeds)[k].id \in Items(seeds)
<1> DEFINE n == Len(seeds)
           F == FoundSet({1})
           A == {seen \in Seq(F) : /\ NoneTwice(seen) /\ \A k \in DOMAIN seen : seen[k].hop = 0
                                   /\ \A k \in DOMAIN seen : seen[k].id \in Items(seeds)}
           Seed(s) == [id |-> s, hop |-> 0, weight |-> 1]
           Insert(seen, s) == IF \E k \in DOMAIN seen : seen[k].id = s THEN seen
                              ELSE Append(seen, [id |-> s, hop |-> 0, weight |-> 1])
           step == [p \in A \X (1..n) |-> Insert(p[1], seeds[p[2]])]
           Step(f) == [i \in 0..n |-> IF i = 0 THEN <<>> ELSE Insert(f[i - 1], seeds[i])]
           f == CHOOSE f : f = Step(f)
<1>1. n \in Nat /\ DOMAIN seeds = 1..n /\ \A i \in 1..n : seeds[i] \in Nat /\ seeds[i] \in Items(seeds)
    BY DEF Items
<1>2. BfsSeeds(seeds) = f[n]
    BY DEF BfsSeeds, Folded
<1> HIDE DEF n
<1>3. \A s \in Nat : Seed(s) \in F
    BY DEF FoundSet
<1>4. ASSUME NEW a \in A, NEW i \in 1..n
      PROVE  /\ Insert(a, seeds[i]) \in A
             /\ \E k \in DOMAIN Insert(a, seeds[i]) : Insert(a, seeds[i])[k].id = seeds[i]
             /\ \A j \in DOMAIN a : /\ j \in DOMAIN Insert(a, seeds[i])
                                    /\ Insert(a, seeds[i])[j] = a[j]
    <2> DEFINE s == seeds[i]
    <2>1. s \in Nat /\ s \in Items(seeds) /\ a \in Seq(F)
        BY <1>1
    <2> HIDE DEF s
    <2>2. CASE \E k \in DOMAIN a : a[k].id = s
        <3>1. Insert(a, s) = a
            BY <2>2
        <3> QED
            BY <2>2, <3>1 DEF s
    <2>3. CASE ~ \E k \in DOMAIN a : a[k].id = s
        <3> DEFINE new == Append(a, Seed(s))
                   l == Len(a)
        <3>1. Insert(a, s) = new
            BY <2>3
        <3> HIDE DEF Insert
        <3>2. Seed(s) \in F /\ Seed(s).id = s /\ Seed(s).hop = 0
            BY <1>3, <2>1
        <3> HIDE DEF Seed, F
        <3>3. /\ new \in Seq(F) /\ Len(new) = l + 1 /\ DOMAIN new = 1..(l + 1)
              /\ l \in Nat /\ DOMAIN a = 1..l
              /\ \A j \in 1..l : new[j] = a[j]
              /\ new[l + 1] = Seed(s)
            BY <2>1, <3>2, AppendOf
        <3> HIDE DEF new, l
        <3>4. \A k \in 1..(l + 1) : k = l + 1 \/ k \in 1..l
            BY <3>3
        <3>5. NoneTwice(new)
            <4>1. SUFFICES ASSUME NEW j \in 1..(l + 1), NEW k \in 1..(l + 1), new[j].id = new[k].id
                           PROVE  j = k
                BY <3>3 DEF NoneTwice
            <4>2. CASE j \in 1..l /\ k \in 1..l
                BY <3>3, <4>1, <4>2 DEF NoneTwice
            <4>3. CASE j = l + 1 /\ k \in 1..l
                BY <2>3, <3>2, <3>3, <4>1, <4>3
            <4>4. CASE j \in 1..l /\ k = l + 1
                BY <2>3, <3>2, <3>3, <4>1, <4>4
            <4> QED
                BY <3>4, <4>2, <4>3, <4>4
        <3>6. \A k \in DOMAIN new : new[k].hop = 0 /\ new[k].id \in Items(seeds)
            BY <2>1, <3>2, <3>3, <3>4
        <3>7. l + 1 \in DOMAIN new /\ new[l + 1].id = s
            BY <3>2, <3>3
        <3>8. new \in A
            BY <3>3, <3>5, <3>6
        <3>9. \A j \in DOMAIN a : j \in DOMAIN new /\ new[j] = a[j]
            BY <3>3
        <3> QED
            BY <3>1, <3>7, <3>8, <3>9 DEF s
    <2> QED
        BY <2>2, <2>3
<1>5. <<>> \in A
    BY DEF NoneTwice
<1> HIDE DEF F, Seed, Insert
<1>6. \A seen \in A : /\ seen \in Seq(F) /\ NoneTwice(seen)
                      /\ \A k \in DOMAIN seen : seen[k].hop = 0 /\ seen[k].id \in Items(seeds)
    OBVIOUS
<1> HIDE DEF A
<1>8. step \in [A \X (1..n) -> A] /\ \A a \in A, i \in 1..n : step[a, i] = Insert(a, seeds[i])
    BY <1>4
<1> HIDE DEF step
<1>9. \E h : h = Step(h)
    <2>1. PICK h : Stepwise(h, n, A, <<>>, step)
        BY <1>1, <1>5, <1>8, StepwiseExists
    <2>2. h \in [0..n -> A] /\ h[0] = <<>> /\ \A i \in 1..n : h[i] = step[h[i - 1], i]
        BY <2>1 DEF Stepwise
    <2>3. ASSUME NEW i \in 0..n PROVE h[i] = IF i = 0 THEN <<>> ELSE Insert(h[i - 1], seeds[i])
        <3>1. CASE i = 0
            BY <2>2, <3>1
        <3>2. CASE i # 0
            <4>1. i \in 1..n /\ i - 1 \in 0..n
                BY <1>1, <3>2
            <4>2. h[i - 1] \in A
                BY <2>2, <4>1
            <4> QED
                BY <1>8, <2>2, <3>2, <4>1, <4>2
        <3> QED
            BY <3>1, <3>2
    <2>4. h = [i \in 0..n |-> h[i]]
        BY <2>2
    <2>5. h = Step(h)
        BY <2>3, <2>4
    <2> QED
        BY <2>5
<1>10. f = Step(f)
    BY <1>9
<1> HIDE DEF f
<1>11. f[0] = <<>> /\ \A i \in 1..n : f[i] = Insert(f[i - 1], seeds[i])
    <2>1. \A i \in 0..n : f[i] = IF i = 0 THEN <<>> ELSE Insert(f[i - 1], seeds[i])
        BY <1>10
    <2>2. 0 \in 0..n /\ \A i \in 1..n : i \in 0..n /\ i # 0
        BY <1>1
    <2> QED
        BY <2>1, <2>2
<1> DEFINE Covers(i) == \A j \in 1..i : \E k \in DOMAIN f[i] : f[i][k].id = seeds[j]
           T == {i \in 0..n : f[i] \in A /\ Covers(i)}
<1>12. 0 \in T
    BY <1>1, <1>5, <1>11
<1>13. ASSUME NEW i \in 1..n, i - 1 \in T PROVE i \in T
    <2>1. f[i - 1] \in A /\ Covers(i - 1) /\ f[i] = Insert(f[i - 1], seeds[i])
        BY <1>11, <1>13
    <2>2. /\ f[i] \in A /\ \E k \in DOMAIN f[i] : f[i][k].id = seeds[i]
          /\ \A j \in DOMAIN f[i - 1] : j \in DOMAIN f[i] /\ f[i][j] = f[i - 1][j]
        BY <1>4, <2>1
    <2>3. ASSUME NEW j \in 1..i PROVE \E k \in DOMAIN f[i] : f[i][k].id = seeds[j]
        <3>1. CASE j = i
            BY <2>2, <3>1
        <3>2. CASE j # i
            <4>1. j \in 1..(i - 1)
                BY <1>1, <3>2
            <4>2. PICK k \in DOMAIN f[i - 1] : f[i - 1][k].id = seeds[j]
                BY <2>1, <4>1
            <4> QED
                BY <2>2, <4>2
        <3> QED
            BY <3>1, <3>2
    <2>4. i \in 0..n
        BY <1>1
    <2> QED
        BY <2>2, <2>3, <2>4
<1>14. f[n] \in A /\ \A j \in 1..n : \E k \in DOMAIN f[n] : f[n][k].id = seeds[j]
    <2> HIDE DEF T
    <2>1. \A i \in 0..n : i \in T
        BY <1>1, <1>12, <1>13, UpTo
    <2>2. n \in T
        BY <1>1, <2>1
    <2> QED
        BY <2>2 DEF T
<1>15. \A s \in Items(seeds) : \E j \in 1..n : s = seeds[j]
    BY <1>1 DEF Items
<1> QED
    BY <1>2, <1>6, <1>14, <1>15 DEF F

\* One turn of the loop: the k-th node found is expanded, if there is one.
Turn(g, maxDepth, maxNodes, both, acc, k) ==
    IF acc.full \/ k > Len(acc.seen) THEN acc ELSE Expand(g, maxDepth, maxNodes, both, acc, k)

\* What is found is that of a walk in I.
EndsIn(I, W, seeds, found) == \E acc \in AccSet(BfsSeeds(seeds), W) : acc \in I /\ found = acc.seen

\* What the turns keep true, from place to place, bfs_expand ends with.
LEMMA BfsSteps ==
    ASSUME NEW W, 1 \in W, NEW g, Walkable(g, W), NumNodes(g) \in Nat, NEW seeds \in Seq(Nat),
           NEW maxDepth \in Nat, NEW maxNodes \in Nat, NEW both \in BOOLEAN,
           NEW Inv, [seen |-> BfsSeeds(seeds), full |-> FALSE] \in Inv[0],
           \A i \in 1..(NumNodes(g) + Len(seeds)) : \A a \in AccSet(BfsSeeds(seeds), W) :
               a \in Inv[i - 1] => Turn(g, maxDepth, maxNodes, both, a, i) \in Inv[i]
    PROVE  EndsIn(Inv[NumNodes(g) + Len(seeds)], W, seeds, BfsExpand(g, seeds, maxDepth, maxNodes, both))
<1> DEFINE base == BfsSeeds(seeds)
           A == AccSet(base, W)
           m == NumNodes(g) + Len(seeds)
           s == [k \in 1..m |-> k]
           first == [seen |-> base, full |-> FALSE]
           Next1(acc, k) == IF acc.full \/ k > Len(acc.seen) THEN acc
                            ELSE Expand(g, maxDepth, maxNodes, both, acc, k)
           step == [p \in A \X (1..m) |-> Next1(p[1], s[p[2]])]
           Step(f) == [i \in 0..m |-> IF i = 0 THEN first ELSE Next1(f[i - 1], s[i])]
           f == CHOOSE f : f = Step(f)
<1>1. base \in Seq(FoundSet({1})) /\ NoneTwice(base) /\ Len(base) \in Nat
    BY SeedsFound
<1>2. BfsExpand(g, seeds, maxDepth, maxNodes, both) = f[m].seen
    <2> DEFINE F(n) == CHOOSE h : h = [i \in 0..n |-> IF i = 0 THEN first ELSE Next1(h[i - 1], s[i])]
    <2>1. BfsExpand(g, seeds, maxDepth, maxNodes, both) = F(Len(s))[Len(s)].seen
        BY DEF BfsExpand, Folded
    <2>2. f = F(m)
        OBVIOUS
    <2>3. m \in Nat
        OBVIOUS
    <2> HIDE DEF m, F, f
    <2>4. s \in [1..m -> Nat]
        BY <2>3
    <2> HIDE DEF s
    <2>5. Len(s) = m
        BY <2>3, <2>4, DefinedSeq
    <2> QED
        BY <2>1, <2>2, <2>5
<1>3. m \in Nat /\ \A i \in 1..m : s[i] = i
    OBVIOUS
<1>a. /\ first \in Inv[0]
      /\ \A i \in 1..m : \A a \in A : a \in Inv[i - 1] => Next1(a, i) \in Inv[i]
    BY DEF Turn
<1> HIDE DEF base, s, m
<1>4. first \in A
    <2>1. \A k \in 1..Len(base) : base[k] \in FoundSet({1})
        BY <1>1
    <2>2. \A x \in FoundSet({1}) : x \in FoundSet(W)
        BY DEF FoundSet
    <2>3. base \in [1..Len(base) -> FoundSet(W)]
        BY <1>1, <2>1, <2>2
    <2>4. base \in Seq(FoundSet(W))
        BY <1>1, <2>3, DefinedSeq
    <2>5. Grown(base, base)
        BY <1>1 DEF Grown
    <2> QED
        BY <1>1, <2>4, <2>5 DEF AccSet
<1>5. ASSUME NEW acc \in A, NEW i \in 1..m PROVE Next1(acc, s[i]) \in A
    <2>1. CASE acc.full \/ s[i] > Len(acc.seen)
        BY <2>1
    <2>2. CASE ~ (acc.full \/ s[i] > Len(acc.seen))
        <3>1. acc.seen \in Seq(FoundSet(W))
            BY DEF AccSet
        <3>2. s[i] \in 1..Len(acc.seen)
            BY <1>3, <2>2, <3>1
        <3>3. Expand(g, maxDepth, maxNodes, both, acc, s[i]) \in A
            BY <1>1, <3>2, ExpandGrows
        <3> QED
            BY <2>2, <3>3
    <2> QED
        BY <2>1, <2>2
<1> HIDE DEF A, first, Next1
<1>8. step \in [A \X (1..m) -> A] /\ \A a \in A, i \in 1..m : step[a, i] = Next1(a, s[i])
    BY <1>5
<1> HIDE DEF step
<1>9. \E h : h = Step(h)
    <2>1. PICK h : Stepwise(h, m, A, first, step)
        BY <1>3, <1>4, <1>8, StepwiseExists
    <2>2. h \in [0..m -> A] /\ h[0] = first /\ \A i \in 1..m : h[i] = step[h[i - 1], i]
        BY <2>1 DEF Stepwise
    <2>3. ASSUME NEW i \in 0..m PROVE h[i] = IF i = 0 THEN first ELSE Next1(h[i - 1], s[i])
        <3>1. CASE i = 0
            BY <2>2, <3>1
        <3>2. CASE i # 0
            <4>1. i \in 1..m /\ i - 1 \in 0..m
                BY <1>3, <3>2
            <4>2. h[i - 1] \in A
                BY <2>2, <4>1
            <4> QED
                BY <1>8, <2>2, <3>2, <4>1, <4>2
        <3> QED
            BY <3>1, <3>2
    <2>4. h = [i \in 0..m |-> h[i]]
        BY <2>2
    <2>5. h = Step(h)
        BY <2>3, <2>4
    <2> QED
        BY <2>5
<1>10. f = Step(f)
    BY <1>9
<1> HIDE DEF f
<1>11. f[0] = first /\ \A i \in 1..m : f[i] = Next1(f[i - 1], i)
    <2>1. \A i \in 0..m : f[i] = IF i = 0 THEN first ELSE Next1(f[i - 1], s[i])
        BY <1>10
    <2>2. 0 \in 0..m /\ \A i \in 1..m : i \in 0..m /\ i # 0
        BY <1>3
    <2> QED
        BY <1>3, <2>1, <2>2
<1> DEFINE T == {i \in 0..m : f[i] \in A /\ f[i] \in Inv[i]}
<1>12. 0 \in T
    BY <1>3, <1>4, <1>11, <1>a
<1>13. ASSUME NEW i \in 1..m, i - 1 \in T PROVE i \in T
    <2>1. f[i - 1] \in A /\ f[i - 1] \in Inv[i - 1] /\ f[i] = Next1(f[i - 1], i) /\ s[i] = i
        BY <1>3, <1>11, <1>13
    <2>2. f[i] \in A
        BY <1>5, <2>1
    <2>3. f[i] \in Inv[i] /\ i \in 0..m
        BY <1>3, <1>a, <2>1
    <2> QED
        BY <2>2, <2>3
<1>14. f[m] \in A /\ f[m] \in Inv[m]
    <2> HIDE DEF T
    <2>1. \A i \in 0..m : i \in T
        BY <1>3, <1>12, <1>13, UpTo
    <2>2. m \in T
        BY <1>3, <2>1
    <2> QED
        BY <2>2 DEF T
<1> QED
    BY <1>2, <1>14 DEF A, base, m, EndsIn

\* bfs_expand finds each node once; it begins with the seeds, all of them, and
\* whatever it adds to them is a hop away or more.
THEOREM BfsFindsSeeds ==
    ASSUME NEW W, 1 \in W, NEW g, Walkable(g, W), NumNodes(g) \in Nat, NEW seeds \in Seq(Nat),
           NEW maxDepth \in Nat, NEW maxNodes \in Nat, NEW bidirectional \in BOOLEAN
    PROVE  /\ BfsExpand(g, seeds, maxDepth, maxNodes, bidirectional) \in Seq(FoundSet(W))
           /\ NoneTwice(BfsExpand(g, seeds, maxDepth, maxNodes, bidirectional))
           /\ Grown(BfsSeeds(seeds), BfsExpand(g, seeds, maxDepth, maxNodes, bidirectional))
<1> DEFINE base == BfsSeeds(seeds)
           m == NumNodes(g) + Len(seeds)
           first == [seen |-> base, full |-> FALSE]
           After(a, i) == Turn(g, maxDepth, maxNodes, bidirectional, a, i)
           Inv == [i \in 0..m |-> {first} \cup {After(a, i) : a \in AccSet(base, W)}]
<1>1. m \in Nat
    OBVIOUS
<1> HIDE DEF m, first, After, base
<1>2. first \in Inv[0] /\ \A i \in 1..m : \A a \in AccSet(base, W) : After(a, i) \in Inv[i]
    BY <1>1
<1> HIDE DEF Inv
<1>3. EndsIn(Inv[m], W, seeds, BfsExpand(g, seeds, maxDepth, maxNodes, bidirectional))
    BY <1>2, BfsSteps DEF m, first, After, base
<1>4. PICK acc \in AccSet(base, W) : BfsExpand(g, seeds, maxDepth, maxNodes, bidirectional) = acc.seen
    BY <1>3 DEF EndsIn, base
<1> QED
    BY <1>4 DEF AccSet, base

(***************************************************************************)
(* The order in which bfs_expand finds nodes, and their distances.         *)
(***************************************************************************)
\* All that edges lead to from the j-th node found is found, a hop further at most.
Spread(g, both, seen, j) ==
    \A x \in NextTo(g, seen[j].id, both) :
        \E q \in 1..Len(seen) : seen[q].id = x /\ seen[q].hop <= seen[j].hop + 1

\* An edge leads from the p-th node found to the k-th, and those before it have spread.
FoundFrom(g, both, seen, p, k) ==
    /\ p < k /\ seen[k].hop = seen[p].hop + 1 /\ seen[k].id \in NextTo(g, seen[p].id, both)
    /\ \A j \in 1..Len(seen) : j < p => Spread(g, both, seen, j)

\* A walk that has found its nodes in the order of their hops, by expanding the first i.
Walked(g, both, depth, base, seen, i) ==
    /\ \A k \in 1..Len(seen) : seen[k].hop <= depth
    /\ \A j, k \in 1..Len(seen) : j <= k => seen[j].hop <= seen[k].hop
    /\ \A k \in 1..Len(seen) : k > Len(base) => \E p \in 1..Len(seen) : p <= i /\ FoundFrom(g, both, seen, p, k)

\* It is full at the limit, or one beyond its seeds, and not before.
Limited(base, maxNodes, acc) ==
    IF acc.full THEN /\ Len(acc.seen) >= maxNodes
                     /\ Len(acc.seen) <= maxNodes \/ Len(acc.seen) <= Len(base) + 1
                ELSE Len(acc.seen) < maxNodes \/ Len(acc.seen) = Len(base)

\* What found nodes have spread to, they keep.
LEMMA SpreadStays ==
    ASSUME NEW g, NEW both, NEW seen, NEW new, Len(seen) \in Nat, Len(new) \in Nat,
           Len(seen) <= Len(new), \A q \in 1..Len(seen) : new[q] = seen[q],
           NEW j \in 1..Len(seen), Spread(g, both, seen, j)
    PROVE  Spread(g, both, new, j)
<1> SUFFICES ASSUME NEW x \in NextTo(g, new[j].id, both)
             PROVE  \E q \in 1..Len(new) : new[q].id = x /\ new[q].hop <= new[j].hop + 1
    BY DEF Spread
<1>1. new[j] = seen[j]
    OBVIOUS
<1>2. PICK q \in 1..Len(seen) : seen[q].id = x /\ seen[q].hop <= seen[j].hop + 1
    BY <1>1 DEF Spread
<1>3. q \in 1..Len(new) /\ new[q] = seen[q]
    BY <1>2
<1> QED
    BY <1>1, <1>2, <1>3

\* No node is more than a hop beyond the one that is being expanded.
LEMMA NoFurther ==
    ASSUME NEW W, NEW g, NEW both, NEW depth \in Nat, NEW base, Len(base) \in Nat,
           \A k \in 1..Len(base) : base[k].hop = 0,
           NEW acc \in AccSet(base, W), NEW i \in 1..Len(acc.seen),
           Walked(g, both, depth, base, acc.seen, i), NEW k \in 1..Len(acc.seen)
    PROVE  acc.seen[k].hop <= acc.seen[i].hop + 1
<1> DEFINE seen == acc.seen
<1>1. seen \in Seq(FoundSet(W)) /\ Grown(base, seen)
    BY DEF AccSet
<1> HIDE DEF seen
<1>2. Len(seen) \in Nat /\ \A j \in 1..Len(seen) : seen[j].hop \in Nat
    <2>1. \A j \in 1..Len(seen) : seen[j] \in FoundSet(W)
        BY <1>1
    <2> QED
        BY <1>1, <2>1 DEF FoundSet
<1>3. i \in 1..Len(seen) /\ k \in 1..Len(seen) /\ Walked(g, both, depth, base, seen, i)
    BY DEF seen
<1>4. CASE k <= Len(base)
    <2>1. seen[k] = base[k] /\ base[k].hop = 0
        BY <1>1, <1>3, <1>4 DEF Grown
    <2> QED
        BY <1>2, <1>3, <2>1 DEF seen
<1>5. CASE k > Len(base)
    <2>1. PICK p \in 1..Len(seen) : p <= i /\ FoundFrom(g, both, seen, p, k)
        BY <1>3, <1>5 DEF Walked
    <2>2. seen[k].hop = seen[p].hop + 1
        BY <2>1 DEF FoundFrom
    <2>3. seen[p].hop <= seen[i].hop
        BY <1>3, <2>1 DEF Walked
    <2>4. seen[k].hop \in Nat /\ seen[p].hop \in Nat /\ seen[i].hop \in Nat
        BY ONLY <1>2, <1>3, p \in 1..Len(seen)
    <2>5. \A x, y, z \in Nat : x = y + 1 /\ y <= z => x <= z + 1
        BY ONLY TRUE
    <2>6. seen[k].hop <= seen[i].hop + 1
        BY ONLY <2>2, <2>3, <2>4, <2>5
    <2> QED
        BY ONLY <2>6 DEF seen
<1> QED
    BY <1>2, <1>3, <1>4, <1>5

\* The i-th node of a walk is being expanded: its neighbour found is next.
Visiting(W, g, both, depth, maxNodes, base, acc, i, found) ==
    /\ depth \in Nat /\ maxNodes \in Nat
    /\ Len(base) \in Nat /\ \A k \in 1..Len(base) : base[k].hop = 0
    /\ acc \in AccSet(base, W) /\ i \in 1..Len(acc.seen) /\ acc.seen[i].hop < depth
    /\ Walked(g, both, depth, base, acc.seen, i) /\ Limited(base, maxNodes, acc)
    /\ \A j \in 1..Len(acc.seen) : j < i => Spread(g, both, acc.seen, j)
    /\ found \in FoundSet(W) /\ found.hop = acc.seen[i].hop + 1
    /\ found.id \in NextTo(g, acc.seen[i].id, both)

\* What the visit makes of acc.
StillWalks(g, both, depth, maxNodes, base, acc, i, found, a) ==
    /\ Len(a.seen) >= Len(acc.seen) /\ \A k \in 1..Len(acc.seen) : a.seen[k] = acc.seen[k]
    /\ Walked(g, both, depth, base, a.seen, i) /\ Limited(base, maxNodes, a)
    /\ \A j \in 1..Len(a.seen) : j < i => Spread(g, both, a.seen, j)
    /\ ~ a.full => \E k \in 1..Len(a.seen) : a.seen[k].id = found.id
    /\ ~ a.full => ~ acc.full

\* A visit of the i-th node's neighbour keeps the order.
LEMMA VisitWalks ==
    ASSUME NEW W, NEW g, NEW both, NEW depth, NEW maxNodes, NEW base, NEW acc, NEW i, NEW found,
           Visiting(W, g, both, depth, maxNodes, base, acc, i, found)
    PROVE  StillWalks(g, both, depth, maxNodes, base, acc, i, found, Visit(maxNodes, acc, found))
<1>0. /\ depth \in Nat /\ maxNodes \in Nat
      /\ Len(base) \in Nat /\ \A k \in 1..Len(base) : base[k].hop = 0
      /\ acc \in AccSet(base, W) /\ i \in 1..Len(acc.seen) /\ acc.seen[i].hop < depth
      /\ Walked(g, both, depth, base, acc.seen, i) /\ Limited(base, maxNodes, acc)
      /\ \A j \in 1..Len(acc.seen) : j < i => Spread(g, both, acc.seen, j)
      /\ found \in FoundSet(W) /\ found.hop = acc.seen[i].hop + 1
      /\ found.id \in NextTo(g, acc.seen[i].id, both)
    BY DEF Visiting
<1> USE <1>0
<1> SUFFICES LET a == Visit(maxNodes, acc, found)
             IN  /\ Len(a.seen) >= Len(acc.seen) /\ \A k \in 1..Len(acc.seen) : a.seen[k] = acc.seen[k]
                 /\ Walked(g, both, depth, base, a.seen, i) /\ Limited(base, maxNodes, a)
                 /\ \A j \in 1..Len(a.seen) : j < i => Spread(g, both, a.seen, j)
                 /\ ~ a.full => \E k \in 1..Len(a.seen) : a.seen[k].id = found.id
                 /\ ~ a.full => ~ acc.full
    BY DEF StillWalks
<1> DEFINE seen == acc.seen
           n == Len(seen)
           new == Append(seen, found)
           a == Visit(maxNodes, acc, found)
<1>1. seen \in Seq(FoundSet(W)) /\ Grown(base, seen) /\ acc.full \in BOOLEAN
    BY DEF AccSet
<1>2. /\ new \in Seq(FoundSet(W)) /\ Len(new) = n + 1 /\ n \in Nat /\ DOMAIN seen = 1..n
      /\ \A k \in 1..n : new[k] = seen[k]
      /\ new[n + 1] = found
    BY <1>1, AppendOf
<1>3. CASE acc.full \/ \E k \in DOMAIN acc.seen : acc.seen[k].id = found.id
    <2>1. a = acc
        BY <1>3 DEF Visit
    <2> HIDE DEF a
    <2>2. ~ acc.full => \E k \in 1..Len(acc.seen) : acc.seen[k].id = found.id
        BY <1>2, <1>3
    <2>3. /\ Len(a.seen) >= Len(acc.seen) /\ \A k \in 1..Len(acc.seen) : a.seen[k] = acc.seen[k]
          /\ Walked(g, both, depth, base, a.seen, i) /\ Limited(base, maxNodes, a)
          /\ \A j \in 1..Len(a.seen) : j < i => Spread(g, both, a.seen, j)
          /\ ~ a.full => \E k \in 1..Len(a.seen) : a.seen[k].id = found.id
          /\ ~ a.full => ~ acc.full
        BY <1>2, <2>1, <2>2
    <2> QED
        BY <2>3 DEF a
<1>4. CASE ~ (acc.full \/ \E k \in DOMAIN acc.seen : acc.seen[k].id = found.id)
    <2>1. a = [seen |-> new, full |-> n + 1 >= maxNodes] /\ ~ acc.full
        BY <1>4 DEF Visit
    <2>2. a.seen = new /\ a.full = (n + 1 >= maxNodes)
        BY <2>1
    <2>a. /\ i \in 1..n /\ Walked(g, both, depth, base, seen, i) /\ Limited(base, maxNodes, acc)
          /\ \A j \in 1..n : j < i => Spread(g, both, seen, j)
          /\ seen[i].hop < depth /\ found.hop = seen[i].hop + 1
          /\ found.id \in NextTo(g, seen[i].id, both)
        OBVIOUS
    <2>b. \A k \in 1..n : seen[k].hop <= seen[i].hop + 1
        BY NoFurther
    <2>c. /\ Limited(base, maxNodes, acc) /\ acc.seen = seen
        OBVIOUS
    <2> HIDE DEF a, new, seen, n
    <2>3. \A j \in 1..n : Spread(g, both, seen, j) => Spread(g, both, new, j)
        BY <1>2, SpreadStays DEF n
    <2>4. \A k \in 1..(n + 1) : k \in 1..n \/ k = n + 1
        BY <1>2
    <2>5. found.hop \in Nat /\ \A k \in 1..n : seen[k].hop \in Nat
        <3>1. \A k \in 1..n : seen[k] \in FoundSet(W)
            BY <1>1 DEF n
        <3> QED
            BY <3>1 DEF FoundSet
    <2>6. Len(base) <= n
        BY <1>1 DEF Grown, n
    <2>7. \A j \in 1..Len(new) : j < i => Spread(g, both, new, j)
        BY <1>2, <2>3, <2>4, <2>a
    <2>8. Walked(g, both, depth, base, new, i)
        <3>1. \A k \in 1..n : seen[k].hop <= depth
            BY <2>a DEF Walked, n
        <3>2. \A k \in 1..Len(new) : new[k].hop <= depth
            <4>1. \A k \in 1..n : new[k].hop <= depth
                BY <1>2, <3>1
            <4>2. seen[i].hop \in Nat /\ found.hop <= depth
                BY <2>5, <2>a
            <4>3. new[n + 1].hop <= depth
                BY <1>2, <4>2
            <4> QED
                BY <1>2, <2>4, <4>1, <4>3
        <3>3. \A j, k \in 1..n : j <= k => seen[j].hop <= seen[k].hop
            BY <2>a DEF Walked, n
        <3>4. ASSUME NEW j \in 1..Len(new), NEW k \in 1..Len(new), j <= k
              PROVE  new[j].hop <= new[k].hop
            <4>1. CASE k \in 1..n
                <5>1. j \in 1..n
                    BY <1>2, <3>4, <4>1
                <5> QED
                    BY <1>2, <3>3, <3>4, <4>1, <5>1
            <4>2. CASE k = n + 1 /\ j \in 1..n
                BY <1>2, <2>a, <2>b, <4>2
            <4>3. CASE k = n + 1 /\ j = n + 1
                BY <1>2, <2>5, <4>3
            <4> QED
                BY <1>2, <2>4, <4>1, <4>2, <4>3
        <3>5. ASSUME NEW k \in 1..Len(new), k > Len(base)
              PROVE  \E p \in 1..Len(new) : p <= i /\ FoundFrom(g, both, new, p, k)
            <4>1. CASE k \in 1..n
                <5>1. PICK p \in 1..n : p <= i /\ FoundFrom(g, both, seen, p, k)
                    BY <2>a, <3>5, <4>1 DEF Walked, n
                <5>2. /\ p < k /\ seen[k].hop = seen[p].hop + 1
                      /\ seen[k].id \in NextTo(g, seen[p].id, both)
                    BY <5>1 DEF FoundFrom
                <5>3. new[k] = seen[k] /\ new[p] = seen[p] /\ p \in 1..Len(new)
                    BY <1>2, <4>1
                <5>4. \A j \in 1..Len(new) : j < p => Spread(g, both, new, j)
                    BY <2>7, <2>a, <5>1
                <5>5. FoundFrom(g, both, new, p, k)
                    BY <5>2, <5>3, <5>4 DEF FoundFrom
                <5> QED
                    BY <5>1, <5>3, <5>5
            <4>2. CASE k = n + 1
                <5>1. i \in 1..Len(new) /\ i < k /\ new[i] = seen[i] /\ new[k] = found /\ i <= i
                    BY <1>2, <2>a, <4>2
                <5>2. FoundFrom(g, both, new, i, k)
                    BY <2>7, <2>a, <5>1 DEF FoundFrom
                <5> QED
                    BY <5>1, <5>2
            <4> QED
                BY <1>2, <2>4, <4>1, <4>2
        <3> QED
            BY <3>2, <3>4, <3>5 DEF Walked
    <2>9. Limited(base, maxNodes, a)
        <3>1. n < maxNodes \/ n = Len(base)
            BY <2>1, <2>c DEF Limited, n
        <3>2. CASE n + 1 >= maxNodes
            <4>1. n + 1 <= maxNodes \/ n + 1 <= Len(base) + 1
                BY <1>2, <3>1
            <4> QED
                BY <1>2, <2>2, <3>2, <4>1 DEF Limited
        <3>3. CASE ~ (n + 1 >= maxNodes)
            <4>1. n + 1 < maxNodes
                BY <1>2, <3>3
            <4> QED
                BY <1>2, <2>2, <3>3, <4>1 DEF Limited
        <3> QED
            BY <3>2, <3>3
    <2>10. Len(a.seen) >= Len(acc.seen) /\ \A k \in 1..Len(acc.seen) : a.seen[k] = acc.seen[k]
        BY <1>2, <2>2 DEF n, seen
    <2>11. \E k \in 1..Len(a.seen) : a.seen[k].id = found.id
        BY <1>2, <2>2
    <2> QED
        BY <2>1, <2>2, <2>7, <2>8, <2>9, <2>10, <2>11 DEF a
<1> QED
    BY <1>3, <1>4

\* The walk after i turns.
Walks(g, both, depth, maxNodes, base, acc, i) ==
    /\ Walked(g, both, depth, base, acc.seen, i) /\ Limited(base, maxNodes, acc)
    /\ ~ acc.full => \A j \in 1..Len(acc.seen) :
                        j <= i /\ acc.seen[j].hop < depth => Spread(g, both, acc.seen, j)

LEMMA ExpandWalks ==
    ASSUME NEW W, 1 \in W, NEW g, Walkable(g, W), NEW both \in BOOLEAN,
           NEW depth \in Nat, NEW maxNodes \in Nat,
           NEW base, Len(base) \in Nat, \A k \in 1..Len(base) : base[k].hop = 0,
           NEW acc \in AccSet(base, W), NEW i \in 1..Len(acc.seen), ~ acc.full,
           Walks(g, both, depth, maxNodes, base, acc, i - 1), acc.seen[i].hop < depth
    PROVE  Walks(g, both, depth, maxNodes, base, Expand(g, depth, maxNodes, both, acc, i), i)
<1> DEFINE A == AccSet(base, W)
           seen == acc.seen
           at == seen[i]
           s == Visits(g, at, both)
           n == Len(s)
           a == Expand(g, depth, maxNodes, both, acc, i)
           Kept(b) == /\ Len(b.seen) >= Len(seen) /\ \A k \in 1..Len(seen) : b.seen[k] = seen[k]
                      /\ Walked(g, both, depth, base, b.seen, i) /\ Limited(base, maxNodes, b)
                      /\ \A j \in 1..Len(b.seen) : j < i => Spread(g, both, b.seen, j)
           Visited(b, l) == ~ b.full => \A m \in 1..l : \E q \in 1..Len(b.seen) : b.seen[q].id = s[m].id
           Inv == [l \in 0..n |-> {b \in A : Kept(b) /\ Visited(b, l)}]
<1>1. /\ seen \in Seq(FoundSet(W)) /\ Len(seen) \in Nat /\ i \in 1..Len(seen) /\ i - 1 \in Nat
      /\ at \in FoundSet(W) /\ at.hop \in Nat /\ at.hop < depth
      /\ \A k \in 1..Len(seen) : seen[k].hop \in Nat
    <2>1. seen \in Seq(FoundSet(W))
        BY DEF AccSet
    <2>2. \A k \in 1..Len(seen) : seen[k] \in FoundSet(W)
        BY <2>1
    <2>3. \A k \in 1..Len(seen) : seen[k].hop \in Nat
        BY <2>2 DEF FoundSet
    <2> QED
        BY <2>1, <2>2, <2>3
<1>2. /\ Walked(g, both, depth, base, seen, i - 1) /\ Limited(base, maxNodes, acc)
      /\ \A j \in 1..Len(seen) : j <= i - 1 /\ seen[j].hop < depth => Spread(g, both, seen, j)
    BY DEF Walks
<1>3. Kept(acc)
    <2>1. Walked(g, both, depth, base, seen, i)
        <3>1. \A p : p \in 1..Len(seen) /\ p <= i - 1 => p <= i
            BY <1>1
        <3> QED
            BY <1>2, <3>1 DEF Walked
    <2>2. ASSUME NEW j \in 1..Len(seen), j < i PROVE Spread(g, both, seen, j)
        <3>1. j <= i - 1 /\ j <= i
            BY <1>1, <2>2
        <3>2. seen[j].hop <= at.hop
            BY <1>1, <2>1, <3>1 DEF Walked
        <3> QED
            BY <1>1, <1>2, <3>1, <3>2
    <2> QED
        BY <1>1, <1>2, <2>1, <2>2
<1>4. /\ s \in Seq(FoundSet(W))
      /\ \A l \in 1..n : /\ s[l] \in FoundSet(W) /\ s[l].hop = at.hop + 1
                         /\ s[l].id \in NextTo(g, at.id, both)
      /\ \A x \in NextTo(g, at.id, both) : \E l \in 1..n : s[l].id = x
    <2>1. AreVisits(W, g, at, both, s)
        BY <1>1, VisitsAre
    <2> HIDE DEF s
    <2> QED
        BY <2>1 DEF AreVisits
<1>a. acc \in A /\ ~ acc.full
    OBVIOUS
<1> HIDE DEF s, at
<1>5. n \in Nat
    BY <1>4
<1>6. ASSUME NEW b \in A, Kept(b), NEW l \in 1..n, Visited(b, l - 1)
      PROVE  /\ Kept(Visit(maxNodes, b, s[l])) /\ Visited(Visit(maxNodes, b, s[l]), l)
             /\ Visit(maxNodes, b, s[l]) \in A
    <2> DEFINE c == Visit(maxNodes, b, s[l])
    <2>1. s[l] \in FoundSet(W) /\ s[l].hop = at.hop + 1 /\ s[l].id \in NextTo(g, at.id, both)
        BY <1>4
    <2>2. b.seen \in Seq(FoundSet(W)) /\ Len(b.seen) \in Nat
        BY DEF AccSet
    <2>3. /\ i \in 1..Len(b.seen) /\ b.seen[i] = at
          /\ Len(b.seen) >= Len(seen) /\ \A k \in 1..Len(seen) : b.seen[k] = seen[k]
          /\ Walked(g, both, depth, base, b.seen, i) /\ Limited(base, maxNodes, b)
          /\ \A j \in 1..Len(b.seen) : j < i => Spread(g, both, b.seen, j)
        <3>1. Len(b.seen) >= Len(seen) /\ \A k \in 1..Len(seen) : b.seen[k] = seen[k]
            BY <1>6
        <3>2. i \in 1..Len(b.seen) /\ b.seen[i] = at
            BY <1>1, <2>2, <3>1 DEF at
        <3> QED
            BY <1>6, <3>2
    <2>4. /\ Len(c.seen) >= Len(b.seen) /\ \A k \in 1..Len(b.seen) : c.seen[k] = b.seen[k]
          /\ Walked(g, both, depth, base, c.seen, i) /\ Limited(base, maxNodes, c)
          /\ \A j \in 1..Len(c.seen) : j < i => Spread(g, both, c.seen, j)
          /\ ~ c.full => \E k \in 1..Len(c.seen) : c.seen[k].id = s[l].id
          /\ ~ c.full => ~ b.full
        <3>1. \A k \in 1..Len(base) : base[k].hop = 0
            OBVIOUS
        <3>2. b \in AccSet(base, W) /\ i \in 1..Len(b.seen) /\ b.seen[i].hop < depth
            BY <1>1, <1>6, <2>3
        <3> HIDE DEF c
        <3>3. /\ s[l] \in FoundSet(W) /\ s[l].hop = b.seen[i].hop + 1
              /\ s[l].id \in NextTo(g, b.seen[i].id, both)
            BY ONLY <2>1, <2>3
        <3>4. /\ Walked(g, both, depth, base, b.seen, i) /\ Limited(base, maxNodes, b)
              /\ \A j \in 1..Len(b.seen) : j < i => Spread(g, both, b.seen, j)
            BY ONLY <2>3
        <3>5. Visiting(W, g, both, depth, maxNodes, base, b, i, s[l])
            BY ONLY depth \in Nat, maxNodes \in Nat, Len(base) \in Nat,
                    <3>1, <3>2, <3>3, <3>4 DEF Visiting
        <3>6. StillWalks(g, both, depth, maxNodes, base, b, i, s[l], c)
            BY ONLY <3>5, VisitWalks DEF c
        <3> QED
            BY ONLY <3>6 DEF StillWalks
    <2>5. c \in A
        <3>1. s[l].hop >= 1
            BY <1>1, <2>1
        <3> QED
            BY <2>1, <3>1, VisitGrows
    <2> HIDE DEF c
    <2>6. Len(c.seen) \in Nat
        BY <2>5 DEF AccSet
    <2>7. Len(c.seen) >= Len(seen) /\ \A k \in 1..Len(seen) : c.seen[k] = seen[k]
        <3>1. \A k \in 1..Len(seen) : k \in 1..Len(b.seen)
            BY <1>1, <2>2, <2>3
        <3>2. Len(c.seen) >= Len(seen)
            BY ONLY <1>1, <2>2, <2>3, <2>4, <2>6
        <3>3. ASSUME NEW k \in 1..Len(seen) PROVE c.seen[k] = seen[k]
            BY ONLY k \in 1..Len(seen), <2>3, <2>4, <3>1
        <3> QED
            BY <3>2, <3>3
    <2>8. ASSUME ~ c.full, NEW m \in 1..l PROVE \E q \in 1..Len(c.seen) : c.seen[q].id = s[m].id
        <3>1. CASE m = l
            BY <2>4, <2>8, <3>1
        <3>2. CASE m # l
            <4>1. m \in 1..(l - 1)
                BY <1>5, <3>2
            <4>2. ~ b.full
                BY <2>4, <2>8
            <4>3. PICK q \in 1..Len(b.seen) : b.seen[q].id = s[m].id
                BY <1>6, <4>1, <4>2
            <4>4. q \in 1..Len(c.seen) /\ c.seen[q] = b.seen[q]
                BY <2>2, <2>4, <2>6, <4>3
            <4> QED
                BY <4>3, <4>4
        <3> QED
            BY <3>1, <3>2
    <2>9. Kept(c)
        BY <2>4, <2>7
    <2>10. Visited(c, l)
        BY <2>8
    <2> QED
        BY <2>5, <2>9, <2>10 DEF c
<1>7. Visited(acc, 0)
    OBVIOUS
<1> HIDE DEF Kept, Visited, A
<1>8. acc \in Inv[0] /\ \A l \in 1..n : \A b \in A : b \in Inv[l - 1] => Visit(maxNodes, b, s[l]) \in Inv[l]
    <2>1. 0 \in 0..n /\ \A l \in 1..n : l \in 0..n /\ l - 1 \in 0..n
        BY <1>5
    <2> QED
        BY <1>3, <1>6, <1>7, <1>a, <2>1
<1>9. a \in A /\ a \in Inv[n]
    <2> HIDE DEF Inv, n, a
    <2> QED
        BY <1>1, <1>8, ExpandSteps DEF A, n, s, at, a
<1>10. a \in A /\ Kept(a) /\ Visited(a, n)
    <2>1. n \in 0..n
        BY <1>5
    <2> HIDE DEF a
    <2> QED
        BY <1>9, <2>1
<1> HIDE DEF a
<1>11. /\ Len(a.seen) >= Len(seen) /\ \A k \in 1..Len(seen) : a.seen[k] = seen[k]
       /\ Walked(g, both, depth, base, a.seen, i) /\ Limited(base, maxNodes, a)
       /\ \A j \in 1..Len(a.seen) : j < i => Spread(g, both, a.seen, j)
       /\ ~ a.full => \A m \in 1..n : \E q \in 1..Len(a.seen) : a.seen[q].id = s[m].id
    BY <1>10 DEF Kept, Visited
<1>12. Len(a.seen) \in Nat /\ i \in 1..Len(a.seen) /\ a.seen[i] = at
    <2>1. Len(a.seen) \in Nat
        BY <1>10 DEF A, AccSet
    <2> QED
        BY <1>1, <1>11, <2>1 DEF at
<1>13. \A k \in 1..Len(a.seen) : a.seen[k].hop <= at.hop + 1
    BY <1>10, <1>11, <1>12, NoFurther DEF A
<1>14. ASSUME ~ a.full PROVE Spread(g, both, a.seen, i)
    <2>1. ASSUME NEW x \in NextTo(g, a.seen[i].id, both)
          PROVE  \E q \in 1..Len(a.seen) : a.seen[q].id = x /\ a.seen[q].hop <= a.seen[i].hop + 1
        <3>1. PICK l \in 1..n : s[l].id = x
            BY <1>4, <1>12, <2>1
        <3>2. PICK q \in 1..Len(a.seen) : a.seen[q].id = s[l].id
            BY <1>11, <1>14
        <3> QED
            BY <1>12, <1>13, <3>1, <3>2
    <2> QED
        BY <2>1 DEF Spread
<1>15. ASSUME ~ a.full, NEW j \in 1..Len(a.seen), j <= i PROVE Spread(g, both, a.seen, j)
    <2>1. j < i \/ j = i
        BY <1>12, <1>15
    <2> QED
        BY <1>11, <1>14, <1>15, <2>1
<1>16. Walks(g, both, depth, maxNodes, base, a, i)
    BY <1>11, <1>15 DEF Walks
<1> QED
    BY <1>16 DEF a

LEMMA TurnWalks ==
    ASSUME NEW W, 1 \in W, NEW g, Walkable(g, W), NEW both \in BOOLEAN,
           NEW depth \in Nat, NEW maxNodes \in Nat,
           NEW base, Len(base) \in Nat, \A k \in 1..Len(base) : base[k].hop = 0,
           NEW acc \in AccSet(base, W), NEW i \in Nat \ {0},
           Walks(g, both, depth, maxNodes, base, acc, i - 1)
    PROVE  Walks(g, both, depth, maxNodes, base, Turn(g, depth, maxNodes, both, acc, i), i)
<1> DEFINE seen == acc.seen
<1>1. /\ Len(seen) \in Nat /\ \A k \in 1..Len(seen) : seen[k].hop \in Nat
    <2>1. seen \in Seq(FoundSet(W))
        BY DEF AccSet
    <2>2. \A k \in 1..Len(seen) : seen[k] \in FoundSet(W)
        BY <2>1
    <2>3. \A f \in FoundSet(W) : f.hop \in Nat
        BY ONLY TRUE DEF FoundSet
    <2>4. Len(seen) \in Nat
        BY ONLY <2>1
    <2> QED
        BY ONLY <2>2, <2>3, <2>4
<1>2. ASSUME acc.full \/ i > Len(seen) \/ seen[i].hop >= depth
      PROVE  Walks(g, both, depth, maxNodes, base, acc, i)
    <2>1. Walked(g, both, depth, base, seen, i)
        <3>1. \A p : p \in 1..Len(seen) /\ p <= i - 1 => p <= i
            BY <1>1
        <3> QED
            BY <3>1 DEF Walks, Walked
    <2>2. ASSUME ~ acc.full, NEW j \in 1..Len(seen), j <= i, seen[j].hop < depth
          PROVE  Spread(g, both, seen, j)
        <3>1. j <= i - 1 \/ j = i
            BY <2>2
        <3>2. CASE j <= i - 1
            BY <2>2, <3>2 DEF Walks
        <3>3. CASE j = i
            BY <1>1, <1>2, <2>2, <3>3
        <3> QED
            BY <3>1, <3>2, <3>3
    <2> QED
        BY <2>1, <2>2 DEF Walks
<1>3. CASE acc.full \/ i > Len(acc.seen)
    BY <1>2, <1>3 DEF Turn
<1>4. CASE ~ (acc.full \/ i > Len(acc.seen))
    <2>1. i \in 1..Len(acc.seen) /\ ~ acc.full
        BY <1>1, <1>4
    <2>2. Turn(g, depth, maxNodes, both, acc, i) = Expand(g, depth, maxNodes, both, acc, i)
        BY <1>4 DEF Turn
    <2>3. CASE seen[i].hop >= depth
        <3>1. Expand(g, depth, maxNodes, both, acc, i) = acc
            BY <2>3 DEF Expand
        <3> QED
            BY <1>2, <2>2, <2>3, <3>1
    <2>4. CASE seen[i].hop < depth
        BY <2>1, <2>2, <2>4, ExpandWalks
    <2> QED
        BY <1>1, <2>1, <2>3, <2>4
<1> QED
    BY <1>3, <1>4

\* The nodes within so many hops of the seeds.
Within(g, both, seeds, depth) ==
    LET near[k \in 0..depth] ==
            IF k = 0 THEN Items(seeds)
            ELSE near[k - 1] \cup UNION {NextTo(g, x, both) : x \in near[k - 1]}
    IN  near

\* No edge leads out of the graph.
Closed(g, both) == \A id \in Nat : NextTo(g, id, both) \subseteq 0..(NumNodes(g) - 1)

LEMMA WithinIs ==
    ASSUME NEW g, NEW both, NumNodes(g) \in Nat, Closed(g, both), NEW seeds \in Seq(Nat), NEW depth \in Nat
    PROVE  /\ Within(g, both, seeds, depth)[0] = Items(seeds)
           /\ \A k \in 1..depth :
                 Within(g, both, seeds, depth)[k] =
                    Within(g, both, seeds, depth)[k - 1]
                       \cup UNION {NextTo(g, x, both) : x \in Within(g, both, seeds, depth)[k - 1]}
           /\ \A k \in 0..depth : Within(g, both, seeds, depth)[k] \subseteq Nat
<1> DEFINE On(S) == S \cup UNION {NextTo(g, x, both) : x \in S}
           A == SUBSET Nat
           base == Items(seeds)
           step == [p \in A \X (1..depth) |-> On(p[1])]
           Step(f) == [k \in 0..depth |->
                         IF k = 0 THEN Items(seeds)
                         ELSE f[k - 1] \cup UNION {NextTo(g, x, both) : x \in f[k - 1]}]
           f == CHOOSE f : f = Step(f)
<1>1. Within(g, both, seeds, depth) = f
    BY DEF Within
<1>2. base \in A
    BY ItemsOf
<1>3. ASSUME NEW S \in A PROVE On(S) \in A
    <2>1. \A x \in S : NextTo(g, x, both) \subseteq Nat
        BY DEF Closed
    <2> QED
        BY <2>1
<1>4. \A h : Step(h) = [k \in 0..depth |-> IF k = 0 THEN base ELSE On(h[k - 1])]
    OBVIOUS
<1>a. \A S : On(S) = S \cup UNION {NextTo(g, x, both) : x \in S}
    OBVIOUS
<1> HIDE DEF A, base, On, Step
<1>5. step \in [A \X (1..depth) -> A] /\ \A S \in A, k \in 1..depth : step[S, k] = On(S)
    BY <1>3
<1> HIDE DEF step
<1>6. \E h : h = Step(h)
    <2>1. PICK h : Stepwise(h, depth, A, base, step)
        BY <1>2, <1>5, StepwiseExists
    <2>2. h \in [0..depth -> A] /\ h[0] = base /\ \A k \in 1..depth : h[k] = step[h[k - 1], k]
        BY <2>1 DEF Stepwise
    <2>3. ASSUME NEW k \in 0..depth PROVE h[k] = IF k = 0 THEN base ELSE On(h[k - 1])
        <3>1. CASE k = 0
            BY <2>2, <3>1
        <3>2. CASE k # 0
            <4>1. k \in 1..depth /\ k - 1 \in 0..depth
                BY <3>2
            <4>2. h[k - 1] \in A
                BY <2>2, <4>1
            <4> QED
                BY <1>5, <2>2, <3>2, <4>1, <4>2
        <3> QED
            BY <3>1, <3>2
    <2>4. h = [k \in 0..depth |-> h[k]]
        BY <2>2
    <2>5. h = Step(h)
        BY <1>4, <2>3, <2>4
    <2> QED
        BY <2>5
<1>7. f = Step(f)
    BY <1>6
<1> HIDE DEF f
<1>8. f[0] = base /\ \A k \in 1..depth : f[k] = On(f[k - 1])
    <2>1. f = [k \in 0..depth |-> IF k = 0 THEN base ELSE On(f[k - 1])]
        BY <1>4, <1>7
    <2>2. \A k \in 0..depth : f[k] = IF k = 0 THEN base ELSE On(f[k - 1])
        BY <2>1
    <2>3. 0 \in 0..depth /\ \A k \in 1..depth : k \in 0..depth /\ k # 0
        OBVIOUS
    <2> QED
        BY <2>2, <2>3
<1> DEFINE T == {k \in 0..depth : f[k] \in A}
<1>9. \A k \in 0..depth : k \in T
    <2>1. 0 \in T
        BY <1>2, <1>8
    <2>2. \A k \in 1..depth : k - 1 \in T => k \in T
        BY <1>3, <1>8
    <2> HIDE DEF T
    <2> QED
        BY <2>1, <2>2, UpTo
<1>10. \A k \in 0..depth : f[k] \subseteq Nat
    BY <1>9 DEF A
<1>11. \A k \in 1..depth : f[k] = f[k - 1] \cup UNION {NextTo(g, x, both) : x \in f[k - 1]}
    BY <1>8, <1>a
<1> QED
    BY <1>1, <1>8, <1>10, <1>11 DEF base

\* Every node found is within its hops and not within fewer, and where all have
\* spread all within the depth are found.
AtDistance(g, both, depth, seen, R) ==
    /\ \A k \in 1..Len(seen) : seen[k].hop \in 0..depth /\ seen[k].id \in R[seen[k].hop]
    /\ \A k \in 1..Len(seen) : seen[k].hop > 0 => seen[k].id \notin R[seen[k].hop - 1]
    /\ \A k \in 1..Len(seen) : seen[k].id \in R[depth]
    /\ (\A j \in 1..Len(seen) : seen[j].hop < depth => Spread(g, both, seen, j))
          => R[depth] \subseteq {seen[k].id : k \in 1..Len(seen)}

LEMMA WalkIsExact ==
    ASSUME NEW W, NEW g, NEW both, NumNodes(g) \in Nat, Closed(g, both),
           NEW seeds \in Seq(Nat), NEW depth \in Nat,
           NEW acc \in AccSet(BfsSeeds(seeds), W), NEW i \in Nat,
           Walked(g, both, depth, BfsSeeds(seeds), acc.seen, i)
    PROVE  AtDistance(g, both, depth, acc.seen, Within(g, both, seeds, depth))
<1> DEFINE seen == acc.seen
           base == BfsSeeds(seeds)
           R == Within(g, both, seeds, depth)
<1>1. seen \in Seq(FoundSet(W)) /\ Grown(base, seen) /\ NoneTwice(seen)
      /\ Walked(g, both, depth, base, seen, i)
    BY DEF AccSet
<1>2. /\ base \in Seq(FoundSet({1}))
      /\ \A k \in DOMAIN base : base[k].hop = 0
      /\ \A s \in Items(seeds) : \E k \in DOMAIN base : base[k].id = s
      /\ \A k \in DOMAIN base : base[k].id \in Items(seeds)
    BY SeedsFound
<1>3. /\ R[0] = Items(seeds)
      /\ \A k \in 1..depth : R[k] = R[k - 1] \cup UNION {NextTo(g, x, both) : x \in R[k - 1]}
    BY WithinIs
<1> HIDE DEF seen, base, R
<1>4. /\ Len(seen) \in Nat /\ DOMAIN seen = 1..Len(seen)
      /\ \A k \in 1..Len(seen) : seen[k].hop \in Nat
    <2>1. \A k \in 1..Len(seen) : seen[k] \in FoundSet(W)
        BY <1>1
    <2> QED
        BY <1>1, <2>1 DEF FoundSet
<1>5. /\ Len(base) \in Nat /\ DOMAIN base = 1..Len(base) /\ Len(base) <= Len(seen)
      /\ \A k \in 1..Len(base) : seen[k] = base[k]
    BY <1>1, <1>2 DEF Grown
<1>6. /\ \A k \in 1..Len(seen) : seen[k].hop <= depth
      /\ \A j, k \in 1..Len(seen) : j <= k => seen[j].hop <= seen[k].hop
      /\ \A k \in 1..Len(seen) : k > Len(base) => \E p \in 1..Len(seen) : FoundFrom(g, both, seen, p, k)
    BY <1>1 DEF Walked
<1>7. \A k \in 1..Len(seen) : k <= Len(base) => seen[k].hop = 0 /\ seen[k].id \in Items(seeds)
    <2>1. \A k \in 1..Len(base) : seen[k].hop = 0 /\ seen[k].id \in Items(seeds)
        BY ONLY <1>2, <1>5
    <2>2. \A k \in 1..Len(seen) : k <= Len(base) => k \in 1..Len(base)
        BY ONLY <1>4, <1>5
    <2> QED
        BY ONLY <2>1, <2>2
\* What is found is within reach.
<1> DEFINE T == {n \in 0..Len(seen) : \A k \in 1..n : seen[k].id \in R[seen[k].hop]}
<1>8. \A n \in 0..Len(seen) : n \in T
    <2>1. 0 \in T
        BY <1>4
    <2>2. ASSUME NEW n \in 1..Len(seen), n - 1 \in T PROVE n \in T
        <3>1. \A k \in 1..(n - 1) : seen[k].id \in R[seen[k].hop]
            BY <2>2
        <3>2. seen[n].id \in R[seen[n].hop]
            <4>1. CASE n <= Len(base)
                BY <1>3, <1>7, <4>1
            <4>2. CASE n > Len(base)
                <5>1. PICK p \in 1..Len(seen) : FoundFrom(g, both, seen, p, n)
                    BY <1>6, <4>2
                <5>2. p < n /\ seen[n].hop = seen[p].hop + 1 /\ seen[n].id \in NextTo(g, seen[p].id, both)
                    BY <5>1 DEF FoundFrom
                <5>3. p \in 1..(n - 1)
                    BY <1>4, <5>2
                <5>4. seen[p].id \in R[seen[p].hop]
                    BY <3>1, <5>3
                <5>5. seen[n].hop \in 1..depth /\ seen[n].hop - 1 = seen[p].hop
                    <6>1. seen[n].hop \in Nat /\ seen[p].hop \in Nat /\ seen[n].hop <= depth
                        BY <1>4, <1>6
                    <6>2. seen[n].hop = seen[p].hop + 1
                        BY <5>2
                    <6> QED
                        BY ONLY depth \in Nat, <6>1, <6>2
                <5> QED
                    BY <1>3, <5>2, <5>4, <5>5
            <4> QED
                BY <1>4, <1>5, <4>1, <4>2
        <3>3. \A k \in 1..n : k \in 1..(n - 1) \/ k = n
            OBVIOUS
        <3>4. n \in 0..Len(seen)
            BY <1>4
        <3> QED
            BY <3>1, <3>2, <3>3, <3>4
    <2> HIDE DEF T
    <2> QED
        BY <1>4, <2>1, <2>2, UpTo
<1>9. \A k \in 1..Len(seen) : seen[k].hop \in 0..depth /\ seen[k].id \in R[seen[k].hop]
    <2>1. Len(seen) \in T
        BY <1>4, <1>8
    <2> QED
        BY <1>4, <1>6, <2>1
\* What is within reach of nodes that have spread is found.
<1> DEFINE Spreads(h) == \A j \in 1..Len(seen) : seen[j].hop < h => Spread(g, both, seen, j)
           Finds(h) == \A x \in R[h] : \E q \in 1..Len(seen) : seen[q].id = x /\ seen[q].hop <= h
           V == {h \in 0..depth : Spreads(h) => Finds(h)}
<1>10. \A h \in 0..depth : h \in V
    <2>1. 0 \in V
        <3>1. Finds(0)
            <4> SUFFICES ASSUME NEW x \in R[0]
                         PROVE  \E q \in 1..Len(seen) : seen[q].id = x /\ seen[q].hop <= 0
                OBVIOUS
            <4>1. PICK q \in 1..Len(base) : base[q].id = x
                BY <1>2, <1>3, <1>5
            <4>2. q \in 1..Len(seen)
                BY ONLY <1>4, <1>5, q \in 1..Len(base)
            <4>3. seen[q].id = x /\ seen[q].hop = 0
                BY ONLY <1>2, <1>5, <4>1, q \in 1..Len(base)
            <4> QED
                BY <4>2, <4>3
        <3> QED
            BY <3>1
    <2>2. ASSUME NEW h \in 1..depth, h - 1 \in V PROVE h \in V
        <3>1. SUFFICES ASSUME Spreads(h), NEW x \in R[h]
                       PROVE  \E q \in 1..Len(seen) : seen[q].id = x /\ seen[q].hop <= h
            OBVIOUS
        <3>2. Spreads(h - 1)
            <4> SUFFICES ASSUME NEW j \in 1..Len(seen), seen[j].hop < h - 1 PROVE Spread(g, both, seen, j)
                OBVIOUS
            <4>1. seen[j].hop < h
                BY <1>4
            <4> QED
                BY <3>1, <4>1
        <3>3. Finds(h - 1)
            BY <2>2, <3>2
        <3>4. CASE x \in R[h - 1]
            <4>1. PICK q \in 1..Len(seen) : seen[q].id = x /\ seen[q].hop <= h - 1
                BY <3>3, <3>4
            <4>2. seen[q].hop <= h
                BY <1>4, <4>1
            <4> QED
                BY <4>1, <4>2
        <3>5. CASE x \notin R[h - 1]
            <4>1. PICK y \in R[h - 1] : x \in NextTo(g, y, both)
                BY <1>3, <3>1, <3>5
            <4>2. PICK q \in 1..Len(seen) : seen[q].id = y /\ seen[q].hop <= h - 1
                BY <3>3, <4>1
            <4>3. seen[q].hop < h
                BY <1>4, <4>2
            <4>4. Spread(g, both, seen, q)
                BY <3>1, <4>3
            <4>5. PICK r \in 1..Len(seen) : seen[r].id = x /\ seen[r].hop <= seen[q].hop + 1
                BY <4>1, <4>2, <4>4 DEF Spread
            <4>6. seen[r].hop <= h
                BY <1>4, <4>2, <4>5
            <4> QED
                BY <4>5, <4>6
        <3> QED
            BY <3>4, <3>5
    <2> HIDE DEF V
    <2> QED
        BY <2>1, <2>2, UpTo
<1>11. \A h \in 0..depth : Spreads(h) => Finds(h)
    BY <1>10
<1>12. ASSUME NEW k \in 1..Len(seen), seen[k].hop > 0, seen[k].id \in R[seen[k].hop - 1] PROVE FALSE
    <2> DEFINE h == seen[k].hop - 1
    <2>1. h \in 0..depth /\ seen[k].hop = h + 1
        BY <1>4, <1>6, <1>12
    <2> HIDE DEF h
    <2>2. k > Len(base)
        BY <1>4, <1>5, <1>7, <1>12
    <2>3. PICK p \in 1..Len(seen) : FoundFrom(g, both, seen, p, k)
        BY <1>6, <2>2
    <2>4. seen[p].hop = h /\ \A j \in 1..Len(seen) : j < p => Spread(g, both, seen, j)
        BY <1>4, <2>1, <2>3 DEF FoundFrom
    <2>5. Spreads(h)
        <3> SUFFICES ASSUME NEW j \in 1..Len(seen), seen[j].hop < h PROVE Spread(g, both, seen, j)
            OBVIOUS
        <3>1. ~ (p <= j)
            BY <1>4, <1>6, <2>1, <2>4
        <3>2. j < p
            BY <1>4, <3>1
        <3> QED
            BY <2>4, <3>2
    <2>6. seen[k].id \in R[h]
        BY <1>12 DEF h
    <2>7. PICK q \in 1..Len(seen) : seen[q].id = seen[k].id /\ seen[q].hop <= h
        BY <1>11, <2>1, <2>5, <2>6
    <2>8. q = k
        BY <1>1, <1>4, <2>7 DEF NoneTwice
    <2> QED
        BY <1>4, <2>1, <2>7, <2>8
\* What is within fewer hops is within more.
<1> DEFINE U == {h \in 0..depth : \A l \in 0..h : R[l] \subseteq R[h]}
<1>13. \A h \in 0..depth : h \in U
    <2>1. 0 \in U
        BY <1>4
    <2>2. ASSUME NEW h \in 1..depth, h - 1 \in U PROVE h \in U
        <3>1. R[h - 1] \subseteq R[h]
            BY <1>3
        <3>2. ASSUME NEW l \in 0..h PROVE R[l] \subseteq R[h]
            <4>1. l = h \/ l \in 0..(h - 1)
                OBVIOUS
            <4> QED
                BY <2>2, <3>1, <4>1
        <3>3. h \in 0..depth
            OBVIOUS
        <3> QED
            BY <3>2, <3>3
    <2> HIDE DEF U
    <2> QED
        BY <2>1, <2>2, UpTo
<1>14. \A k \in 1..Len(seen) : seen[k].id \in R[depth]
    <2>1. depth \in U
        BY <1>13
    <2> QED
        BY <1>9, <2>1
<1>15. Spreads(depth) => R[depth] \subseteq {seen[k].id : k \in 1..Len(seen)}
    <2>1. Spreads(depth) => Finds(depth)
        BY <1>11
    <2> QED
        BY <2>1
<1> QED
    BY <1>9, <1>12, <1>14, <1>15 DEF seen, R, AtDistance

\* There are no more nodes to find than the graph and the seeds have.
LEMMA FoundAtMost ==
    ASSUME NEW W, NEW g, NEW both, NumNodes(g) \in Nat, Closed(g, both), NEW seeds \in Seq(Nat),
           NEW depth \in Nat, NEW acc \in AccSet(BfsSeeds(seeds), W), NEW i \in Nat,
           Walked(g, both, depth, BfsSeeds(seeds), acc.seen, i)
    PROVE  Len(acc.seen) <= NumNodes(g) + Len(seeds)
<1> DEFINE seen == acc.seen
           base == BfsSeeds(seeds)
           n == NumNodes(g)
           S == 0..(n - 1)
           T == Items(seeds)
           f == [k \in 1..Len(seen) |-> seen[k].id]
           h == [k \in 1..Len(seeds) |-> seeds[k]]
<1>1. /\ seen \in Seq(FoundSet(W)) /\ Grown(base, seen) /\ NoneTwice(seen)
      /\ Walked(g, both, depth, base, seen, i) /\ n \in Nat
    BY DEF AccSet
<1>2. /\ base \in Seq(FoundSet({1})) /\ \A k \in DOMAIN base : base[k].id \in Items(seeds)
    BY SeedsFound
<1>3. \A id \in Nat : NextTo(g, id, both) \subseteq S
    BY DEF Closed
<1>4. /\ Len(seeds) \in Nat /\ \A k \in 1..Len(seeds) : seeds[k] \in T
      /\ \A x \in T : \E l \in 1..Len(seeds) : seeds[l] = x
    BY ItemsOf
<1> HIDE DEF seen, base, n, T
<1>5. IsFiniteSet(S) /\ Cardinality(S) = n
    <2>1. IsFiniteSet(S) /\ Cardinality(S) = IF 0 > n - 1 THEN 0 ELSE (n - 1) - 0 + 1
        <3>1. 0 \in Int /\ n - 1 \in Int
            BY <1>1
        <3> QED
            BY <3>1, FS_Interval, Zenon
    <2> QED
        BY <1>1, <2>1
<1>6. IsFiniteSet(T) /\ Cardinality(T) <= Len(seeds)
    <2>1. IsFiniteSet(1..Len(seeds)) /\ Cardinality(1..Len(seeds)) = Len(seeds)
        BY <1>4, FirstFew
    <2>2. h \in Surjection(1..Len(seeds), T)
        BY <1>4 DEF Surjection
    <2> HIDE DEF h
    <2> QED
        BY <2>1, <2>2, FS_Surjection
<1>7. IsFiniteSet(S \cup T) /\ Cardinality(S \cup T) <= n + Len(seeds)
    <2>1. IsFiniteSet(S \cup T)
          /\ Cardinality(S \cup T) = Cardinality(S) + Cardinality(T) - Cardinality(S \cap T)
        BY <1>5, <1>6, FS_Union
    <2>2. Cardinality(S \cap T) \in Nat
        <3>1. IsFiniteSet(S \cap T)
            BY <1>5, FS_Subset
        <3> QED
            BY <3>1, FS_CardinalityType
    <2>3. Cardinality(T) \in Nat
        BY <1>6, FS_CardinalityType
    <2> QED
        BY <1>1, <1>4, <1>5, <1>6, <2>1, <2>2, <2>3
<1>8. /\ Len(seen) \in Nat /\ DOMAIN seen = 1..Len(seen)
      /\ \A k \in 1..Len(seen) : seen[k].id \in Nat
    <2>1. \A k \in 1..Len(seen) : seen[k] \in FoundSet(W)
        BY <1>1
    <2> QED
        BY <1>1, <2>1 DEF FoundSet
<1>9. ASSUME NEW k \in 1..Len(seen) PROVE seen[k].id \in S \cup T
    <2>1. Len(base) \in Nat /\ DOMAIN base = 1..Len(base)
        BY <1>2
    <2>2. CASE k <= Len(base)
        <3>1. k \in 1..Len(base) /\ seen[k] = base[k]
            BY <1>1, <2>1, <2>2 DEF Grown
        <3> QED
            BY <1>2, <2>1, <3>1 DEF T
    <2>3. CASE k > Len(base)
        <3>1. PICK p \in 1..Len(seen) : FoundFrom(g, both, seen, p, k)
            BY <1>1, <2>3 DEF Walked
        <3>2. seen[k].id \in NextTo(g, seen[p].id, both)
            BY <3>1 DEF FoundFrom
        <3> QED
            BY <1>3, <1>8, <3>2
    <2> QED
        BY <2>1, <2>2, <2>3
<1>10. f \in Injection(1..Len(seen), S \cup T)
    <2>1. \A j, k \in 1..Len(seen) : seen[j].id = seen[k].id => j = k
        BY <1>1, <1>8 DEF NoneTwice
    <2> HIDE DEF S
    <2> QED
        BY <1>9, <2>1 DEF Injection, IsInjective
<1>11. Cardinality(1..Len(seen)) <= Cardinality(S \cup T)
    <2> HIDE DEF f, S
    <2> QED
        BY <1>7, <1>10, FS_Injection
<1>12. Cardinality(1..Len(seen)) = Len(seen)
    BY <1>8, FirstFew
<1>13. Cardinality(S \cup T) \in Nat
    BY <1>7, FS_CardinalityType
<1> HIDE DEF S
<1>14. Len(seen) <= n + Len(seeds)
    BY <1>1, <1>4, <1>7, <1>8, <1>11, <1>12, <1>13
<1> QED
    BY <1>14 DEF seen, n

\* The walk starts from each seed once.
LEMMA SeedsOnce ==
    ASSUME NEW seeds \in Seq(Nat)
    PROVE  IsFiniteSet(Items(seeds)) /\ Len(BfsSeeds(seeds)) = Cardinality(Items(seeds))
<1> DEFINE base == BfsSeeds(seeds)
           f == [k \in 1..Len(base) |-> base[k].id]
<1>1. /\ base \in Seq(FoundSet({1})) /\ NoneTwice(base)
      /\ \A s \in Items(seeds) : \E k \in DOMAIN base : base[k].id = s
      /\ \A k \in DOMAIN base : base[k].id \in Items(seeds)
    BY SeedsFound
<1> HIDE DEF base
<1>2. Len(base) \in Nat /\ DOMAIN base = 1..Len(base)
    BY <1>1
<1>3. f \in Bijection(1..Len(base), Items(seeds))
    <2>1. \A j, k \in 1..Len(base) : base[j].id = base[k].id => j = k
        BY <1>1, <1>2 DEF NoneTwice
    <2>2. f \in Injection(1..Len(base), Items(seeds))
        BY <1>1, <1>2, <2>1 DEF Injection, IsInjective
    <2>3. f \in Surjection(1..Len(base), Items(seeds))
        BY <1>1, <1>2 DEF Surjection
    <2> HIDE DEF f
    <2> QED
        BY <2>2, <2>3 DEF Bijection
<1>4. IsFiniteSet(1..Len(base)) /\ Cardinality(1..Len(base)) = Len(base)
    BY <1>2, FirstFew
<1> HIDE DEF f
<1>5. f \in Surjection(1..Len(base), Items(seeds)) /\ f \in Injection(1..Len(base), Items(seeds))
    BY <1>3 DEF Bijection
<1>6. IsFiniteSet(Items(seeds)) /\ Cardinality(Items(seeds)) = Cardinality(1..Len(base))
    BY <1>4, <1>5, FS_Surjection
<1> QED
    BY <1>4, <1>6 DEF base

\* bfs_expand finds each node at its distance from the nearest seed: within so many
\* hops and not within fewer.  It finds all within its depth unless the limit stops
\* it, and then it has found no more than the limit, or one beyond its seeds.
THEOREM BfsFindsNearest ==
    ASSUME NEW W, 1 \in W, NEW g, Walkable(g, W), NumNodes(g) \in Nat, NEW both \in BOOLEAN,
           Closed(g, both), NEW seeds \in Seq(Nat), NEW depth \in Nat, NEW maxNodes \in Nat
    PROVE  LET found == BfsExpand(g, seeds, depth, maxNodes, both)
               R == Within(g, both, seeds, depth)
           IN  /\ \A k \in 1..Len(found) : found[k].hop \in 0..depth /\ found[k].id \in R[found[k].hop]
               /\ \A k \in 1..Len(found) : found[k].hop > 0 => found[k].id \notin R[found[k].hop - 1]
               /\ \/ {found[k].id : k \in 1..Len(found)} = R[depth]
                  \/ Len(found) >= maxNodes
               /\ Len(found) <= maxNodes \/ Len(found) <= Cardinality(Items(seeds)) + 1
<1> DEFINE base == BfsSeeds(seeds)
           A == AccSet(base, W)
           m == NumNodes(g) + Len(seeds)
           first == [seen |-> base, full |-> FALSE]
           Reached(a, i) == Walks(g, both, depth, maxNodes, base, a, i)
           Inv == [i \in 0..m |-> {a \in A \cup {first} : Reached(a, i)}]
           found == BfsExpand(g, seeds, depth, maxNodes, both)
           R == Within(g, both, seeds, depth)
<1>1. /\ base \in Seq(FoundSet({1})) /\ \A k \in DOMAIN base : base[k].hop = 0
      /\ Len(base) = Cardinality(Items(seeds))
    BY SeedsFound, SeedsOnce
<1>2. m \in Nat /\ Len(base) \in Nat /\ \A k \in 1..Len(base) : base[k].hop = 0
    BY <1>1
<1>3. Reached(first, 0)
    <2> HIDE DEF base
    <2>1. first.seen = base /\ first.full = FALSE
        OBVIOUS
    <2>2. Walked(g, both, depth, base, base, 0)
        <3>1. \A k \in 1..Len(base) : ~ (k > Len(base))
            BY <1>2
        <3> QED
            BY <1>2, <3>1 DEF Walked
    <2>3. Limited(base, maxNodes, first)
        BY <2>1 DEF Limited
    <2>4. \A j \in 1..Len(base) : ~ (j <= 0)
        BY <1>2
    <2> QED
        BY <2>1, <2>2, <2>3, <2>4 DEF Walks
<1>4. ASSUME NEW a \in A, NEW i \in 1..m, Reached(a, i - 1)
      PROVE  Turn(g, depth, maxNodes, both, a, i) \in A /\ Reached(Turn(g, depth, maxNodes, both, a, i), i)
    <2>1. i \in Nat \ {0}
        BY <1>2
    <2> HIDE DEF base, m
    <2>2. Reached(Turn(g, depth, maxNodes, both, a, i), i)
        BY <1>2, <1>4, <2>1, TurnWalks
    <2>3. a.seen \in Seq(FoundSet(W)) /\ Len(a.seen) \in Nat
        BY DEF AccSet
    <2>4. Turn(g, depth, maxNodes, both, a, i) \in A
        <3>1. CASE a.full \/ i > Len(a.seen)
            BY <3>1 DEF Turn
        <3>2. CASE ~ (a.full \/ i > Len(a.seen))
            <4>1. i \in 1..Len(a.seen)
                BY <2>1, <2>3, <3>2
            <4>2. Expand(g, depth, maxNodes, both, a, i) \in A
                BY <1>2, <4>1, ExpandGrows
            <4> QED
                BY <3>2, <4>2 DEF Turn
        <3> QED
            BY <3>1, <3>2
    <2> QED
        BY <2>2, <2>4
<1>5. PICK acc \in A : Reached(acc, m) /\ found = acc.seen
    <2>1. \A i \in 1..m : i \in 0..m /\ i - 1 \in 0..m
        BY <1>2
    <2> HIDE DEF A, Reached, first, m
    <2>2. first \in Inv[0]
        BY <1>2, <1>3
    <2>3. \A i \in 1..m : \A a \in A : a \in Inv[i - 1] => Turn(g, depth, maxNodes, both, a, i) \in Inv[i]
        <3> SUFFICES ASSUME NEW i \in 1..m, NEW a \in A, a \in Inv[i - 1]
                     PROVE  Turn(g, depth, maxNodes, both, a, i) \in Inv[i]
            OBVIOUS
        <3>1. Reached(a, i - 1)
            BY <2>1
        <3>2. Turn(g, depth, maxNodes, both, a, i) \in A /\ Reached(Turn(g, depth, maxNodes, both, a, i), i)
            BY <1>4, <3>1
        <3> QED
            BY <2>1, <3>2
    <2>4. \A a : a \in Inv[m] => Reached(a, m)
        BY <1>2
    <2> HIDE DEF Inv, found
    <2>5. EndsIn(Inv[m], W, seeds, found)
        BY <2>2, <2>3, BfsSteps DEF A, first, m, found, base
    <2>6. PICK acc \in A : acc \in Inv[m] /\ found = acc.seen
        BY <2>5 DEF EndsIn, A, base
    <2> QED
        BY <2>4, <2>6
<1>6. Walked(g, both, depth, base, acc.seen, m) /\ Limited(base, maxNodes, acc)
    BY <1>5 DEF Walks
<1>7. Len(acc.seen) \in Nat /\ Len(acc.seen) <= m
    <2>1. acc.seen \in Seq(FoundSet(W))
        BY DEF AccSet
    <2>2. Len(acc.seen) <= m
        BY <1>2, <1>6, FoundAtMost
    <2> QED
        BY <2>1, <2>2
<1>a. AtDistance(g, both, depth, acc.seen, R)
    BY <1>2, <1>6, WalkIsExact
<1>8. /\ \A k \in 1..Len(acc.seen) : acc.seen[k].hop \in 0..depth /\ acc.seen[k].id \in R[acc.seen[k].hop]
      /\ \A k \in 1..Len(acc.seen) : acc.seen[k].hop > 0 => acc.seen[k].id \notin R[acc.seen[k].hop - 1]
      /\ \A k \in 1..Len(acc.seen) : acc.seen[k].id \in R[depth]
      /\ (\A j \in 1..Len(acc.seen) : acc.seen[j].hop < depth => Spread(g, both, acc.seen, j))
            => R[depth] \subseteq {acc.seen[k].id : k \in 1..Len(acc.seen)}
    <2> HIDE DEF R
    <2> QED
        BY <1>a DEF AtDistance
<1> HIDE DEF base, m, R, found, A
<1>9. CASE acc.full
    <2>1. Len(acc.seen) >= maxNodes /\ (Len(acc.seen) <= maxNodes \/ Len(acc.seen) <= Len(base) + 1)
        BY <1>6, <1>9 DEF Limited
    <2> QED
        BY <1>1, <1>5, <1>8, <2>1 DEF found, R
<1>10. CASE ~ acc.full
    <2>1. Len(acc.seen) < maxNodes \/ Len(acc.seen) = Len(base)
        BY <1>6, <1>10 DEF Limited
    <2>2. Len(acc.seen) <= maxNodes \/ Len(acc.seen) <= Len(base) + 1
        BY <1>2, <1>7, <2>1
    <2>3. \A j \in 1..Len(acc.seen) : j <= m
        BY <1>2, <1>7
    <2>4. \A j \in 1..Len(acc.seen) : acc.seen[j].hop < depth => Spread(g, both, acc.seen, j)
        BY <1>5, <1>10, <2>3 DEF Walks
    <2>5. {acc.seen[k].id : k \in 1..Len(acc.seen)} = R[depth]
        BY <1>8, <2>4
    <2> QED
        BY <1>1, <1>5, <1>8, <2>2, <2>5 DEF found, R
<1> QED
    BY <1>9, <1>10

(***************************************************************************)
(* The weights of the nodes.                                               *)
(***************************************************************************)
LEMMA GreatestOf ==
    ASSUME NEW b \in Nat, NEW S, S \subseteq 0..b, S # {}
    PROVE  Greatest(S) \in S /\ \A y \in S : y <= Greatest(S)
<1> DEFINE T == {b - i : i \in S}
<1>1. \A i \in S : i \in Nat /\ b - i \in Nat
    OBVIOUS
<1>2. T \subseteq Nat
    BY <1>1
<1>3. T # {}
    BY Zenon
<1>4. PICK x \in T : \A y \in T : x <= y
    BY <1>2, <1>3, LeastNat
<1>5. PICK i \in S : x = b - i
    OBVIOUS
<1>6. ASSUME NEW j \in S PROVE j <= i
    <2>1. b - j \in T
        OBVIOUS
    <2>2. x <= b - j
        BY <1>4, <2>1
    <2> QED
        BY <1>1, <1>5, <2>2
<1> QED
    BY <1>6 DEF Greatest

DegreeOf(es, id) == Cardinality({k \in DOMAIN es : es[k].from = id})
                        + Cardinality({k \in DOMAIN es : es[k].to = id})

\* In a graph with edges the greatest degree is no less than 1: every weight is a
\* fraction from 0 to 1, and some node's is 1.
THEOREM WeightsAreFractions ==
    ASSUME NEW Ents, NEW Origins, NEW ns, Len(ns) \in Nat,
           NEW es \in Seq(EdgeSet(Ents, Origins)), Inside(es, Len(ns)), es # <<>>,
           NEW id \in Nat, id < Len(ns)
    PROVE  /\ Build(ns, es).weights[id + 1][1] = DegreeOf(es, id)
           /\ Build(ns, es).weights[id + 1][1] \in Nat
           /\ Build(ns, es).weights[id + 1][2] \in Nat \ {0}
           /\ Build(ns, es).weights[id + 1][1] <= Build(ns, es).weights[id + 1][2]
           /\ \E top \in 1..Len(ns) :
                 Build(ns, es).weights[top][1] = Build(ns, es).weights[top][2]
<1> DEFINE n == Len(ns)
           m == Len(es)
           Degree(i) == Cardinality({k \in DOMAIN es : es[k].from = i})
                            + Cardinality({k \in DOMAIN es : es[k].to = i})
           S == {Degree(i - 1) : i \in 1..n}
           most == IF n = 0 THEN 1 ELSE Greatest(S)
<1>1. Build(ns, es).weights = [i \in 1..n |-> <<Degree(i - 1), most>>]
    BY DEF Build
<1>2. m \in Nat /\ DOMAIN es = 1..m /\ 1 \in 1..m
    <2>1. es # <<>> => 1 \in DOMAIN es
        BY EmptySeq
    <2> QED
        BY <2>1
<1>3. ASSUME NEW i PROVE Degree(i) \in Nat /\ Degree(i) <= m + m
    <2>1. {k \in DOMAIN es : es[k].from = i} \subseteq 1..m /\ {k \in DOMAIN es : es[k].to = i} \subseteq 1..m
        BY <1>2
    <2> DEFINE A == {k \in DOMAIN es : es[k].from = i}
               B == {k \in DOMAIN es : es[k].to = i}
    <2> HIDE DEF A, B
    <2>2. Cardinality(A) \in Nat /\ Cardinality(A) <= m
        BY <1>2, <2>1, Positions DEF A
    <2>3. Cardinality(B) \in Nat /\ Cardinality(B) <= m
        BY <1>2, <2>1, Positions DEF B
    <2>4. Degree(i) = Cardinality(A) + Cardinality(B)
        BY DEF A, B
    <2> HIDE DEF Degree, m
    <2> QED
        BY <1>2, <2>2, <2>3, <2>4
<1>4. es[1].from \in Nat /\ es[1].from < n
    <2>1. es[1] \in EdgeSet(Ents, Origins)
        BY <1>2
    <2> QED
        BY <1>2, <2>1 DEF EdgeSet, Inside
<1>5. Degree(es[1].from) >= 1
    <2> DEFINE A == {k \in DOMAIN es : es[k].from = es[1].from}
               B == {k \in DOMAIN es : es[k].to = es[1].from}
    <2>1. A \subseteq 1..m /\ B \subseteq 1..m /\ 1 \in A
        BY <1>2
    <2>2. Degree(es[1].from) = Cardinality(A) + Cardinality(B)
        OBVIOUS
    <2> HIDE DEF A, B, Degree
    <2>3. IsFiniteSet(A) /\ Cardinality(A) \in Nat /\ Cardinality(B) \in Nat
        BY <1>2, <2>1, Positions
    <2>4. Cardinality(A) # 0
        BY <2>1, <2>3, FS_EmptySet
    <2> QED
        BY <2>2, <2>3, <2>4
<1> HIDE DEF Degree, m, n
<1>6. n \in Nat /\ n # 0 /\ id + 1 \in 1..n /\ (id + 1) - 1 = id
    BY <1>4 DEF n
<1>7. S \subseteq 0..(m + m) /\ Degree(es[1].from) \in S /\ Degree(id) \in S
    <2>1. S \subseteq 0..(m + m)
        BY <1>2, <1>3
    <2>2. es[1].from + 1 \in 1..n /\ (es[1].from + 1) - 1 = es[1].from
        BY <1>4, <1>6
    <2>3. Degree((es[1].from + 1) - 1) \in S
        BY <2>2
    <2>4. Degree((id + 1) - 1) \in S
        BY <1>6
    <2> QED
        BY <1>6, <2>1, <2>2, <2>3, <2>4
<1> HIDE DEF S
<1>8. Greatest(S) \in S /\ \A y \in S : y <= Greatest(S)
    <2>1. m + m \in Nat /\ S # {}
        BY <1>2, <1>7
    <2> QED
        BY <1>7, <2>1, GreatestOf
<1>9. most = Greatest(S)
    BY <1>6
<1>10. Build(ns, es).weights[id + 1] = <<Degree(id), most>>
    <2>1. Build(ns, es).weights[id + 1] = <<Degree((id + 1) - 1), most>>
        BY <1>1, <1>6
    <2> QED
        BY <1>6, <2>1
<1> HIDE DEF most
<1>11. most \in Nat /\ most >= 1 /\ Degree(id) <= most
    <2>1. most \in 0..(m + m)
        BY <1>7, <1>8, <1>9
    <2>2. Degree(es[1].from) <= most /\ Degree(id) <= most
        BY <1>7, <1>8, <1>9
    <2>3. Degree(es[1].from) \in Nat
        BY <1>3
    <2> QED
        BY <1>2, <1>5, <2>1, <2>2, <2>3
<1>12. Degree(id) = DegreeOf(es, id)
    BY DEF Degree, DegreeOf
<1>13. \E top \in 1..n : Build(ns, es).weights[top][1] = Build(ns, es).weights[top][2]
    <2>1. PICK top \in 1..n : most = Degree(top - 1)
        BY <1>8, <1>9 DEF S
    <2>2. Build(ns, es).weights[top] = <<Degree(top - 1), most>>
        BY <1>1
    <2> QED
        BY <2>1, <2>2
<1> QED
    BY <1>3, <1>10, <1>11, <1>12, <1>13 DEF n

=============================================================================
