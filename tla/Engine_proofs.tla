----------------------------- MODULE Engine_proofs -----------------------------
(***************************************************************************)
(* Theorems about Engine, for any set of writers and mergers, any          *)
(* requests, any faults and any bounds.                                    *)
(***************************************************************************)
EXTENDS EngineRefinement, FiniteSetTheorems, SequenceTheorems, WellFoundedInduction, TLAPS

(***************************************************************************)
(* Sequences.                                                              *)
(***************************************************************************)

\* A set of naturals has a least element.
LEMMA LeastNat ==
    ASSUME NEW T, T \subseteq Nat, T # {}
    PROVE  \E x \in T : \A y \in T : x <= y
<1>1. PICK x \in T : \A y \in T : ~ (<<y, x>> \in OpToRel(<, Nat))
    BY NatLessThanWellFounded, WFMin
<1>2. ASSUME NEW y \in T PROVE x <= y
    <2>1. <<y, x>> \in OpToRel(<, Nat) <=> y < x
        BY SMT DEF OpToRel
    <2>2. ~ (y < x)
        BY <1>1, <2>1, Zenon
    <2>3. x \in Nat /\ y \in Nat
        OBVIOUS
    <2> QED
        BY <2>2, <2>3, SMT
<1> QED
    BY <1>2

\* Last picks the greatest of a set of positions of a sequence.
LEMMA LastProperties ==
    ASSUME NEW n \in Nat, NEW S, S \subseteq 1..n, S # {}
    PROVE  Last(S) \in S /\ \A j \in S : j <= Last(S)
<1> DEFINE T == {n - i : i \in S}
<1>1. \A i \in S : i \in Nat /\ n - i \in Nat
    OBVIOUS
<1>2. T \subseteq Nat
    BY <1>1
<1>3. T # {}
    BY Zenon
<1>4. PICK x \in T : \A y \in T : x <= y
    BY <1>2, <1>3, LeastNat
<1>5. PICK i \in S : x = n - i
    OBVIOUS
<1>6. ASSUME NEW j \in S PROVE j <= i
    <2>1. n - j \in T
        OBVIOUS
    <2>2. x <= n - j
        BY <1>4, <2>1
    <2> QED
        BY <1>1, <1>5, <2>2
<1> QED
    BY <1>6 DEF Last

\* A sequence defined element by element has the type of its elements.
LEMMA DefinedSeq ==
    ASSUME NEW S, NEW n \in Nat, NEW f, f \in [1..n -> S]
    PROVE  f \in Seq(S) /\ Len(f) = n /\ DOMAIN f = 1..n
BY SeqDef

(***************************************************************************)
(* What DeltaStore's operators return.                                     *)
(***************************************************************************)

\* The remap of merge_into sends IDs to IDs.
LEMMA RemapIdIsNat ==
    ASSUME NEW baseCount \in Nat, NEW ns \in Seq(NodeType), NEW id \in Nat
    PROVE  RemapId(baseCount, ns, id) \in Nat
<1> DEFINE hits == {i \in DOMAIN ns : ns[i].id = id}
<1>1. CASE hits = {}
    BY <1>1 DEF RemapId
<1>2. CASE hits # {}
    <2>1. hits \subseteq 1..Len(ns) /\ Len(ns) \in Nat
        OBVIOUS
    <2>2. Last(hits) \in hits
        BY <2>1, <1>2, LastProperties
    <2> QED
        BY <2>1, <2>2, <1>2 DEF RemapId
<1> QED
    BY <1>1, <1>2

\* merge_into appends the drained nodes behind the base's, and keeps their origins.
LEMMA MergedNodesProperties ==
    ASSUME NEW old \in Seq(NodeType), NEW ns \in Seq(NodeType)
    PROVE  /\ MergedNodes(old, ns) \in Seq(NodeType)
           /\ Len(MergedNodes(old, ns)) = Len(old) + Len(ns)
           /\ \A i \in 1..Len(old) : MergedNodes(old, ns)[i] = old[i]
           /\ \A i \in 1..Len(ns) :
                 MergedNodes(old, ns)[Len(old) + i].origin = ns[i].origin
<1> DEFINE new == [i \in DOMAIN ns |-> [id     |-> (Len(old) + i) - 1,
                                       ent    |-> ns[i].ent,
                                       origin |-> ns[i].origin]]
<1>1. Len(old) \in Nat /\ Len(ns) \in Nat /\ DOMAIN ns = 1..Len(ns)
    OBVIOUS
<1>2. ASSUME NEW i \in 1..Len(ns) PROVE new[i] \in NodeType
    <2>1. ns[i] \in NodeType
        OBVIOUS
    <2>2. (Len(old) + i) - 1 \in Nat
        BY <1>1
    <2> QED
        BY <1>1, <2>1, <2>2 DEF NodeType
<1>3. new \in [1..Len(ns) -> NodeType]
    BY <1>1, <1>2
<1>4. new \in Seq(NodeType) /\ Len(new) = Len(ns)
    BY <1>1, <1>3, DefinedSeq
<1>5. MergedNodes(old, ns) = old \o new
    BY DEF MergedNodes
<1>6. \A i \in 1..Len(ns) : new[i].origin = ns[i].origin
    BY <1>1
<1> HIDE DEF new
<1>7. /\ old \o new \in Seq(NodeType)
      /\ Len(old \o new) = Len(old) + Len(new)
      /\ \A i \in 1 .. Len(old) + Len(new) :
            (old \o new)[i] = IF i <= Len(old) THEN old[i] ELSE new[i - Len(old)]
    BY <1>4, ConcatProperties
<1>8. \A i \in 1..Len(old) : (old \o new)[i] = old[i]
    BY <1>1, <1>4, <1>7
<1>9. \A i \in 1..Len(ns) : (old \o new)[Len(old) + i] = new[i]
    BY <1>1, <1>4, <1>7
<1> QED
    BY <1>4, <1>5, <1>6, <1>7, <1>8, <1>9

\* Remapped edges are edges and keep their origins.
LEMMA RemappedEdgesProperties ==
    ASSUME NEW baseCount \in Nat, NEW d \in GraphType
    PROVE  /\ RemappedEdges(baseCount, d) \in Seq(EdgeType)
           /\ Len(RemappedEdges(baseCount, d)) = Len(d.edges)
           /\ \A j \in 1..Len(d.edges) :
                 RemappedEdges(baseCount, d)[j].origin = d.edges[j].origin
<1> DEFINE es == RemappedEdges(baseCount, d)
<1>1. /\ d.nodes \in Seq(NodeType) /\ d.edges \in Seq(EdgeType)
      /\ Len(d.edges) \in Nat /\ DOMAIN d.edges = 1..Len(d.edges)
    BY DEF GraphType
<1>2. ASSUME NEW j \in 1..Len(d.edges)
      PROVE  es[j] \in EdgeType /\ es[j].origin = d.edges[j].origin
    <2>1. d.edges[j] \in EdgeType
        BY <1>1
    <2>2. d.edges[j].from \in Nat /\ d.edges[j].to \in Nat
        BY <2>1 DEF EdgeType
    <2>3. /\ RemapId(baseCount, d.nodes, d.edges[j].from) \in Nat
          /\ RemapId(baseCount, d.nodes, d.edges[j].to) \in Nat
        BY <1>1, <2>2, RemapIdIsNat
    <2>4. es[j] = [from   |-> RemapId(baseCount, d.nodes, d.edges[j].from),
                   to     |-> RemapId(baseCount, d.nodes, d.edges[j].to),
                   src    |-> d.edges[j].src,
                   dst    |-> d.edges[j].dst,
                   origin |-> d.edges[j].origin]
        BY <1>1 DEF RemappedEdges
    <2> QED
        BY <2>1, <2>3, <2>4 DEF EdgeType
<1>3. es \in [1..Len(d.edges) -> EdgeType]
    BY <1>1, <1>2 DEF RemappedEdges
<1> QED
    BY <1>1, <1>2, <1>3, DefinedSeq

\* A batch that a torn line swallows loses its first entry at most.
LEMMA ReadableProperties ==
    ASSUME NEW S, NEW batch \in Seq(S)
    PROVE  /\ Readable(batch) \in Seq(S)
           /\ Origins(Readable(batch)) \subseteq Origins(batch)
<1>1. CASE walTorn /\ batch # <<>>
    <2>1. /\ Tail(batch) \in Seq(S) /\ Len(Tail(batch)) = Len(batch) - 1
          /\ \A i \in 1..Len(Tail(batch)) : Tail(batch)[i] = batch[i + 1]
        BY <1>1, HeadTailProperties
    <2>2. Readable(batch) = Tail(batch)
        BY <1>1 DEF Readable
    <2> QED
        BY <2>1, <2>2 DEF Origins
<1>2. CASE ~ (walTorn /\ batch # <<>>)
    BY <1>2 DEF Readable
<1> QED
    BY <1>1, <1>2

\* The origins of a concatenation are those of its parts.
LEMMA OriginsOfConcat ==
    ASSUME NEW S, NEW s \in Seq(S), NEW t \in Seq(S)
    PROVE  Origins(s \o t) = Origins(s) \cup Origins(t)
<1>1. /\ s \o t \in Seq(S) /\ Len(s \o t) = Len(s) + Len(t)
      /\ \A i \in 1..Len(s) + Len(t) :
            (s \o t)[i] = IF i <= Len(s) THEN s[i] ELSE t[i - Len(s)]
    BY ConcatProperties
<1>2. \A i \in 1..Len(s) : i \in 1..Len(s \o t) /\ (s \o t)[i] = s[i]
    BY <1>1
<1>3. \A i \in 1..Len(t) :
          Len(s) + i \in 1..Len(s \o t) /\ (s \o t)[Len(s) + i] = t[i]
    BY <1>1
<1>4. \A i \in 1..Len(s \o t) :
          (\E k \in 1..Len(s) : (s \o t)[i] = s[k]) \/ (\E k \in 1..Len(t) : (s \o t)[i] = t[k])
    BY <1>1
<1>5. DOMAIN s = 1..Len(s) /\ DOMAIN t = 1..Len(t) /\ DOMAIN (s \o t) = 1..Len(s \o t)
    BY <1>1
<1>6. Origins(s) \cup Origins(t) \subseteq Origins(s \o t)
    <2>1. ASSUME NEW i \in 1..Len(s)
          PROVE  s[i].origin \in Origins(s \o t)
        BY <1>2, <1>5 DEF Origins
    <2>2. ASSUME NEW i \in 1..Len(t)
          PROVE  t[i].origin \in Origins(s \o t)
        BY <1>3, <1>5 DEF Origins
    <2> QED
        BY <2>1, <2>2, <1>5, Zenon DEF Origins
<1>7. Origins(s \o t) \subseteq Origins(s) \cup Origins(t)
    BY <1>4, <1>5 DEF Origins
<1> QED
    BY <1>6, <1>7

(***************************************************************************)
(* What Engine's state functions return.                                   *)
(***************************************************************************)

\* A request's relations name entities of the request.
LEMMA RequestFacts ==
    ASSUME NEW w \in Writers
    PROVE  /\ Request[w].ents \in Seq(Entities)
           /\ Request[w].rels \in Seq((Nat \ {0}) \X (Nat \ {0}))
           /\ \A j \in 1..Len(Request[w].rels) :
                 /\ Request[w].rels[j][1] \in 1..Len(Request[w].ents)
                 /\ Request[w].rels[j][2] \in 1..Len(Request[w].ents)
<1>1. Request[w] \in RequestType
    BY RequestAssumption
<1>2. /\ Request[w].ents \in Seq(Entities)
      /\ Request[w].rels \in Seq((Nat \ {0}) \X (Nat \ {0}))
    BY <1>1 DEF RequestType
<1>3. ASSUME NEW j \in 1..Len(Request[w].rels)
      PROVE  /\ Request[w].rels[j][1] \in 1..Len(Request[w].ents)
             /\ Request[w].rels[j][2] \in 1..Len(Request[w].ents)
    <2>1. Request[w].rels[j] \in (Nat \ {0}) \X (Nat \ {0})
        BY <1>2
    <2>2. /\ Request[w].rels[j][1] <= Len(Request[w].ents)
          /\ Request[w].rels[j][2] <= Len(Request[w].ents)
        BY <1>2, RequestAssumption
    <2>3. /\ Request[w].rels[j][1] \in Nat \ {0}
          /\ Request[w].rels[j][2] \in Nat \ {0}
        BY <2>1
    <2>4. Len(Request[w].ents) \in Nat
        BY <1>2
    <2> QED
        BY <2>2, <2>3, <2>4
<1> QED
    BY <1>2, <1>3

\* The edges of a handler whose entities are resolved, each with the origin of
\* its relation.
LEMMA EdgesOfProperties ==
    ASSUME WriterTypeOK, NEW w \in Writers, Len(ids[w]) = Len(Request[w].ents)
    PROVE  /\ EdgesOf(w) \in Seq(EdgeType)
           /\ \A o \in Origins(EdgesOf(w)) : o[1] = w
<1> DEFINE es == EdgesOf(w)
           rels == Request[w].rels
<1>1. /\ Request[w].ents \in Seq(Entities) /\ ids[w] \in Seq(Nat)
      /\ Len(rels) \in Nat /\ DOMAIN rels = 1..Len(rels)
    BY RequestFacts DEF WriterTypeOK
<1>2. ASSUME NEW j \in 1..Len(rels)
      PROVE  es[j] \in EdgeType /\ es[j].origin = <<w, j>>
    <2>1. /\ rels[j][1] \in 1..Len(Request[w].ents)
          /\ rels[j][2] \in 1..Len(Request[w].ents)
        BY RequestFacts
    <2>2. /\ ids[w][rels[j][1]] \in Nat /\ ids[w][rels[j][2]] \in Nat
          /\ Request[w].ents[rels[j][1]] \in Entities
          /\ Request[w].ents[rels[j][2]] \in Entities
        BY <1>1, <2>1, ElementOfSeq
    <2>3. es[j] = [from |-> ids[w][rels[j][1]], to |-> ids[w][rels[j][2]],
                   src |-> Request[w].ents[rels[j][1]],
                   dst |-> Request[w].ents[rels[j][2]],
                   origin |-> <<w, j>>]
        BY <1>1 DEF EdgesOf
    <2>4. <<w, j>> \in Origin
        BY <1>1 DEF Origin
    <2> DEFINE x == ids[w][rels[j][1]]
               y == ids[w][rels[j][2]]
               a == Request[w].ents[rels[j][1]]
               b == Request[w].ents[rels[j][2]]
    <2>5. /\ x \in Nat /\ y \in Nat /\ a \in Entities /\ b \in Entities
          /\ es[j] = [from |-> x, to |-> y, src |-> a, dst |-> b, origin |-> <<w, j>>]
        BY <2>2, <2>3
    <2> HIDE DEF x, y, a, b, es
    <2>6. es[j] \in EdgeType
        BY ONLY <2>4, <2>5 DEF EdgeType
    <2>7. es[j].origin = <<w, j>>
        BY ONLY <2>5
    <2> QED
        BY <2>6, <2>7
<1>3. es \in [1..Len(rels) -> EdgeType]
    BY <1>1, <1>2 DEF EdgesOf
<1>4. es \in Seq(EdgeType) /\ DOMAIN es = 1..Len(rels)
    BY <1>1, <1>3, DefinedSeq
<1> QED
    BY <1>2, <1>4 DEF Origins

\* The snapshot the engine starts from is one.
LEMMA FirstSnapshotType == FirstSnapshot \in SnapshotType
<1> DEFINE ns == [i \in DOMAIN SeedEnts |->
                     [id |-> i - 1, ent |-> SeedEnts[i], origin |-> <<Seeder, i>>]]
<1> DEFINE e == [from |-> 0, to |-> 0, src |-> SeedEnts[1], dst |-> SeedEnts[1],
                 origin |-> <<Seeder, 1>>]
<1>1. /\ SeedEnts \in Seq(Entities) /\ DOMAIN SeedEnts = 1..Len(SeedEnts)
      /\ Len(SeedEnts) \in Nat /\ SeedEnts[1] \in Entities
    BY BoundsAssumption
<1>2. ns \in [1..Len(SeedEnts) -> NodeType]
    BY <1>1 DEF NodeType, Origin
<1>3. ns \in Seq(NodeType)
    BY <1>1, <1>2, DefinedSeq
<1>4. /\ <<>> \in Seq(NodeType) /\ <<>> \in Seq(Entities)
      /\ <<>> \in Seq(Entities \X Entities) /\ <<>> \in Seq(Nat \X Nat)
    OBVIOUS
<1>5. <<e>> \in Seq(EdgeType)
    <2>1. <<Seeder, 1>> \in Origin
        BY DEF Origin
    <2>2. e \in EdgeType
        BY <1>1, <2>1 DEF EdgeType
    <2> HIDE DEF e
    <2> QED
        BY <2>2
<1>6. FirstSnapshot = [nodes |-> ns, edges |-> <<e>>, vecs |-> SeedEnts, evecs |-> <<>>,
                       eps |-> <<>>, linked |-> FALSE, cut |-> {}, mixed |-> {}]
    BY DEF FirstSnapshot
<1> HIDE DEF ns, e
<1> QED
    BY <1>1, <1>3, <1>4, <1>5, <1>6 DEF SnapshotType

\* So are the empty values.
LEMMA EmptyTypes ==
    /\ Empty \in GraphType
    /\ EmptySnapshot \in SnapshotType
    /\ EmptyEdgeIndex \in EdgeIndexType
BY DEF Empty, EmptySnapshot, EmptyEdgeIndex, GraphType, SnapshotType, EdgeIndexType

\* What is read of the edge embeddings has their type.
LEMMA EdgeFilesType ==
    ASSUME NEW d \in SnapshotType
    PROVE  /\ EdgeFiles(d) \in EdgeIndexType
           /\ EdgeIndexOf(d) \in EdgeIndexType
           /\ GraphOf(d) \in GraphType
           /\ [evecs |-> d.evecs, eps |-> d.eps] \in EdgeIndexType
<1>1. /\ d.evecs \in Seq(Entities \X Entities) /\ d.eps \in Seq(Nat \X Nat)
      /\ d.nodes \in Seq(NodeType) /\ d.edges \in Seq(EdgeType)
    BY DEF SnapshotType
<1>2. [evecs |-> d.evecs, eps |-> d.eps] \in EdgeIndexType
    BY <1>1 DEF EdgeIndexType
<1>3. EdgeFiles(d) \in EdgeIndexType
    BY <1>2, EmptyTypes DEF EdgeFiles
<1> QED
    BY <1>1, <1>2, <1>3, EmptyTypes DEF EdgeIndexOf, GraphOf, GraphType

\* What a merge makes has the type of a snapshot, starts with the nodes of its
\* base and holds all that was drained.
LEMMA MergedProperties ==
    ASSUME NEW m \in Mergers, MergerTypeOK, disk \in SnapshotType
    PROVE  /\ Merged(m) \in SnapshotType
           /\ Len(base[m].nodes) <= Len(Merged(m).nodes)
           /\ \A i \in 1..Len(base[m].nodes) : Merged(m).nodes[i] = base[m].nodes[i]
           /\ Origins(drained[m].nodes) \subseteq Origins(Merged(m).nodes)
           /\ Origins(drained[m].edges) \subseteq Origins(Merged(m).edges)
<1> DEFINE b   == base[m]
           d   == drained[m]
           new == RemappedEdges(Len(b.nodes), d)
           old == EdgeFiles(disk)
           vs  == [i \in DOMAIN d.nodes |-> d.nodes[i].ent]
           xs  == [j \in DOMAIN new |-> <<new[j].src, new[j].dst>>]
           ps  == [j \in DOMAIN new |-> <<new[j].from, new[j].to>>]
<1>1. /\ b.nodes \in Seq(NodeType) /\ b.edges \in Seq(EdgeType)
      /\ d \in GraphType /\ d.nodes \in Seq(NodeType) /\ d.edges \in Seq(EdgeType)
      /\ disk.vecs \in Seq(Entities)
      /\ old.evecs \in Seq(Entities \X Entities) /\ old.eps \in Seq(Nat \X Nat)
    BY EdgeFilesType DEF MergerTypeOK, GraphType, SnapshotType, EdgeIndexType
<1>2. /\ Len(b.nodes) \in Nat
      /\ Len(d.nodes) \in Nat /\ DOMAIN d.nodes = 1..Len(d.nodes)
      /\ Len(d.edges) \in Nat /\ DOMAIN d.edges = 1..Len(d.edges)
    <2>1. /\ b.nodes \in Seq(NodeType)
          /\ d.nodes \in Seq(NodeType) /\ d.edges \in Seq(EdgeType)
        BY ONLY <1>1 DEF GraphType
    <2> HIDE DEF b, d
    <2> QED
        BY ONLY <2>1
<1>3. /\ new \in Seq(EdgeType) /\ Len(new) = Len(d.edges)
      /\ \A j \in 1..Len(d.edges) : new[j].origin = d.edges[j].origin
    <2> HIDE DEF b, d
    <2> QED
        BY <1>1, <1>2, RemappedEdgesProperties
<1>4. /\ MergedNodes(b.nodes, d.nodes) \in Seq(NodeType)
      /\ Len(MergedNodes(b.nodes, d.nodes)) = Len(b.nodes) + Len(d.nodes)
      /\ \A i \in 1..Len(b.nodes) : MergedNodes(b.nodes, d.nodes)[i] = b.nodes[i]
      /\ \A i \in 1..Len(d.nodes) :
            MergedNodes(b.nodes, d.nodes)[Len(b.nodes) + i].origin = d.nodes[i].origin
    BY <1>1, MergedNodesProperties
<1>5. Merged(m) = [nodes |-> MergedNodes(b.nodes, d.nodes), edges |-> b.edges \o new,
                   vecs |-> disk.vecs \o vs, evecs |-> old.evecs \o xs,
                   eps |-> old.eps \o ps, linked |-> TRUE, cut |-> {}, mixed |-> {}]
    BY DEF Merged
<1> HIDE DEF new, old, b, d
<1>6. DOMAIN new = 1..Len(d.edges)
    BY <1>2, <1>3
<1>7. vs \in Seq(Entities)
    <2>1. \A i \in 1..Len(d.nodes) : d.nodes[i] \in NodeType
        BY <1>1
    <2>2. vs \in [1..Len(d.nodes) -> Entities]
        BY <1>2, <2>1 DEF NodeType
    <2> HIDE DEF vs
    <2> QED
        BY <1>2, <2>2, DefinedSeq
<1>8. xs \in Seq(Entities \X Entities) /\ ps \in Seq(Nat \X Nat)
    <2>1. \A j \in 1..Len(d.edges) : new[j] \in EdgeType
        BY <1>3
    <2>2. xs \in [1..Len(d.edges) -> Entities \X Entities]
        BY <1>6, <2>1 DEF EdgeType
    <2>3. ps \in [1..Len(d.edges) -> Nat \X Nat]
        BY <1>6, <2>1 DEF EdgeType
    <2> HIDE DEF xs, ps
    <2> QED
        BY <1>2, <2>2, <2>3, DefinedSeq
<1> HIDE DEF vs, xs, ps
<1>9. /\ b.edges \o new \in Seq(EdgeType) /\ disk.vecs \o vs \in Seq(Entities)
      /\ old.evecs \o xs \in Seq(Entities \X Entities) /\ old.eps \o ps \in Seq(Nat \X Nat)
    BY <1>1, <1>3, <1>7, <1>8, ConcatProperties
<1>10. Merged(m) \in SnapshotType
    BY <1>4, <1>5, <1>9 DEF SnapshotType
<1>11. Origins(d.nodes) \subseteq Origins(Merged(m).nodes)
    <2> DEFINE ns == MergedNodes(b.nodes, d.nodes)
    <2>1. DOMAIN ns = 1..(Len(b.nodes) + Len(d.nodes))
        BY <1>4, LenProperties, Zenon
    <2>2. \A i \in 1..Len(d.nodes) : Len(b.nodes) + i \in 1..(Len(b.nodes) + Len(d.nodes))
        <3>1. \A p, q \in Nat : \A i \in 1..q : p + i \in 1..(p + q)
            OBVIOUS
        <3> QED
            BY <1>2, <3>1, Zenon
    <2>3. \A i \in DOMAIN d.nodes : \E k \in DOMAIN ns : ns[k].origin = d.nodes[i].origin
        BY <1>2, <1>4, <2>1, <2>2
    <2>4. Merged(m).nodes = ns
        BY <1>5
    <2> HIDE DEF ns
    <2> QED
        BY <2>3, <2>4 DEF Origins
<1>12. Origins(d.edges) \subseteq Origins(Merged(m).edges)
    <2>1. Origins(d.edges) \subseteq Origins(new)
        BY <1>2, <1>3, <1>6 DEF Origins
    <2>2. Origins(b.edges \o new) = Origins(b.edges) \cup Origins(new)
        BY <1>1, <1>3, OriginsOfConcat
    <2>3. Merged(m).edges = b.edges \o new
        BY <1>5
    <2> QED
        BY <2>1, <2>2, <2>3
<1>13. Len(b.nodes) <= Len(Merged(m).nodes)
    <2>1. \A p, q \in Nat : p <= p + q
        OBVIOUS
    <2>2. Merged(m).nodes = MergedNodes(b.nodes, d.nodes)
        BY <1>5
    <2> QED
        BY <1>2, <1>4, <2>1, <2>2, Zenon
<1>14. \A i \in 1..Len(b.nodes) : Merged(m).nodes[i] = b.nodes[i]
    BY <1>4, <1>5
<1> QED
    BY <1>10, <1>11, <1>12, <1>13, <1>14 DEF b, d

-----------------------------------------------------------------------------
(***************************************************************************)
(* Type correctness.                                                       *)
(***************************************************************************)

\* Init establishes the types.
LEMMA TypeInit == Init => TypeOK
<1> SUFFICES ASSUME Init PROVE TypeOK
    OBVIOUS
<1>1. /\ FirstSnapshot.nodes \in Seq(NodeType) /\ FirstSnapshot.vecs \in Seq(Entities)
      /\ Len(FirstSnapshot.nodes) \in Nat /\ Len(FirstSnapshot.vecs) \in Nat
      /\ GraphOf(FirstSnapshot) \in GraphType
    <2>1. FirstSnapshot.nodes \in Seq(NodeType) /\ FirstSnapshot.vecs \in Seq(Entities)
        BY FirstSnapshotType DEF SnapshotType
    <2>2. GraphOf(FirstSnapshot) \in GraphType
        BY FirstSnapshotType, EdgeFilesType
    <2> QED
        BY <2>1, <2>2, LenProperties
<1>2. DeltaTypeOK
    BY <1>1, EmptyTypes DEF Init, DeltaTypeOK
<1>3. IndexTypeOK
    BY <1>1, EmptyTypes DEF Init, IndexTypeOK
<1>4. WriterTypeOK
    BY RequestFacts DEF Init, WriterTypeOK, Pcs
<1>5. MergerTypeOK
    BY EmptyTypes DEF Init, MergerTypeOK, Phases
<1> QED
    BY <1>2, <1>3, <1>4, <1>5, FirstSnapshotType DEF Init, TypeOK

\* Each method of the delta store preserves the types of its state.
LEMMA AppendNodesType ==
    ASSUME DeltaTypeOK, NEW ns \in Seq(NodeType), NEW cut \in BOOLEAN, AppendNodes(ns, cut)
    PROVE  wal' \in GraphType /\ walTorn' \in BOOLEAN
<1>1. wal.nodes \o Readable(ns) \in Seq(NodeType)
    BY ReadableProperties, ConcatProperties DEF DeltaTypeOK, GraphType
<1>2. wal' = [wal EXCEPT !.nodes = wal.nodes \o Readable(ns)]
    BY DEF AppendNodes
<1> QED
    BY <1>1, <1>2 DEF AppendNodes, DeltaTypeOK, GraphType

\* The same of a batch of edges.
LEMMA AppendEdgesType ==
    ASSUME DeltaTypeOK, NEW es \in Seq(EdgeType), NEW cut \in BOOLEAN, AppendEdges(es, cut)
    PROVE  wal' \in GraphType /\ walTorn' \in BOOLEAN
<1>1. wal.edges \o Readable(es) \in Seq(EdgeType)
    BY ReadableProperties, ConcatProperties DEF DeltaTypeOK, GraphType
<1>2. wal' = [wal EXCEPT !.edges = wal.edges \o Readable(es)]
    BY DEF AppendEdges
<1> QED
    BY <1>1, <1>2 DEF AppendEdges, DeltaTypeOK, GraphType

\* The same of the buffer's nodes.
LEMMA PushNodesType ==
    ASSUME DeltaTypeOK, NEW ns \in Seq(NodeType), PushNodes(ns)
    PROVE  delta' \in GraphType
<1>1. delta.nodes \o ns \in Seq(NodeType)
    BY ConcatProperties DEF DeltaTypeOK, GraphType
<1> QED
    BY <1>1 DEF PushNodes, DeltaTypeOK, GraphType

\* The same of the buffer's edges.
LEMMA PushEdgesType ==
    ASSUME DeltaTypeOK, NEW es \in Seq(EdgeType), PushEdges(es)
    PROVE  delta' \in GraphType
<1>1. delta.edges \o es \in Seq(EdgeType)
    BY ConcatProperties DEF DeltaTypeOK, GraphType
<1> QED
    BY <1>1 DEF PushEdges, DeltaTypeOK, GraphType

\* The IDs that entity resolution returns are node IDs.
LEMMA ResolvesToIds ==
    ASSUME TypeOK, NEW w \in Writers, NEW e
    PROVE  ResolvesTo(w, e) \subseteq Nat
<1>1. \A ns \in Seq(NodeType) : Matches(ns, e) \subseteq Nat
    <2> SUFFICES ASSUME NEW ns \in Seq(NodeType), NEW i \in DOMAIN ns PROVE ns[i].id \in Nat
        BY DEF Matches
    <2>1. ns[i] \in NodeType
        BY ElementOfSeq
    <2> QED
        BY <2>1 DEF NodeType
<1>2. GraphMatches(e) \subseteq Nat
    <2>1. \A i \in DOMAIN hnsw : i - 1 \in Nat
        BY DEF TypeOK, IndexTypeOK
    <2> QED
        BY <2>1 DEF GraphMatches
<1>3. delta.nodes \in Seq(NodeType) /\ toAdd[w] \in Seq(NodeType)
    BY DEF TypeOK, DeltaTypeOK, WriterTypeOK, GraphType
<1> QED
    BY <1>1, <1>2, <1>3 DEF ResolvesTo

\* The entity a handler resolves next is one, and its position fits its request.
LEMMA NextEntType ==
    ASSUME TypeOK, NEW w \in Writers, Resolving(w)
    PROVE  NextEnt(w) \in Entities /\ Len(ids[w]) + 1 <= Len(Request[w].ents)
<1>1. Len(ids[w]) \in Nat /\ Request[w].ents \in Seq(Entities)
    BY RequestFacts DEF TypeOK, WriterTypeOK
<1>2. Len(ids[w]) + 1 \in 1..Len(Request[w].ents)
    BY <1>1 DEF Resolving
<1> QED
    BY <1>1, <1>2, ElementOfSeq DEF NextEnt

\* Vanish resets what the process held and leaves its log to the caller.
LEMMA VanishType ==
    ASSUME TypeOK, Vanish, stage' \in {"down", "exited"}, faults' \in Nat,
           wal' \in GraphType, walTorn' \in BOOLEAN
    PROVE  TypeOK'
<1>1. DeltaTypeOK'
    BY EmptyTypes DEF TypeOK, DeltaTypeOK, Vanish
<1>2. IndexTypeOK'
    BY EmptyTypes DEF IndexTypeOK, Vanish, Empty, GraphType
<1>3. WriterTypeOK'
    BY DEF TypeOK, WriterTypeOK, Vanish, InFlight, Pcs
<1>4. MergerTypeOK'
    BY EmptyTypes DEF MergerTypeOK, Vanish, Phases
<1> QED
    BY <1>1, <1>2, <1>3, <1>4 DEF TypeOK, Vanish

\* A merge that ends leaves a slot with the types of an idle one.
LEMMA EndTaskType ==
    ASSUME MergerTypeOK, NEW m \in Mergers, EndTask(m)
    PROVE  MergerTypeOK'
BY EmptyTypes DEF MergerTypeOK, EndTask, Phases

\* A merge that starts copies a graph.
LEMMA LaunchType ==
    ASSUME TypeOK, NEW m \in Mergers, NEW who \in {"task", "request", "main"}, Launch(m, who),
           stage' \in {"up", "closing", "down", "exited"}, spawns' \in Nat, forced' \in Nat
    PROVE  TypeOK'
<1>1. DeltaTypeOK' /\ WriterTypeOK'
    BY DEF TypeOK, DeltaTypeOK, WriterTypeOK, Launch, walVars, writeVars
<1>2. IndexTypeOK'
    BY DEF TypeOK, IndexTypeOK, Launch, indexVars
<1>3. MergerTypeOK'
    BY DEF TypeOK, IndexTypeOK, MergerTypeOK, Launch, Phases
<1> QED
    BY <1>1, <1>2, <1>3 DEF TypeOK, Launch

\* A batch that was cut leaves a log of nodes and edges.
LEMMA AppendsPartType ==
    ASSUME TypeOK, NEW w \in Writers, AppendsPart(w)
    PROVE  wal' \in GraphType /\ walTorn' \in BOOLEAN
<1>1. PICK k \in 0..LongestBatch(w), cut \in BOOLEAN : CutAppend(w, k, cut)
    BY DEF AppendsPart
<1>2. CASE pc[w] = "appendNodes"
    <2>1. /\ toAdd[w] \in Seq(NodeType) /\ k \in Int
          /\ k <= Len(toAdd[w])
          /\ AppendNodes(SubSeq(toAdd[w], 1, k), cut)
        BY <1>1, <1>2 DEF CutAppend, TypeOK, WriterTypeOK
    <2>2. \A i \in 1..k : toAdd[w][i] \in NodeType
        BY <2>1
    <2>3. SubSeq(toAdd[w], 1, k) \in Seq(NodeType)
        BY <2>1, <2>2, SubSeqProperties
    <2> QED
        BY <2>1, <2>3, AppendNodesType DEF TypeOK
<1>3. CASE pc[w] = "appendEdges"
    <2>1. EdgesOf(w) \in Seq(EdgeType)
        BY <1>3, EdgesOfProperties DEF TypeOK, WriterTypeOK
    <2>2. /\ k \in Int /\ k <= Len(EdgesOf(w))
          /\ AppendEdges(SubSeq(EdgesOf(w), 1, k), cut)
        BY <1>1, <1>3 DEF CutAppend
    <2>3. \A i \in 1..k : EdgesOf(w)[i] \in EdgeType
        BY <2>1, <2>2
    <2>4. SubSeq(EdgesOf(w), 1, k) \in Seq(EdgeType)
        BY <2>2, <2>3, SubSeqProperties
    <2> QED
        BY <2>2, <2>4, AppendEdgesType DEF TypeOK
<1> QED
    BY <1>1, <1>2, <1>3 DEF CutAppend

\* The steps of ingest handlers preserve the types.
LEMMA WriterStepType ==
    ASSUME TypeOK, NEW w \in Writers, Begin(w) \/ WriterStep(w)
    PROVE  TypeOK'
<1> USE DEF TypeOK, walVars, indexVars, mergeVars, envVars
<1>1. CASE Begin(w)
    BY <1>1 DEF Begin, DeltaTypeOK, IndexTypeOK, WriterTypeOK, MergerTypeOK, Pcs
<1>2. CASE ResolveExisting(w)
    <2>1. PICK id \in ResolvesTo(w, NextEnt(w)) : ids' = [ids EXCEPT ![w] = Append(@, id)]
        BY <1>2 DEF ResolveExisting
    <2>2. id \in Nat /\ Len(ids[w]) + 1 <= Len(Request[w].ents)
        BY <1>2, ResolvesToIds, NextEntType DEF ResolveExisting
    <2>3. /\ Append(ids[w], id) \in Seq(Nat)
          /\ Len(Append(ids[w], id)) = Len(ids[w]) + 1
        BY <2>2, AppendProperties DEF WriterTypeOK
    <2>4. WriterTypeOK'
        BY <1>2, <2>1, <2>2, <2>3 DEF ResolveExisting, Resolving, WriterTypeOK
    <2> QED
        BY <1>2, <2>4 DEF ResolveExisting, DeltaTypeOK, IndexTypeOK, MergerTypeOK
<1>3. CASE ResolveNew(w)
    <2> DEFINE node == [id |-> nextNodeId, ent |-> NextEnt(w),
                        origin |-> <<w, Len(ids[w]) + 1>>]
    <2>1. NextEnt(w) \in Entities /\ Len(ids[w]) + 1 <= Len(Request[w].ents)
        BY <1>3, NextEntType DEF ResolveNew
    <2>2. nextNodeId \in Nat /\ Len(ids[w]) + 1 \in Nat
        BY DEF DeltaTypeOK, WriterTypeOK
    <2>3. node \in NodeType
        BY <2>1, <2>2 DEF NodeType, Origin
    <2>4. /\ Append(ids[w], nextNodeId) \in Seq(Nat)
          /\ Len(Append(ids[w], nextNodeId)) = Len(ids[w]) + 1
          /\ Append(toAdd[w], node) \in Seq(NodeType)
        BY <2>2, <2>3, AppendProperties DEF WriterTypeOK
    <2>5. WriterTypeOK'
        BY <1>3, <2>1, <2>4 DEF ResolveNew, Resolving, WriterTypeOK
    <2>6. DeltaTypeOK'
        BY <1>3 DEF ResolveNew, AllocNodeId, DeltaTypeOK
    <2> QED
        BY <1>3, <2>5, <2>6 DEF ResolveNew, IndexTypeOK, MergerTypeOK
<1>4. CASE ResolvePanics(w)
    BY <1>4 DEF ResolvePanics, DeltaTypeOK, IndexTypeOK, WriterTypeOK, MergerTypeOK, Pcs
<1>5. CASE ResolveDone(w)
    BY <1>5 DEF ResolveDone, DeltaTypeOK, IndexTypeOK, WriterTypeOK, MergerTypeOK, Pcs
<1>6. CASE WriteNodesWal(w)
    <2>1. toAdd[w] \in Seq(NodeType)
        BY DEF WriterTypeOK
    <2>2. wal' \in GraphType /\ walTorn' \in BOOLEAN /\ faults' \in Nat
        <3>1. CASE AppendNodes(toAdd[w], FALSE) /\ UNCHANGED faults
            <4>1. FALSE \in BOOLEAN
                OBVIOUS
            <4>2. wal' \in GraphType /\ walTorn' \in BOOLEAN
                BY <2>1, <3>1, <4>1, AppendNodesType
            <4> QED
                BY <3>1, <4>2
        <3>2. CASE Fault("wal") /\ AppendsPart(w)
            <4> HIDE DEF TypeOK
            <4>1. wal' \in GraphType /\ walTorn' \in BOOLEAN
                BY <3>2, AppendsPartType
            <4>2. faults' \in Nat
                BY <3>2 DEF Fault, TypeOK
            <4> QED
                BY <4>1, <4>2
        <3> QED
            BY <1>6, <3>1, <3>2 DEF WriteNodesWal
    <2>3. WriterTypeOK'
        BY <1>6 DEF WriteNodesWal, WriterTypeOK, Pcs
    <2> QED
        BY <1>6, <2>2, <2>3 DEF WriteNodesWal, DeltaTypeOK, IndexTypeOK, MergerTypeOK
<1>7. CASE AddNodes(w)
    <2>1. toAdd[w] \in Seq(NodeType)
        BY DEF WriterTypeOK
    <2>2. delta' \in GraphType
        BY <1>7, <2>1, PushNodesType DEF AddNodes
    <2>3. WriterTypeOK'
        BY <1>7 DEF AddNodes, WriterTypeOK, Pcs
    <2> QED
        BY <1>7, <2>2, <2>3 DEF AddNodes, DeltaTypeOK, IndexTypeOK, MergerTypeOK
<1>8. CASE WriteEdgesWal(w)
    <2>1. EdgesOf(w) \in Seq(EdgeType)
        BY <1>8, EdgesOfProperties DEF WriteEdgesWal, WriterTypeOK
    <2>2. wal' \in GraphType /\ walTorn' \in BOOLEAN /\ faults' \in Nat
        <3>1. CASE AppendEdges(EdgesOf(w), FALSE) /\ UNCHANGED faults
            <4>1. FALSE \in BOOLEAN
                OBVIOUS
            <4>2. wal' \in GraphType /\ walTorn' \in BOOLEAN
                BY <2>1, <3>1, <4>1, AppendEdgesType
            <4> QED
                BY <3>1, <4>2
        <3>2. CASE Fault("wal") /\ AppendsPart(w)
            <4> HIDE DEF TypeOK
            <4>1. wal' \in GraphType /\ walTorn' \in BOOLEAN
                BY <3>2, AppendsPartType
            <4>2. faults' \in Nat
                BY <3>2 DEF Fault, TypeOK
            <4> QED
                BY <4>1, <4>2
        <3> QED
            BY <1>8, <3>1, <3>2 DEF WriteEdgesWal
    <2>3. WriterTypeOK'
        BY <1>8 DEF WriteEdgesWal, WriterTypeOK, Pcs
    <2> QED
        BY <1>8, <2>2, <2>3 DEF WriteEdgesWal, DeltaTypeOK, IndexTypeOK, MergerTypeOK
<1>9. CASE AddEdges(w)
    <2>1. EdgesOf(w) \in Seq(EdgeType)
        BY <1>9, EdgesOfProperties DEF AddEdges, WriterTypeOK
    <2>2. delta' \in GraphType
        BY <1>9, <2>1, PushEdgesType DEF AddEdges
    <2>3. WriterTypeOK'
        BY <1>9 DEF AddEdges, WriterTypeOK, Pcs
    <2> QED
        BY <1>9, <2>2, <2>3 DEF AddEdges, DeltaTypeOK, IndexTypeOK, MergerTypeOK
<1>10. CASE Finish(w)
    <2>1. WriterTypeOK'
        BY <1>10 DEF Finish, WriterTypeOK, Pcs
    <2>2. spawns' \in Nat
        BY <1>10 DEF Finish
    <2> QED
        BY <1>10, <2>1, <2>2 DEF Finish, DeltaTypeOK, IndexTypeOK, MergerTypeOK
<1> QED
    BY <1>1, <1>2, <1>3, <1>4, <1>5, <1>6, <1>7, <1>8, <1>9, <1>10 DEF WriterStep

\* A file is written in a phase of its own.
LEMMA WritingPhase ==
    ASSUME NEW file \in Files
    PROVE  WritingOf(file) \in WritePhases
BY DEF Files, WritingOf, WritePhases

\* What is left of a file has the type of its content.
LEMMA RemnantsType ==
    ASSUME MergerTypeOK, NEW m \in Mergers, NEW file \in Files, NEW left \in Remnants(m, file)
    PROVE  /\ file = "edges" => left \in Seq(EdgeType)
           /\ file # "edges" => left = <<>>
<1>1. CASE file = "edges"
    <2>1. built[m].edges \in Seq(EdgeType)
        BY DEF MergerTypeOK, SnapshotType
    <2>2. PICK k \in 0..Len(built[m].edges) : left = SubSeq(built[m].edges, 1, k)
        BY <1>1 DEF Remnants
    <2>3. k \in Int /\ \A i \in 1..k : built[m].edges[i] \in EdgeType
        BY <2>1
    <2> QED
        BY <1>1, <2>1, <2>2, <2>3, SubSeqProperties
<1> QED
    BY <1>1 DEF Remnants

\* A file that is opened leaves a snapshot with the other four as they were.
LEMMA OpenLeaves ==
    ASSUME disk \in SnapshotType, MergerTypeOK, NEW m \in Mergers, NEW file \in Files,
           Open(m, file)
    PROVE  /\ disk' \in SnapshotType
           /\ disk'.cut = disk.cut \cup {file}
           /\ disk'.mixed = IF OthersWrite(m, file) THEN disk.mixed \cup {file}
                            ELSE disk.mixed \ {file}
           /\ disk'.linked = (disk.linked \/ file = "eps")
           /\ file # "nodes" => disk'.nodes = disk.nodes
           /\ file # "edges" => disk'.edges = disk.edges
           /\ file # "vecs"  => disk'.vecs = disk.vecs
           /\ file # "evecs" => disk'.evecs = disk.evecs
           /\ file # "eps"   => disk'.eps = disk.eps
<1>1. PICK left \in Remnants(m, file) :
          disk' = [disk EXCEPT
                      ![file]  = left,
                      !.linked = @ \/ file = "eps",
                      !.cut    = @ \cup {file},
                      !.mixed  = IF OthersWrite(m, file) THEN @ \cup {file} ELSE @ \ {file}]
    BY DEF Open
<1>2. /\ file = "edges" => left \in Seq(EdgeType)
      /\ file # "edges" => left = <<>>
    BY RemnantsType
<1> DEFINE other == OthersWrite(m, file)
<1>3. <<>> \in Seq(NodeType) /\ <<>> \in Seq(Entities) /\ <<>> \in Seq(Entities \X Entities)
      /\ <<>> \in Seq(Nat \X Nat)
    OBVIOUS
<1>4. other \in BOOLEAN
    BY DEF OthersWrite
<1> HIDE DEF other
<1>5. CASE file = "nodes"
    BY <1>1, <1>2, <1>3, <1>5 DEF SnapshotType, Files, other
<1>6. CASE file = "edges"
    BY <1>1, <1>2, <1>3, <1>6 DEF SnapshotType, Files, other
<1>7. CASE file = "vecs"
    BY <1>1, <1>2, <1>3, <1>7 DEF SnapshotType, Files, other
<1>8. CASE file = "evecs"
    BY <1>1, <1>2, <1>3, <1>8 DEF SnapshotType, Files, other
<1>9. CASE file = "eps"
    BY <1>1, <1>2, <1>3, <1>9 DEF SnapshotType, Files, other
<1> QED
    BY <1>5, <1>6, <1>7, <1>8, <1>9 DEF Files

\* So does one whose writing ends.
LEMMA SaveLeaves ==
    ASSUME disk \in SnapshotType, MergerTypeOK, NEW m \in Mergers, NEW file \in Files,
           NEW next, Save(m, file, next)
    PROVE  /\ disk' \in SnapshotType
           /\ disk'.cut \subseteq disk.cut
           /\ disk'.mixed \subseteq disk.mixed
           /\ disk'.linked = disk.linked
           /\ file # "nodes" => disk'.nodes = disk.nodes
           /\ file # "edges" => disk'.edges = disk.edges
           /\ file # "vecs"  => disk'.vecs = disk.vecs
           /\ file # "evecs" => disk'.evecs = disk.evecs
           /\ file # "eps"   => disk'.eps = disk.eps
           /\ disk.mixed = {} =>
                 disk' = [disk EXCEPT ![file] = built[m][file], !.cut = @ \ {file}]
<1> DEFINE mixed == IF OthersWrite(m, file) THEN disk.mixed ELSE disk.mixed \ {file}
<1>1. \/ disk' = [disk EXCEPT ![file] = built[m][file], !.cut = @ \ {file}, !.mixed = mixed]
      \/ file \in disk.mixed /\ disk' = [disk EXCEPT !.mixed = mixed]
    BY DEF Save
<1>2. built[m] \in SnapshotType
    BY DEF MergerTypeOK
<1>3. mixed \subseteq disk.mixed
    OBVIOUS
<1> HIDE DEF mixed
<1>4. CASE file \in disk.mixed /\ disk' = [disk EXCEPT !.mixed = mixed]
    BY <1>3, <1>4 DEF SnapshotType
<1>5. CASE disk' = [disk EXCEPT ![file] = built[m][file], !.cut = @ \ {file}, !.mixed = mixed]
    <2>1. disk.mixed = {} => disk' = [disk EXCEPT ![file] = built[m][file], !.cut = @ \ {file}]
        <3> SUFFICES ASSUME disk.mixed = {}
                     PROVE  disk' = [disk EXCEPT ![file] = built[m][file], !.cut = @ \ {file}]
            OBVIOUS
        <3>1. mixed = disk.mixed
            BY <1>3
        <3> QED
            BY <1>5, <3>1 DEF SnapshotType, Files
    <2>2. CASE file = "nodes"
        BY <1>2, <1>3, <1>5, <2>1, <2>2 DEF SnapshotType, Files
    <2>3. CASE file = "edges"
        BY <1>2, <1>3, <1>5, <2>1, <2>3 DEF SnapshotType, Files
    <2>4. CASE file = "vecs"
        BY <1>2, <1>3, <1>5, <2>1, <2>4 DEF SnapshotType, Files
    <2>5. CASE file = "evecs"
        BY <1>2, <1>3, <1>5, <2>1, <2>5 DEF SnapshotType, Files
    <2>6. CASE file = "eps"
        BY <1>2, <1>3, <1>5, <2>1, <2>6 DEF SnapshotType, Files
    <2> QED
        BY <2>2, <2>3, <2>4, <2>5, <2>6 DEF Files
<1> QED
    BY <1>1, <1>4, <1>5

\* The steps of merges preserve the types.
LEMMA MergeStepType ==
    ASSUME TypeOK, NEW m \in Mergers, MergeStep(m) \/ MergeFails(m) \/ ForceMerge(m)
    PROVE  TypeOK'
<1> USE DEF TypeOK, walVars, indexVars, writeVars, envVars
<1>1. CASE StartMerge(m)
    <2>1. spawns' \in Nat /\ Launch(m, "task")
        BY <1>1 DEF StartMerge
    <2> HIDE DEF TypeOK, walVars, indexVars, writeVars, envVars
    <2>2. stage' \in {"up", "closing", "down", "exited"} /\ forced' \in Nat
        BY <1>1 DEF StartMerge, TypeOK
    <2> QED
        BY <2>1, <2>2, LaunchType
<1>2. CASE ForceMerge(m)
    <2>1. forced' \in Nat /\ Launch(m, "request")
        BY <1>2 DEF ForceMerge
    <2> HIDE DEF TypeOK, walVars, indexVars, writeVars, envVars
    <2>2. stage' \in {"up", "closing", "down", "exited"} /\ spawns' \in Nat
        BY <1>2 DEF ForceMerge, TypeOK
    <2> QED
        BY <2>1, <2>2, LaunchType
<1>3. CASE Drain(m)
    BY <1>3, EmptyTypes
        DEF Drain, DrainDelta, DeltaTypeOK, IndexTypeOK, WriterTypeOK, MergerTypeOK, Phases
<1>4. CASE Build(m)
    <2>1. Merged(m) \in SnapshotType
        BY MergedProperties
    <2> QED
        BY <1>4, <2>1
            DEF Build, DeltaTypeOK, IndexTypeOK, WriterTypeOK, MergerTypeOK, Phases, Files
<1>5. CASE BuildPanics(m)
    BY <1>5, EndTaskType DEF BuildPanics, DeltaTypeOK, IndexTypeOK, WriterTypeOK
<1>6. ASSUME NEW file \in Files, NEW next \in Phases, Save(m, file, next)
      PROVE  TypeOK'
    <2>1. disk' \in SnapshotType
        BY <1>6, SaveLeaves
    <2> QED
        BY <1>6, <2>1 DEF Save, DeltaTypeOK, IndexTypeOK, WriterTypeOK, MergerTypeOK
<1>14. ASSUME NEW file \in Files, Open(m, file)
       PROVE  TypeOK'
    <2>1. disk' \in SnapshotType /\ WritingOf(file) \in Phases
        BY <1>14, OpenLeaves, WritingPhase DEF Phases
    <2> QED
        BY <1>14, <2>1 DEF Open, DeltaTypeOK, IndexTypeOK, WriterTypeOK, MergerTypeOK
<1>7. CASE \/ SaveNodes(m) \/ SaveEdges(m) \/ SaveVecs(m)
           \/ SaveEdgeVecs(m) \/ SaveEndpoints(m)
    <2> HIDE DEF TypeOK, walVars, indexVars, writeVars, envVars
    <2> QED
        BY <1>6, <1>7
            DEF SaveNodes, SaveEdges, SaveVecs, SaveEdgeVecs, SaveEndpoints, Phases, Files
<1>8. CASE SkipEdgeVecs(m)
    BY <1>8
        DEF SkipEdgeVecs, DeltaTypeOK, IndexTypeOK, WriterTypeOK, MergerTypeOK, Phases, Files
<1>9. CASE Truncate(m)
    <2>1. wal' \in GraphType /\ walTorn' \in BOOLEAN /\ faults' \in Nat
        <3>1. CASE TruncateWal /\ UNCHANGED faults
            <4>1. FALSE \in BOOLEAN
                OBVIOUS
            <4>2. wal' \in GraphType /\ walTorn' \in BOOLEAN
                BY <3>1, <4>1, EmptyTypes, Zenon DEF TruncateWal
            <4> QED
                BY <3>1, <4>2
        <3>2. CASE Fault("wal") /\ UNCHANGED walVars
            BY <3>2 DEF Fault, DeltaTypeOK
        <3> QED
            BY <1>9, <3>1, <3>2 DEF Truncate
    <2> QED
        BY <1>9, <2>1 DEF Truncate, DeltaTypeOK, IndexTypeOK, WriterTypeOK, MergerTypeOK, Phases
<1>10. CASE Rebuild(m)
    <2>1. Len(disk.vecs) \in Nat
        BY DEF SnapshotType
    <2> QED
        BY <1>10, <2>1
            DEF Rebuild, DeltaTypeOK, IndexTypeOK, WriterTypeOK, MergerTypeOK, Phases
<1>11. CASE RebuildPanics(m)
    BY <1>11, EndTaskType DEF RebuildPanics, DeltaTypeOK, IndexTypeOK, WriterTypeOK
<1>12. CASE Swap(m)
    <2>1. built[m] \in SnapshotType /\ reopened[m] \in Nat
        BY DEF MergerTypeOK
    <2>2. IndexTypeOK'
        BY <1>12, <2>1, EdgeFilesType DEF Swap, IndexTypeOK, SnapshotType
    <2> QED
        BY <1>12, <2>2, EndTaskType DEF Swap, DeltaTypeOK, WriterTypeOK
<1>13. CASE MergeFails(m)
    <2>1. faults' \in Nat
        BY <1>13 DEF MergeFails, Fault
    <2> QED
        BY <1>13, <2>1, EndTaskType DEF MergeFails, DeltaTypeOK, IndexTypeOK, WriterTypeOK
<1> HIDE DEF TypeOK, walVars, indexVars, writeVars, envVars
<1> QED
    BY <1>1, <1>2, <1>3, <1>4, <1>5, <1>7, <1>8, <1>9, <1>10, <1>11, <1>12, <1>13, <1>14
        DEF MergeStep

\* Arrival, failure, crash, boot and shutdown preserve the types.
LEMMA ProcessStepType ==
    ASSUME TypeOK, Crash \/ Boot \/ Shutdown \/ Exit \/ Quiescent
    PROVE  TypeOK'
<1>1. CASE Crash
    <2>1. wal' \in GraphType /\ walTorn' \in BOOLEAN
        <3>1. CASE UNCHANGED walVars
            BY <3>1 DEF TypeOK, DeltaTypeOK, walVars
        <3>2. ASSUME NEW w \in Writers, AppendsPart(w)
              PROVE  wal' \in GraphType /\ walTorn' \in BOOLEAN
            BY <3>2, AppendsPartType
        <3> QED
            BY <1>1, <3>1, <3>2 DEF Crash
    <2>2. Vanish /\ stage' = "down" /\ faults' \in Nat
        BY <1>1 DEF Crash, Fault, TypeOK
    <2> QED
        BY <2>1, <2>2, VanishType
<1>2. CASE Boot
    <2>1. /\ GraphOf(disk) \in GraphType /\ EdgeIndexOf(disk) \in EdgeIndexType
          /\ disk.vecs \in Seq(Entities) /\ Len(disk.vecs) \in Nat
          /\ Len(disk.nodes) + Len(wal.nodes) \in Nat
        <3>1. GraphOf(disk) \in GraphType /\ EdgeIndexOf(disk) \in EdgeIndexType
            BY EdgeFilesType DEF TypeOK
        <3>2. disk.vecs \in Seq(Entities) /\ disk.nodes \in Seq(NodeType)
            BY DEF TypeOK, SnapshotType
        <3>3. wal.nodes \in Seq(NodeType)
            BY DEF TypeOK, DeltaTypeOK, GraphType
        <3>4. Len(disk.vecs) \in Nat /\ Len(disk.nodes) \in Nat /\ Len(wal.nodes) \in Nat
            BY <3>2, <3>3, LenProperties
        <3>5. \A p, q \in Nat : p + q \in Nat
            OBVIOUS
        <3> QED
            BY <3>1, <3>2, <3>4, <3>5, Zenon
    <2>2. DeltaTypeOK'
        BY <1>2, <2>1 DEF Boot, ReplayWal, InitNodeIds, TypeOK, DeltaTypeOK, walVars
    <2>3. IndexTypeOK'
        BY <1>2, <2>1 DEF Boot, IndexTypeOK
    <2> QED
        BY <1>2, <2>2, <2>3
            DEF Boot, TypeOK, WriterTypeOK, MergerTypeOK, writeVars, mergeVars, envVars
<1>3. CASE Shutdown
    <2>1. stage' = "closing" /\ spawns' \in Nat /\ forced' \in Nat
        BY <1>3 DEF Shutdown, TypeOK
    <2>2. CASE DeltaSize > 0
        <3>1. PICK m \in Mergers : Launch(m, "main")
            BY <1>3, <2>2 DEF Shutdown
        <3> QED
            BY <2>1, <3>1, LaunchType
    <2>3. CASE ~ (DeltaSize > 0)
        BY <1>3, <2>1, <2>3
            DEF Shutdown, TypeOK, DeltaTypeOK, IndexTypeOK, WriterTypeOK, MergerTypeOK,
                walVars, indexVars, writeVars, mergeVars
    <2> QED
        BY <2>2, <2>3
<1>4. CASE Exit
    <2>1. /\ Vanish /\ stage' = "exited" /\ faults' \in Nat
          /\ wal' \in GraphType /\ walTorn' \in BOOLEAN
        BY <1>4 DEF Exit, TypeOK, DeltaTypeOK, walVars
    <2> QED
        BY <2>1, VanishType
<1>5. CASE Quiescent
    BY <1>5 DEF Quiescent, vars, walVars, indexVars, writeVars, mergeVars, envVars,
                TypeOK, DeltaTypeOK, IndexTypeOK, WriterTypeOK, MergerTypeOK
<1> QED
    BY <1>1, <1>2, <1>3, <1>4, <1>5

\* TypeOK is inductive.
LEMMA TypeStep == TypeOK /\ [Next]_vars => TypeOK'
<1> SUFFICES ASSUME TypeOK, [Next]_vars PROVE TypeOK'
    OBVIOUS
<1>1. CASE UNCHANGED vars
    BY <1>1 DEF vars, walVars, indexVars, writeVars, mergeVars, envVars,
                TypeOK, DeltaTypeOK, IndexTypeOK, WriterTypeOK, MergerTypeOK
<1>2. CASE Next
    BY <1>2, WriterStepType, MergeStepType, ProcessStepType DEF Next
<1> QED
    BY <1>1, <1>2

\* Every variable keeps its type whatever requests arrive, however many merges
\* overlap and whatever faults happen.
THEOREM TypeCorrect == Spec => []TypeOK
BY TypeInit, TypeStep, PTL DEF Spec

-----------------------------------------------------------------------------
(***************************************************************************)
(* Merges that do not overlap.  A merge that runs alone starts from the    *)
(* graph that is still there when it swaps, and nobody else rewrites the   *)
(* snapshot between its files.                                             *)
(***************************************************************************)
SerialMerges == \A m, n \in Mergers : m = n

HasBuilt == Files \cup WritePhases \cup {"truncate", "rebuild", "swap"}
NodesSaved == HasBuilt \ {"nodes", "writeNodes"}
EdgesSaved == NodesSaved \ {"edges", "writeEdges"}
VecsSaved  == EdgesSaved \ {"vecs", "writeVecs"}

MergersInv ==
    \A m \in Mergers :
        /\ ~ Up => phase[m] = "idle"
        /\ phase[m] # "idle" => base[m] = graph
        /\ phase[m] \in HasBuilt =>
              /\ Extends(graph.nodes, built[m].nodes)
              /\ Origins(drained[m].nodes) \subseteq Origins(built[m].nodes)
              /\ Origins(drained[m].edges) \subseteq Origins(built[m].edges)
        /\ phase[m] \in NodesSaved => disk.nodes = built[m].nodes
        /\ phase[m] \in EdgesSaved => disk.edges = built[m].edges

SerialInv == disk.mixed = {} /\ MergersInv

\* Init establishes SerialInv.
LEMMA SerialInit == Init => SerialInv
BY DEF Init, SerialInv, MergersInv, Up, HasBuilt, NodesSaved, EdgesSaved, Files, WritePhases,
       FirstSnapshot

\* A single merge that ends leaves nothing to show.
LEMMA SerialIdle ==
    ASSUME MergerTypeOK, SerialMerges, NEW m \in Mergers, EndTask(m)
    PROVE  MergersInv'
BY DEF SerialMerges, MergerTypeOK, EndTask, MergersInv, HasBuilt, NodesSaved, EdgesSaved,
       Files, WritePhases

\* A single merge that starts has built nothing yet.
LEMMA SerialLaunch ==
    ASSUME TypeOK, SerialMerges, NEW m \in Mergers, NEW who, Launch(m, who), Up'
    PROVE  MergersInv'
BY DEF TypeOK, SerialMerges, MergerTypeOK, Launch, MergersInv, HasBuilt, NodesSaved, EdgesSaved,
       indexVars, Files, WritePhases

\* Nor has anything when the process is gone.
LEMMA SerialVanish ==
    ASSUME Vanish
    PROVE  MergersInv'
BY DEF Vanish, MergersInv, HasBuilt, NodesSaved, EdgesSaved, Files, WritePhases

\* A single merge that moves on within the saving of its files keeps what it
\* holds, when the two files of the graph are as the new phase says.
LEMMA SerialMoves ==
    ASSUME TypeOK, SerialMerges, MergersInv, NEW m \in Mergers,
           phase[m] \in HasBuilt, NEW next \in HasBuilt,
           phase' = [phase EXCEPT ![m] = next],
           UNCHANGED <<stage, graph, base, drained, built>>,
           next \in NodesSaved => disk'.nodes = built[m].nodes,
           next \in EdgesSaved => disk'.edges = built[m].edges
    PROVE  MergersInv'
<1>1. phase \in [Mergers -> Phases]
    BY DEF TypeOK, MergerTypeOK
<1>2. phase[m] # "idle" /\ next # "idle"
    BY DEF HasBuilt, Files, WritePhases
<1>3. \A n \in Mergers : n = m
    BY DEF SerialMerges
<1>4. /\ Up /\ base[m] = graph
      /\ Extends(graph.nodes, built[m].nodes)
      /\ Origins(drained[m].nodes) \subseteq Origins(built[m].nodes)
      /\ Origins(drained[m].edges) \subseteq Origins(built[m].edges)
    BY <1>2 DEF MergersInv
<1>5. phase'[m] = next /\ Up'
    BY <1>1, <1>4 DEF Up
<1>6. /\ base'[m] = graph' /\ Extends(graph'.nodes, built'[m].nodes)
      /\ Origins(drained'[m].nodes) \subseteq Origins(built'[m].nodes)
      /\ Origins(drained'[m].edges) \subseteq Origins(built'[m].edges)
    BY <1>4
<1>7. /\ phase'[m] \in NodesSaved => disk'.nodes = built'[m].nodes
      /\ phase'[m] \in EdgesSaved => disk'.edges = built'[m].edges
    BY <1>5
<1> QED
    BY <1>3, <1>5, <1>6, <1>7 DEF MergersInv

\* Each file is opened and written in a phase of the saving.
LEMMA SavingPhases ==
    /\ \A file \in Files : file \in HasBuilt /\ WritingOf(file) \in HasBuilt
    /\ \A file \in Files :
          /\ WritingOf(file) \in NodesSaved => file \in NodesSaved /\ file # "nodes"
          /\ WritingOf(file) \in EdgesSaved => file \in EdgesSaved /\ file # "edges"
    /\ HasBuilt \subseteq Phases
BY DEF Files, WritingOf, HasBuilt, NodesSaved, EdgesSaved, WritePhases, Phases

\* Opening a file.
LEMMA SerialOpen ==
    ASSUME TypeOK, SerialMerges, SerialInv, NEW m \in Mergers, NEW file \in Files, Open(m, file)
    PROVE  SerialInv'
<1>1. /\ file # "nodes" => disk'.nodes = disk.nodes
      /\ file # "edges" => disk'.edges = disk.edges
      /\ disk'.mixed = IF OthersWrite(m, file) THEN disk.mixed \cup {file}
                       ELSE disk.mixed \ {file}
    BY OpenLeaves DEF TypeOK
<1>2. ~ OthersWrite(m, file)
    BY DEF SerialMerges, OthersWrite
<1>3. /\ phase[m] = file /\ phase' = [phase EXCEPT ![m] = WritingOf(file)]
      /\ UNCHANGED <<stage, graph, base, drained, built>>
    BY DEF Open, indexVars
<1>4. phase[m] \in HasBuilt /\ WritingOf(file) \in HasBuilt
    BY <1>3, SavingPhases
<1>5. WritingOf(file) \in NodesSaved => disk'.nodes = built[m].nodes
    BY <1>1, <1>3, SavingPhases DEF SerialInv, MergersInv
<1>6. WritingOf(file) \in EdgesSaved => disk'.edges = built[m].edges
    BY <1>1, <1>3, SavingPhases DEF SerialInv, MergersInv
<1>7. MergersInv'
    BY <1>3, <1>4, <1>5, <1>6, SerialMoves DEF SerialInv
<1> QED
    BY <1>1, <1>2, <1>7 DEF SerialInv

\* Writing it.
LEMMA SerialSave ==
    ASSUME TypeOK, SerialMerges, SerialInv, NEW m \in Mergers, NEW file \in Files,
           NEW next \in HasBuilt, Save(m, file, next),
           next \in NodesSaved => file = "nodes" \/ file \in NodesSaved,
           next \in EdgesSaved => file = "edges" \/ (file # "nodes" /\ file \in EdgesSaved)
    PROVE  SerialInv'
<1>1. /\ file # "nodes" => disk'.nodes = disk.nodes
      /\ file # "edges" => disk'.edges = disk.edges
      /\ disk'.mixed = {}
      /\ disk' = [disk EXCEPT ![file] = built[m][file], !.cut = @ \ {file}]
    BY SaveLeaves DEF TypeOK, SerialInv
<1>2. /\ file = "nodes" => disk'.nodes = built[m].nodes
      /\ file = "edges" => disk'.edges = built[m].edges
    BY <1>1 DEF TypeOK, SnapshotType
<1>3. /\ phase[m] = WritingOf(file) /\ phase' = [phase EXCEPT ![m] = next]
      /\ UNCHANGED <<stage, graph, base, drained, built>>
    BY DEF Save, indexVars
<1>4. phase[m] \in HasBuilt
    BY <1>3, SavingPhases
<1>5. /\ file \in NodesSaved /\ file # "nodes" => WritingOf(file) \in NodesSaved
      /\ file \in EdgesSaved /\ file # "edges" => WritingOf(file) \in EdgesSaved
    BY DEF Files, WritingOf, NodesSaved, EdgesSaved, HasBuilt, WritePhases
<1>6. next \in NodesSaved => disk'.nodes = built[m].nodes
    BY <1>1, <1>2, <1>3, <1>5 DEF SerialInv, MergersInv
<1>7. next \in EdgesSaved => disk'.edges = built[m].edges
    BY <1>1, <1>2, <1>3, <1>5 DEF SerialInv, MergersInv
<1>8. MergersInv'
    BY <1>3, <1>4, <1>6, <1>7, SerialMoves DEF SerialInv
<1> QED
    BY <1>1, <1>8 DEF SerialInv

\* The steps of a single merge preserve SerialInv.
LEMMA SerialMergeStep ==
    ASSUME TypeOK, SerialMerges, SerialInv, NEW m \in Mergers,
           MergeStep(m) \/ MergeFails(m) \/ ForceMerge(m)
    PROVE  SerialInv'
<1> USE DEF indexVars
<1>1. CASE StartMerge(m) \/ ForceMerge(m)
    <2>1. Up'
        BY <1>1 DEF StartMerge, ForceMerge, Up
    <2>2. UNCHANGED disk
        BY <1>1 DEF StartMerge, ForceMerge, Launch
    <2> QED
        BY <1>1, <2>1, <2>2, SerialLaunch DEF StartMerge, ForceMerge, SerialInv
<1>2. CASE Drain(m)
    BY <1>2 DEF Drain, TypeOK, MergerTypeOK, SerialInv, MergersInv, SerialMerges, Up,
                HasBuilt, NodesSaved, EdgesSaved, Files, WritePhases
<1>3. CASE Build(m)
    <2>1. /\ Len(base[m].nodes) <= Len(Merged(m).nodes)
          /\ \A i \in 1..Len(base[m].nodes) : Merged(m).nodes[i] = base[m].nodes[i]
          /\ Origins(drained[m].nodes) \subseteq Origins(Merged(m).nodes)
          /\ Origins(drained[m].edges) \subseteq Origins(Merged(m).edges)
        BY MergedProperties DEF TypeOK
    <2>2. base[m] = graph /\ Up
        BY <1>3 DEF Build, SerialInv, MergersInv
    <2>3. graph.nodes \in Seq(NodeType)
        BY DEF TypeOK, IndexTypeOK, GraphType
    <2>4. Extends(graph.nodes, Merged(m).nodes)
        BY <2>1, <2>2, <2>3 DEF Extends
    <2>5. built'[m] = Merged(m) /\ phase'[m] = "nodes"
        BY <1>3 DEF Build, TypeOK, MergerTypeOK
    <2>6. UNCHANGED <<stage, graph, base, drained, disk>>
        BY <1>3 DEF Build
    <2>8. \A n \in Mergers : n = m
        BY DEF SerialMerges
    <2> HIDE DEF indexVars
    <2>7. Extends(graph'.nodes, built'[m].nodes)
        BY <2>4, <2>5, <2>6
    <2>9. phase'[m] # "idle" /\ phase'[m] \notin NodesSaved /\ phase'[m] \notin EdgesSaved
        BY <2>5 DEF NodesSaved, EdgesSaved
    <2>10. MergersInv'
        BY <2>1, <2>2, <2>5, <2>6, <2>7, <2>8, <2>9 DEF MergersInv, Up
    <2> QED
        BY <2>6, <2>10 DEF SerialInv
<1>4. CASE BuildPanics(m) \/ MergeFails(m) \/ RebuildPanics(m) \/ Swap(m)
    <2>1. EndTask(m) /\ UNCHANGED disk
        BY <1>4 DEF BuildPanics, MergeFails, RebuildPanics, Swap
    <2> QED
        BY <2>1, SerialIdle DEF TypeOK, SerialInv
<1>5. CASE \E file \in Files : Open(m, file)
    BY <1>5, SerialOpen
<1>6. CASE \/ SaveNodes(m) \/ SaveEdges(m) \/ SaveVecs(m)
           \/ SaveEdgeVecs(m) \/ SaveEndpoints(m)
    <2> HIDE DEF indexVars
    <2>1. CASE SaveNodes(m)
        BY <2>1, SerialSave
            DEF SaveNodes, HasBuilt, NodesSaved, EdgesSaved, Files, WritePhases
    <2>2. CASE SaveEdges(m)
        BY <2>2, SerialSave
            DEF SaveEdges, HasBuilt, NodesSaved, EdgesSaved, Files, WritePhases
    <2>3. CASE SaveVecs(m)
        BY <2>3, SerialSave
            DEF SaveVecs, HasBuilt, NodesSaved, EdgesSaved, Files, WritePhases
    <2>4. CASE SaveEdgeVecs(m)
        BY <2>4, SerialSave
            DEF SaveEdgeVecs, HasBuilt, NodesSaved, EdgesSaved, Files, WritePhases
    <2>5. CASE SaveEndpoints(m)
        BY <2>5, SerialSave
            DEF SaveEndpoints, HasBuilt, NodesSaved, EdgesSaved, Files, WritePhases
    <2> QED
        BY <1>6, <2>1, <2>2, <2>3, <2>4, <2>5
<1>7. CASE SkipEdgeVecs(m) \/ Truncate(m) \/ Rebuild(m)
    <2>1. PICK next \in HasBuilt : phase' = [phase EXCEPT ![m] = next]
        BY <1>7 DEF SkipEdgeVecs, Truncate, Rebuild, HasBuilt, Files
    <2>2. /\ phase[m] \in HasBuilt /\ phase[m] \in NodesSaved /\ phase[m] \in EdgesSaved
          /\ UNCHANGED <<stage, graph, base, drained, built, disk>>
        BY <1>7 DEF SkipEdgeVecs, Truncate, Rebuild, HasBuilt, NodesSaved, EdgesSaved, Files
    <2>3. disk.nodes = built[m].nodes /\ disk.edges = built[m].edges
        BY <2>2 DEF SerialInv, MergersInv
    <2> HIDE DEF indexVars
    <2>4. MergersInv'
        BY <2>1, <2>2, <2>3, SerialMoves DEF SerialInv
    <2> QED
        BY <2>2, <2>4 DEF SerialInv
<1> QED
    BY <1>1, <1>2, <1>3, <1>4, <1>5, <1>6, <1>7 DEF MergeStep

\* SerialInv is inductive beside the types.
LEMMA SerialStep ==
    ASSUME TypeOK, SerialMerges, SerialInv, [Next]_vars
    PROVE  SerialInv'
<1>1. ASSUME UNCHANGED <<stage, graph, disk, mergeVars>> PROVE SerialInv'
    BY <1>1 DEF SerialInv, MergersInv, Up, mergeVars
<1>2. CASE UNCHANGED vars \/ Quiescent
    BY <1>1, <1>2 DEF vars, Quiescent, indexVars
<1>3. ASSUME NEW w \in Writers, Begin(w) \/ WriterStep(w) PROVE SerialInv'
    BY <1>1, <1>3 DEF Begin, WriterStep, ResolveExisting, ResolveNew, ResolvePanics, ResolveDone,
        WriteNodesWal, AddNodes, WriteEdgesWal, AddEdges, Finish, indexVars
<1>4. CASE Crash \/ Exit
    <2>1. Vanish /\ UNCHANGED disk
        BY <1>4 DEF Crash, Exit, Vanish
    <2> QED
        BY <2>1, SerialVanish DEF SerialInv
<1>5. CASE Boot
    BY <1>5 DEF Boot, SerialInv, MergersInv, Up, HasBuilt, NodesSaved, EdgesSaved, mergeVars,
                Files, WritePhases
<1>6. CASE Shutdown
    <2>1. Up' /\ UNCHANGED disk
        BY <1>6 DEF Shutdown, Launch, Up
    <2>2. CASE DeltaSize > 0
        BY <1>6, <2>1, <2>2, SerialLaunch DEF Shutdown, SerialInv
    <2>3. CASE ~ (DeltaSize > 0)
        BY <1>6, <2>1, <2>3 DEF Shutdown, SerialInv, MergersInv, Up, mergeVars, indexVars
    <2> QED
        BY <2>2, <2>3
<1> QED
    BY <1>2, <1>3, <1>4, <1>5, <1>6, SerialMergeStep DEF Next

\* It holds in every reachable state.
LEMMA SerialInvariant ==
    ASSUME SerialMerges
    PROVE  Spec => [](TypeOK /\ SerialInv)
<1>1. Init => TypeOK /\ SerialInv
    BY TypeInit, SerialInit
<1>2. TypeOK /\ SerialInv /\ [Next]_vars => (TypeOK /\ SerialInv)'
    BY TypeStep, SerialStep
<1> QED
    BY <1>1, <1>2, PTL DEF Spec

\* When merges do not overlap, the WAL is given up only for what the snapshot
\* holds, whatever crashes and failures happen.
THEOREM SerialTruncatedIsOnDisk ==
    ASSUME SerialMerges
    PROVE  Spec => []TruncatedIsOnDisk
<1>1. SerialInv => TruncatedIsOnDisk
    BY DEF SerialInv, MergersInv, TruncatedIsOnDisk, HasBuilt, NodesSaved, EdgesSaved
<1> QED
    BY <1>1, SerialInvariant, PTL

\* What a single merge swaps in extends the graph that it replaces.
LEMMA SerialGraphGrows ==
    ASSUME TypeOK, SerialInv, [Next]_vars
    PROVE  Up /\ Up' => Extends(graph.nodes, graph'.nodes)
<1> SUFFICES ASSUME Up, Up' PROVE Extends(graph.nodes, graph'.nodes)
    OBVIOUS
<1>1. graph.nodes \in Seq(NodeType)
    BY DEF TypeOK, IndexTypeOK, GraphType
<1>2. ASSUME UNCHANGED graph PROVE Extends(graph.nodes, graph'.nodes)
    BY <1>1, <1>2 DEF Extends
<1>3. ASSUME NEW m \in Mergers, Swap(m) PROVE Extends(graph.nodes, graph'.nodes)
    <2>1. graph'.nodes = built[m].nodes /\ phase[m] = "swap"
        BY <1>3 DEF Swap, GraphOf
    <2> QED
        BY <2>1 DEF SerialInv, MergersInv, HasBuilt
<1>4. CASE UNCHANGED vars \/ Quiescent
    BY <1>2, <1>4 DEF vars, Quiescent, indexVars
<1>5. ASSUME NEW w \in Writers, Begin(w) \/ WriterStep(w) PROVE UNCHANGED graph
    BY <1>5 DEF Begin, WriterStep, ResolveExisting, ResolveNew, ResolvePanics, ResolveDone,
        WriteNodesWal, AddNodes, WriteEdgesWal, AddEdges, Finish, indexVars
<1>6. ASSUME NEW m \in Mergers, ~ Swap(m), MergeStep(m) \/ MergeFails(m) \/ ForceMerge(m)
      PROVE  UNCHANGED graph
    BY <1>6 DEF MergeStep, StartMerge, ForceMerge, Launch, Drain, Build, BuildPanics, MergeFails,
        Open, SaveNodes, SaveEdges, SaveVecs, SaveEdgeVecs, SkipEdgeVecs, SaveEndpoints, Save,
        Truncate, Rebuild, RebuildPanics, indexVars
<1>7. CASE Shutdown
    BY <1>2, <1>7 DEF Shutdown, Launch, indexVars
<1>8. ~ Crash /\ ~ Boot /\ ~ Exit
    BY DEF Crash, Boot, Exit, Up
<1> QED
    BY <1>2, <1>3, <1>4, <1>5, <1>6, <1>7, <1>8 DEF Next

\* When merges do not overlap, no hot swap of a running process drops a node or
\* gives its index to another.
THEOREM SerialGraphNodesStable ==
    ASSUME SerialMerges
    PROVE  Spec => GraphNodesStable
<1>1. TypeOK /\ SerialInv /\ [Next]_vars =>
          [Up /\ Up' => Extends(graph.nodes, graph'.nodes)]_vars
    BY SerialGraphGrows
<1> QED
    BY <1>1, SerialInvariant, PTL DEF Spec, GraphNodesStable

-----------------------------------------------------------------------------
(***************************************************************************)
(* Overlapping merges.  An entry enters the delta once: when its writer    *)
(* pushes it, or at boot, when no merge is under way and the writers that  *)
(* have not begun have written nothing to the log.                         *)
(***************************************************************************)
Free(S, w) == \A o \in S : o[1] # w

NodesUnpushed == {"idle", "resolve", "appendNodes", "pushNodes"}
EdgesUnpushed == NodesUnpushed \cup {"appendEdges", "pushEdges"}

WriterInv ==
    \A w \in Writers :
        /\ ~ Up => pc[w] \in {"idle", "done", "failed"}
        /\ \A o \in Origins(toAdd[w]) : o[1] = w
        /\ pc[w] = "idle" => Free(Origins(wal.nodes), w) /\ Free(Origins(wal.edges), w)
        /\ pc[w] \in NodesUnpushed => Free(Origins(delta.nodes), w)
        /\ pc[w] \in EdgesUnpushed => Free(Origins(delta.edges), w)
        /\ \A m \in Mergers :
              /\ pc[w] \in NodesUnpushed => Free(Origins(drained[m].nodes), w)
              /\ pc[w] \in EdgesUnpushed => Free(Origins(drained[m].edges), w)

IdleInv ==
    \A m \in Mergers :
        /\ phase[m] \in {"idle", "drain"} => drained[m] = Empty
        /\ ~ Up => phase[m] = "idle"

Disjoint ==
    /\ \A m \in Mergers :
          /\ Origins(drained[m].nodes) \cap Origins(delta.nodes) = {}
          /\ Origins(drained[m].edges) \cap Origins(delta.edges) = {}
    /\ \A m, n \in Mergers :
          m # n => /\ Origins(drained[m].nodes) \cap Origins(drained[n].nodes) = {}
                   /\ Origins(drained[m].edges) \cap Origins(drained[n].edges) = {}

ExclusiveInv == WriterInv /\ IdleInv /\ Disjoint

\* Nothing has no origin.
LEMMA EmptyOrigins ==
    Origins(<<>>) = {} /\ Origins(Empty.nodes) = {} /\ Origins(Empty.edges) = {}
BY DEF Origins, Empty

\* Init establishes ExclusiveInv.
LEMMA ExclusiveInit == Init => ExclusiveInv
<1> SUFFICES ASSUME Init PROVE ExclusiveInv
    OBVIOUS
<1>1. /\ delta = Empty /\ wal = Empty /\ Up
      /\ \A w \in Writers : pc[w] = "idle" /\ toAdd[w] = <<>>
      /\ \A m \in Mergers : drained[m] = Empty
    BY DEF Init, Up
<1>2. WriterInv
    BY <1>1, EmptyOrigins DEF WriterInv, Free
<1>3. IdleInv /\ Disjoint
    BY <1>1, EmptyOrigins DEF IdleInv, Disjoint
<1> QED
    BY <1>2, <1>3 DEF ExclusiveInv

\* Appending an element adds its origin.
LEMMA OriginsOfAppend ==
    ASSUME NEW S, NEW s \in Seq(S), NEW e \in S
    PROVE  Origins(Append(s, e)) = Origins(s) \cup {e.origin}
<1>1. /\ Append(s, e) \in Seq(S) /\ Len(Append(s, e)) = Len(s) + 1
      /\ \A i \in 1..Len(s) : Append(s, e)[i] = s[i]
      /\ Append(s, e)[Len(s) + 1] = e
    BY AppendProperties
<1>2. DOMAIN Append(s, e) = (1..Len(s)) \cup {Len(s) + 1} /\ DOMAIN s = 1..Len(s)
    BY <1>1
<1> QED
    BY <1>1, <1>2 DEF Origins

\* What an append or a push adds.
LEMMA AppendNodesOrigins ==
    ASSUME DeltaTypeOK, NEW ns \in Seq(NodeType), NEW cut, AppendNodes(ns, cut)
    PROVE  /\ Origins(wal'.nodes) \subseteq Origins(wal.nodes) \cup Origins(ns)
           /\ wal'.edges = wal.edges
<1>1. wal.nodes \in Seq(NodeType)
    BY DEF DeltaTypeOK, GraphType
<1>2. Readable(ns) \in Seq(NodeType) /\ Origins(Readable(ns)) \subseteq Origins(ns)
    BY ReadableProperties
<1>3. wal'.nodes = wal.nodes \o Readable(ns) /\ wal'.edges = wal.edges
    BY DEF AppendNodes, DeltaTypeOK, GraphType
<1> QED
    BY <1>1, <1>2, <1>3, OriginsOfConcat

\* The same of edges.
LEMMA AppendEdgesOrigins ==
    ASSUME DeltaTypeOK, NEW es \in Seq(EdgeType), NEW cut, AppendEdges(es, cut)
    PROVE  /\ Origins(wal'.edges) \subseteq Origins(wal.edges) \cup Origins(es)
           /\ wal'.nodes = wal.nodes
<1>1. wal.edges \in Seq(EdgeType)
    BY DEF DeltaTypeOK, GraphType
<1>2. Readable(es) \in Seq(EdgeType) /\ Origins(Readable(es)) \subseteq Origins(es)
    BY ReadableProperties
<1>3. wal'.edges = wal.edges \o Readable(es) /\ wal'.nodes = wal.nodes
    BY DEF AppendEdges, DeltaTypeOK, GraphType
<1> QED
    BY <1>1, <1>2, <1>3, OriginsOfConcat

\* A part of a sequence has some of its origins.
LEMMA SubSeqOrigins ==
    ASSUME NEW S, NEW s \in Seq(S), NEW k \in Nat, k <= Len(s)
    PROVE  SubSeq(s, 1, k) \in Seq(S) /\ Origins(SubSeq(s, 1, k)) \subseteq Origins(s)
<1>1. \A i \in 1..k : s[i] \in S /\ i \in DOMAIN s
    OBVIOUS
<1>2. /\ SubSeq(s, 1, k) \in Seq(S) /\ Len(SubSeq(s, 1, k)) = k
      /\ \A i \in 1..k : SubSeq(s, 1, k)[i] = s[i]
    BY <1>1, SubSeqProperties
<1>3. DOMAIN SubSeq(s, 1, k) = 1..k
    BY <1>2
<1> QED
    BY <1>1, <1>2, <1>3 DEF Origins

\* What a batch that was cut adds.
LEMMA AppendsPartOrigins ==
    ASSUME TypeOK, NEW w \in Writers, AppendsPart(w)
    PROVE  \/ /\ pc[w] = "appendNodes" /\ wal'.edges = wal.edges
              /\ Origins(wal'.nodes) \subseteq Origins(wal.nodes) \cup Origins(toAdd[w])
           \/ /\ pc[w] = "appendEdges" /\ wal'.nodes = wal.nodes
              /\ Origins(wal'.edges) \subseteq Origins(wal.edges) \cup Origins(EdgesOf(w))
<1>1. PICK k \in 0..LongestBatch(w), cut \in BOOLEAN : CutAppend(w, k, cut)
    BY DEF AppendsPart
<1>2. CASE pc[w] = "appendNodes"
    <2>1. /\ toAdd[w] \in Seq(NodeType) /\ k \in Nat /\ k <= Len(toAdd[w])
          /\ AppendNodes(SubSeq(toAdd[w], 1, k), cut)
        BY <1>1, <1>2 DEF CutAppend, TypeOK, WriterTypeOK
    <2>2. /\ SubSeq(toAdd[w], 1, k) \in Seq(NodeType)
          /\ Origins(SubSeq(toAdd[w], 1, k)) \subseteq Origins(toAdd[w])
        BY <2>1, SubSeqOrigins
    <2> QED
        BY <1>2, <2>1, <2>2, AppendNodesOrigins DEF TypeOK
<1>3. CASE pc[w] = "appendEdges"
    <2>1. EdgesOf(w) \in Seq(EdgeType)
        BY <1>3, EdgesOfProperties DEF TypeOK, WriterTypeOK
    <2>2. k \in Nat /\ k <= Len(EdgesOf(w)) /\ AppendEdges(SubSeq(EdgesOf(w), 1, k), cut)
        BY <1>1, <1>3 DEF CutAppend
    <2>3. /\ SubSeq(EdgesOf(w), 1, k) \in Seq(EdgeType)
          /\ Origins(SubSeq(EdgesOf(w), 1, k)) \subseteq Origins(EdgesOf(w))
        BY <2>1, <2>2, SubSeqOrigins
    <2> QED
        BY <1>3, <2>2, <2>3, AppendEdgesOrigins DEF TypeOK
<1> QED
    BY <1>1, <1>2, <1>3 DEF CutAppend

\* Steps that leave the delta and what was drained alone.
LEMMA ExclusiveFrame ==
    ASSUME ExclusiveInv, UNCHANGED <<delta, drained>>,
           \A m \in Mergers : /\ phase'[m] \in {"idle", "drain"} => phase[m] \in {"idle", "drain"}
                              /\ ~ Up' => phase'[m] = "idle",
           WriterInv'
    PROVE  ExclusiveInv'
BY DEF ExclusiveInv, IdleInv, Disjoint

\* The steps of ingest handlers preserve ExclusiveInv.
LEMMA ExclusiveWriterStep ==
    ASSUME TypeOK, ExclusiveInv, NEW w \in Writers, Begin(w) \/ WriterStep(w)
    PROVE  ExclusiveInv'
<1>1. UNCHANGED <<drained, phase, stage>> /\ (Up' <=> Up)
    BY DEF Begin, WriterStep, ResolveExisting, ResolveNew, ResolvePanics, ResolveDone,
        WriteNodesWal, AddNodes, WriteEdgesWal, AddEdges, Finish, mergeVars, Up
<1>2. Up
    BY DEF Begin, WriterStep, ResolveExisting, ResolveNew, ResolvePanics, ResolveDone, Resolving,
        WriteNodesWal, AddNodes, WriteEdgesWal, AddEdges, Finish, Up, ExclusiveInv, WriterInv
<1>3. IdleInv'
    BY <1>1 DEF ExclusiveInv, IdleInv
<1>4. pc \in [Writers -> Pcs]
    BY DEF TypeOK, WriterTypeOK
<1>5. ASSUME UNCHANGED <<delta, walVars, toAdd>>,
             \A v \in Writers : \/ pc'[v] = pc[v]
                                \/ pc[v] \in NodesUnpushed /\ pc'[v] # "idle"
                                \/ pc'[v] \in {"done", "failed"}
      PROVE  ExclusiveInv'
    <2>1. WriterInv'
        BY <1>1, <1>2, <1>5 DEF ExclusiveInv, WriterInv, Free, NodesUnpushed, EdgesUnpushed, walVars
    <2> QED
        BY <1>1, <1>2, <1>3, <1>5, <2>1 DEF ExclusiveInv, Disjoint
<1>6. CASE Begin(w) \/ ResolveExisting(w) \/ ResolvePanics(w) \/ ResolveDone(w) \/ Finish(w)
    BY <1>4, <1>5, <1>6 DEF Begin, ResolveExisting, ResolvePanics, ResolveDone, Finish, Resolving,
        NodesUnpushed
<1>7. CASE ResolveNew(w)
    <2> DEFINE node == [id |-> nextNodeId, ent |-> NextEnt(w),
                        origin |-> <<w, Len(ids[w]) + 1>>]
    <2>1. toAdd' = [toAdd EXCEPT ![w] = Append(toAdd[w], node)]
        BY <1>7 DEF ResolveNew
    <2>2. /\ toAdd[w] \in Seq(NodeType) /\ toAdd \in [Writers -> Seq(NodeType)]
          /\ node \in NodeType /\ node.origin = <<w, Len(ids[w]) + 1>>
        <3>1. NextEnt(w) \in Entities /\ nextNodeId \in Nat /\ Len(ids[w]) + 1 \in Nat
            BY <1>7, NextEntType DEF ResolveNew, TypeOK, DeltaTypeOK, WriterTypeOK
        <3> QED
            BY <3>1 DEF NodeType, Origin, TypeOK, WriterTypeOK
    <2>3. Origins(Append(toAdd[w], node)) = Origins(toAdd[w]) \cup {<<w, Len(ids[w]) + 1>>}
        <3> HIDE DEF node
        <3>1. toAdd[w] \in Seq(NodeType) /\ node \in NodeType
            BY <2>2
        <3>2. Origins(Append(toAdd[w], node)) = Origins(toAdd[w]) \cup {node.origin}
            BY <3>1, OriginsOfAppend
        <3> QED
            BY <2>2, <3>2
    <2> HIDE DEF node
    <2>4. \A v \in Writers : \A o \in Origins(toAdd'[v]) : o[1] = v
        BY <2>1, <2>2, <2>3 DEF ExclusiveInv, WriterInv
    <2>5. UNCHANGED <<delta, walVars, pc>>
        BY <1>7 DEF ResolveNew
    <2>6. WriterInv'
        BY <1>1, <2>4, <2>5 DEF ExclusiveInv, WriterInv, walVars
    <2> QED
        BY <1>1, <1>3, <2>5, <2>6 DEF ExclusiveInv, Disjoint
<1>8. CASE WriteNodesWal(w)
    <2>1. /\ Origins(wal'.nodes) \subseteq Origins(wal.nodes) \cup Origins(toAdd[w])
          /\ wal'.edges = wal.edges
        BY <1>8, AppendNodesOrigins, AppendsPartOrigins DEF WriteNodesWal, TypeOK, WriterTypeOK
    <2>2. \A o \in Origins(toAdd[w]) : o[1] = w
        BY DEF ExclusiveInv, WriterInv
    <2>3. UNCHANGED <<delta, toAdd>> /\ pc[w] = "appendNodes" /\ pc' = [pc EXCEPT ![w] = "pushNodes"]
        BY <1>8 DEF WriteNodesWal
    <2>4. WriterInv'
        BY <1>1, <1>2, <1>4, <2>1, <2>2, <2>3
            DEF ExclusiveInv, WriterInv, Free, NodesUnpushed, EdgesUnpushed
    <2> QED
        BY <1>1, <1>3, <2>3, <2>4 DEF ExclusiveInv, Disjoint
<1>9. CASE WriteEdgesWal(w)
    <2>1. Len(ids[w]) = Len(Request[w].ents)
        BY <1>9 DEF WriteEdgesWal, TypeOK, WriterTypeOK
    <2>2. EdgesOf(w) \in Seq(EdgeType) /\ \A o \in Origins(EdgesOf(w)) : o[1] = w
        BY <2>1, EdgesOfProperties DEF TypeOK
    <2>3. /\ Origins(wal'.edges) \subseteq Origins(wal.edges) \cup Origins(EdgesOf(w))
          /\ wal'.nodes = wal.nodes
        BY <1>9, <2>2, AppendEdgesOrigins, AppendsPartOrigins DEF WriteEdgesWal, TypeOK
    <2>4. UNCHANGED <<delta, toAdd>> /\ pc[w] = "appendEdges" /\ pc' = [pc EXCEPT ![w] = "pushEdges"]
        BY <1>9 DEF WriteEdgesWal
    <2>5. WriterInv'
        BY <1>1, <1>2, <1>4, <2>2, <2>3, <2>4
            DEF ExclusiveInv, WriterInv, Free, NodesUnpushed, EdgesUnpushed
    <2> QED
        BY <1>1, <1>3, <2>4, <2>5 DEF ExclusiveInv, Disjoint
<1>10. CASE AddNodes(w)
    <2>1. /\ delta'.nodes = delta.nodes \o toAdd[w] /\ delta'.edges = delta.edges
          /\ delta.nodes \in Seq(NodeType) /\ toAdd[w] \in Seq(NodeType)
        BY <1>10 DEF AddNodes, PushNodes, TypeOK, DeltaTypeOK, WriterTypeOK, GraphType
    <2>2. Origins(delta'.nodes) = Origins(delta.nodes) \cup Origins(toAdd[w])
        BY <2>1, OriginsOfConcat
    <2>3. UNCHANGED <<wal, toAdd>> /\ pc[w] = "pushNodes" /\ pc' = [pc EXCEPT ![w] = "appendEdges"]
        BY <1>10 DEF AddNodes, walVars
    <2>4. \A o \in Origins(toAdd[w]) : o[1] = w
        BY DEF ExclusiveInv, WriterInv
    <2>5. WriterInv'
        BY <1>1, <1>2, <1>4, <2>1, <2>2, <2>3, <2>4
            DEF ExclusiveInv, WriterInv, Free, NodesUnpushed, EdgesUnpushed
    <2>6. \A m \in Mergers : Origins(drained[m].nodes) \cap Origins(toAdd[w]) = {}
        BY <2>3, <2>4 DEF ExclusiveInv, WriterInv, Free, NodesUnpushed
    <2>7. Disjoint'
        BY <1>1, <2>1, <2>2, <2>6 DEF ExclusiveInv, Disjoint
    <2> QED
        BY <1>3, <2>5, <2>7 DEF ExclusiveInv
<1>11. CASE AddEdges(w)
    <2>1. Len(ids[w]) = Len(Request[w].ents)
        BY <1>11 DEF AddEdges, TypeOK, WriterTypeOK
    <2>2. EdgesOf(w) \in Seq(EdgeType) /\ \A o \in Origins(EdgesOf(w)) : o[1] = w
        BY <2>1, EdgesOfProperties DEF TypeOK
    <2>3. /\ delta'.edges = delta.edges \o EdgesOf(w) /\ delta'.nodes = delta.nodes
          /\ delta.edges \in Seq(EdgeType)
        BY <1>11 DEF AddEdges, PushEdges, TypeOK, DeltaTypeOK, GraphType
    <2>4. Origins(delta'.edges) = Origins(delta.edges) \cup Origins(EdgesOf(w))
        BY <2>2, <2>3, OriginsOfConcat
    <2>5. UNCHANGED <<wal, toAdd>> /\ pc[w] = "pushEdges" /\ pc' = [pc EXCEPT ![w] = "finish"]
        BY <1>11 DEF AddEdges, walVars
    <2>6. WriterInv'
        BY <1>1, <1>2, <1>4, <2>2, <2>3, <2>4, <2>5
            DEF ExclusiveInv, WriterInv, Free, NodesUnpushed, EdgesUnpushed
    <2>7. \A m \in Mergers : Origins(drained[m].edges) \cap Origins(EdgesOf(w)) = {}
        BY <2>2, <2>5 DEF ExclusiveInv, WriterInv, Free, NodesUnpushed, EdgesUnpushed
    <2>8. Disjoint'
        BY <1>1, <2>3, <2>4, <2>7 DEF ExclusiveInv, Disjoint
    <2> QED
        BY <1>3, <2>6, <2>8 DEF ExclusiveInv
<1> QED
    BY <1>6, <1>7, <1>8, <1>9, <1>10, <1>11 DEF WriterStep

\* The steps of merges preserve it, however many overlap.
LEMMA ExclusiveMergeStep ==
    ASSUME TypeOK, ExclusiveInv, NEW m \in Mergers,
           MergeStep(m) \/ MergeFails(m) \/ ForceMerge(m)
    PROVE  ExclusiveInv'
<1>1. UNCHANGED <<pc, toAdd, stage>> /\ (Up' <=> Up)
    BY DEF MergeStep, StartMerge, ForceMerge, Launch, Drain, Build, BuildPanics, MergeFails,
        Open, SaveNodes, SaveEdges, SaveVecs, SaveEdgeVecs, SkipEdgeVecs, SaveEndpoints, Save,
        Truncate, Rebuild, RebuildPanics, Swap, writeVars, Up
<1>2. Up
    <2>1. CASE StartMerge(m) \/ ForceMerge(m)
        BY <2>1 DEF StartMerge, ForceMerge, Up
    <2>2. CASE phase[m] # "idle"
        BY <2>2 DEF ExclusiveInv, IdleInv
    <2>3. CASE ~ StartMerge(m) /\ ~ ForceMerge(m)
        BY <2>2, <2>3
            DEF MergeStep, Drain, Build, BuildPanics, MergeFails, Files, WritePhases, WritingOf,
                Open, SaveNodes, SaveEdges, SaveVecs, SaveEdgeVecs, SkipEdgeVecs, SaveEndpoints,
                Save, Truncate, Rebuild, RebuildPanics, Swap
    <2> QED
        BY <2>1, <2>3
<1>3. phase \in [Mergers -> Phases] /\ drained \in [Mergers -> GraphType]
    BY DEF TypeOK, MergerTypeOK
<1>4. CASE Drain(m)
    <2>1. /\ delta' = Empty /\ drained' = [drained EXCEPT ![m] = delta]
          /\ phase' = [phase EXCEPT ![m] = "build"] /\ wal' = wal
        BY <1>4 DEF Drain, DrainDelta, walVars
    <2>2. WriterInv'
        BY <1>1, <1>2, <1>3, <2>1, EmptyOrigins DEF ExclusiveInv, WriterInv, Free
    <2>3. IdleInv'
        BY <1>1, <1>2, <1>3, <2>1 DEF ExclusiveInv, IdleInv
    <2>4. Disjoint'
        BY <1>3, <2>1, EmptyOrigins DEF ExclusiveInv, Disjoint
    <2> QED
        BY <2>2, <2>3, <2>4 DEF ExclusiveInv
<1>5. ASSUME EndTask(m), UNCHANGED <<delta, wal>> PROVE ExclusiveInv'
    <2>1. drained' = [drained EXCEPT ![m] = Empty] /\ phase' = [phase EXCEPT ![m] = "idle"]
        BY <1>5 DEF EndTask
    <2>2. WriterInv'
        BY <1>1, <1>2, <1>3, <1>5, <2>1, EmptyOrigins DEF ExclusiveInv, WriterInv, Free
    <2>3. IdleInv'
        BY <1>1, <1>2, <1>3, <2>1 DEF ExclusiveInv, IdleInv
    <2>4. Disjoint'
        BY <1>3, <1>5, <2>1, EmptyOrigins DEF ExclusiveInv, Disjoint
    <2> QED
        BY <2>2, <2>3, <2>4 DEF ExclusiveInv
<1>6. CASE BuildPanics(m) \/ MergeFails(m) \/ RebuildPanics(m) \/ Swap(m)
    BY <1>5, <1>6 DEF BuildPanics, MergeFails, RebuildPanics, Swap, walVars
<1>7. ASSUME UNCHANGED <<delta, drained>>, wal' \in {wal, Empty},
             \A n \in Mergers : phase'[n] \in {"idle", "drain"} => phase[n] \in {"idle", "drain"}
      PROVE  ExclusiveInv'
    <2>1. WriterInv'
        BY <1>1, <1>2, <1>7, EmptyOrigins DEF ExclusiveInv, WriterInv, Free
    <2> QED
        BY <1>1, <1>2, <1>7, <2>1, ExclusiveFrame
<1>8. CASE StartMerge(m) \/ ForceMerge(m)
    BY <1>3, <1>7, <1>8 DEF StartMerge, ForceMerge, Launch, walVars
<1>9. CASE Build(m) \/ SkipEdgeVecs(m) \/ Rebuild(m) \/ Truncate(m)
    BY <1>3, <1>7, <1>9 DEF Build, SkipEdgeVecs, Rebuild, Truncate, TruncateWal, walVars
<1>10. CASE SaveNodes(m) \/ SaveEdges(m) \/ SaveVecs(m) \/ SaveEdgeVecs(m) \/ SaveEndpoints(m)
    BY <1>3, <1>7, <1>10 DEF SaveNodes, SaveEdges, SaveVecs, SaveEdgeVecs, SaveEndpoints, Save, walVars
<1>11. ASSUME NEW file \in Files, Open(m, file) PROVE ExclusiveInv'
    <2>1. WritingOf(file) \notin {"idle", "drain"}
        BY WritingPhase DEF WritePhases
    <2> QED
        BY <1>3, <1>7, <1>11, <2>1 DEF Open, walVars
<1> QED
    BY <1>4, <1>6, <1>8, <1>9, <1>10, <1>11 DEF MergeStep

\* So does losing the memory of the process, when the log keeps its promise.
LEMMA ExclusiveVanish ==
    ASSUME TypeOK, ExclusiveInv, Vanish,
           \A w \in Writers :
               pc[w] = "idle" => Free(Origins(wal'.nodes), w) /\ Free(Origins(wal'.edges), w)
    PROVE  ExclusiveInv'
<1>1. /\ delta' = Empty /\ toAdd' = toAdd
      /\ \A m \in Mergers : drained'[m] = Empty /\ phase'[m] = "idle"
      /\ \A w \in Writers : pc'[w] \in {"idle", "done", "failed"} /\ (pc'[w] = "idle" => pc[w] = "idle")
    BY DEF Vanish, InFlight, TypeOK, WriterTypeOK, Pcs
<1>2. WriterInv'
    BY <1>1, EmptyOrigins DEF ExclusiveInv, WriterInv, Free, NodesUnpushed, EdgesUnpushed
<1>3. IdleInv' /\ Disjoint'
    BY <1>1, EmptyOrigins DEF IdleInv, Disjoint
<1> QED
    BY <1>2, <1>3 DEF ExclusiveInv

\* So does a crash, also one that cuts the batch a handler appends.
LEMMA ExclusiveCrash ==
    ASSUME TypeOK, ExclusiveInv, Crash
    PROVE  ExclusiveInv'
<1>1. ASSUME NEW v \in Writers, pc[v] = "idle"
      PROVE  Free(Origins(wal'.nodes), v) /\ Free(Origins(wal'.edges), v)
    <2>1. Free(Origins(wal.nodes), v) /\ Free(Origins(wal.edges), v)
        BY <1>1 DEF ExclusiveInv, WriterInv
    <2>2. CASE UNCHANGED walVars
        BY <2>1, <2>2 DEF walVars
    <2>3. ASSUME NEW w \in Writers, AppendsPart(w)
          PROVE  Free(Origins(wal'.nodes), v) /\ Free(Origins(wal'.edges), v)
        <3>1. CASE pc[w] = "appendNodes"
            <4>1. \A o \in Origins(toAdd[w]) : o[1] = w
                BY DEF ExclusiveInv, WriterInv
            <4> QED
                BY <1>1, <2>1, <2>3, <3>1, <4>1, AppendsPartOrigins DEF Free
        <3>2. CASE pc[w] = "appendEdges"
            <4>1. Len(ids[w]) = Len(Request[w].ents)
                BY <3>2 DEF TypeOK, WriterTypeOK
            <4>2. \A o \in Origins(EdgesOf(w)) : o[1] = w
                BY <4>1, EdgesOfProperties DEF TypeOK
            <4> QED
                BY <1>1, <2>1, <2>3, <3>2, <4>2, AppendsPartOrigins DEF Free
        <3> QED
            BY <2>3, <3>1, <3>2, AppendsPartOrigins
    <2> QED
        BY <2>2, <2>3 DEF Crash
<1> QED
    BY <1>1, ExclusiveVanish DEF Crash

\* ExclusiveInv is inductive beside the types.
LEMMA ExclusiveStep ==
    ASSUME TypeOK, ExclusiveInv, [Next]_vars
    PROVE  ExclusiveInv'
<1>1. CASE UNCHANGED vars \/ Quiescent
    BY <1>1 DEF vars, Quiescent, walVars, indexVars, writeVars, mergeVars,
        ExclusiveInv, WriterInv, IdleInv, Disjoint, Up
<1>2. CASE Exit
    BY <1>2, ExclusiveVanish DEF Exit, walVars, ExclusiveInv, WriterInv
<1>3. CASE Boot
    <2>1. /\ delta' = wal /\ wal' = wal /\ Up' /\ ~ Up
          /\ UNCHANGED <<pc, toAdd, drained, phase>>
        BY <1>3 DEF Boot, ReplayWal, Up, walVars, writeVars, mergeVars
    <2>2. /\ \A m \in Mergers : drained[m] = Empty
          /\ \A w \in Writers : pc[w] \in {"idle", "done", "failed"}
        BY <2>1 DEF ExclusiveInv, WriterInv, IdleInv
    <2>3. WriterInv'
        BY <2>1, <2>2, EmptyOrigins
            DEF ExclusiveInv, WriterInv, Free, NodesUnpushed, EdgesUnpushed
    <2>4. IdleInv' /\ Disjoint'
        BY <2>1, <2>2, EmptyOrigins DEF IdleInv, Disjoint
    <2> QED
        BY <2>3, <2>4 DEF ExclusiveInv
<1>4. CASE Shutdown
    <2>1. /\ Up /\ Up' /\ UNCHANGED <<delta, drained, wal, pc, toAdd>>
          /\ \A m \in Mergers : phase'[m] \in {"idle", "drain"} => phase[m] \in {"idle", "drain"}
        BY <1>4 DEF Shutdown, Launch, Up, walVars, writeVars, mergeVars, TypeOK, MergerTypeOK
    <2>2. WriterInv'
        BY <2>1 DEF ExclusiveInv, WriterInv
    <2> QED
        BY <2>1, <2>2, ExclusiveFrame
<1> QED
    BY <1>1, <1>2, <1>3, <1>4, ExclusiveWriterStep, ExclusiveMergeStep, ExclusiveCrash DEF Next

\* However many merges overlap and whatever crashes and failures happen, an
\* entry is in the hands of one merge at most, and no longer in the delta.
THEOREM ExclusiveDrains == Spec => []DrainExclusive
<1>1. Init => TypeOK /\ ExclusiveInv
    BY TypeInit, ExclusiveInit
<1>2. TypeOK /\ ExclusiveInv /\ [Next]_vars => (TypeOK /\ ExclusiveInv)'
    BY TypeStep, ExclusiveStep
<1>3. ExclusiveInv => DrainExclusive
    BY DEF ExclusiveInv, Disjoint, DrainExclusive, Merging
<1> QED
    BY <1>1, <1>2, <1>3, PTL DEF Spec
(***************************************************************************)
(* Theorems about the engine whose clients write one at a time, whose      *)
(* merges do not overlap and of which nothing but the WAL fails: whatever  *)
(* the requests and however many, its IDs are the places of its nodes, its *)
(* indices and files agree, and it implements KnowledgeGraph.              *)
(*                                                                         *)
(* The argument: graph, merge under way and delta, read one after the      *)
(* other, are one sequence of nodes in which each has the place its ID     *)
(* says.  Handlers add to its end; drain, merge and swap only move the     *)
(* borders between the three parts, since the remap of merge_into sends    *)
(* each ID to itself.                                                      *)
(***************************************************************************)
Quiet ==
    /\ SerialMerges
    /\ MaxInFlight <= 1
    /\ FaultKinds \subseteq {"wal"}

\* All the engine holds, in the order of its IDs.
AllNodes ==
    IF stage = "exited" THEN disk.nodes ELSE graph.nodes \o UnderWay.nodes \o delta.nodes
AllEdges ==
    IF stage = "exited" THEN disk.edges ELSE graph.edges \o UnderWay.edges \o delta.edges

\* Each node has the place its ID says.
Numbered(ns) == \A i \in DOMAIN ns : ns[i].id = i - 1

\* An ID leads to a node that is the entity e.
Leads(ns, id, e) == id < Len(ns) /\ ns[id + 1].ent = e

\* Edges lead to the entities their requests named.
Joined(es, ns) ==
    \A j \in DOMAIN es : Leads(ns, es[j].from, es[j].src) /\ Leads(ns, es[j].to, es[j].dst)

\* So do the IDs a handler has found so far.
Resolved(w, ns) == \A i \in DOMAIN ids[w] : Leads(ns, ids[w][i], Request[w].ents[i])

\* The files of a snapshot that holds given nodes and edges.  The first edge,
\* the first snapshot's, has no embedding.
EntsOf(ns)  == [i \in DOMAIN ns |-> ns[i].ent]
TextsOf(es) == [j \in 1..(Len(es) - 1) |-> <<es[j + 1].src, es[j + 1].dst>>]
EndsOf(es)  == [j \in 1..(Len(es) - 1) |-> <<es[j + 1].from, es[j + 1].to>>]

Snapshot(ns, es) ==
    [nodes |-> ns, edges |-> es, vecs |-> EntsOf(ns), evecs |-> TextsOf(es), eps |-> EndsOf(es)]

\* The phases of a merge that has written a file.
Saved(file) ==
    CASE file = "nodes" -> NodesSaved
      [] file = "edges" -> EdgesSaved
      [] file = "vecs"  -> VecsSaved
      [] file = "evecs" -> VecsSaved \ {"evecs", "writeEvecs"}
      [] file = "eps"   -> {"truncate", "rebuild", "swap"}

\* The phases in which no file is open.
BeforeFiles == {"idle", "drain", "build"}
AfterFiles  == {"truncate", "rebuild", "swap"}

\* How the phases of a merge follow each other, file by file.
LEMMA SavedPhases ==
    /\ \A f \in Files : \A p \in BeforeFiles : p \notin Saved(f) /\ p # WritingOf(f)
    /\ \A f \in Files : \A p \in AfterFiles : p \in Saved(f) /\ p # WritingOf(f)
    /\ \A f \in Files : f \notin Saved(f) /\ WritingOf(f) \notin Saved(f)
    /\ \A f, g \in Files :
          /\ g # WritingOf(f)
          /\ f # g => WritingOf(g) # WritingOf(f)
          /\ f # g => (WritingOf(g) \in Saved(f) <=> g \in Saved(f))
<1> USE DEF Saved, WritingOf, HasBuilt, NodesSaved, EdgesSaved, VecsSaved, WritePhases
<1>1. \A f \in Files : \A p \in BeforeFiles : p \notin Saved(f) /\ p # WritingOf(f)
    BY DEF Files, BeforeFiles
<1>2. \A f \in Files : \A p \in AfterFiles : p \in Saved(f) /\ p # WritingOf(f)
    BY DEF Files, AfterFiles
<1>3. \A f \in Files : f \notin Saved(f) /\ WritingOf(f) \notin Saved(f)
    BY DEF Files
<1>4. ASSUME NEW f \in Files, NEW g \in Files
      PROVE  /\ g # WritingOf(f)
             /\ f # g => WritingOf(g) # WritingOf(f)
             /\ f # g => (WritingOf(g) \in Saved(f) <=> g \in Saved(f))
    <2>1. CASE f = "nodes"
        BY <2>1 DEF Files
    <2>2. CASE f = "edges"
        BY <2>2 DEF Files
    <2>3. CASE f = "vecs"
        BY <2>3 DEF Files
    <2>4. CASE f = "evecs"
        BY <2>4 DEF Files
    <2>5. CASE f = "eps"
        BY <2>5 DEF Files
    <2> QED
        BY <2>1, <2>2, <2>3, <2>4, <2>5 DEF Files
<1> QED
    BY <1>1, <1>2, <1>3, <1>4

-----------------------------------------------------------------------------
(***************************************************************************)
(* Sequences of nodes and edges.                                           *)
(***************************************************************************)

\* An element put behind two sequences.
LEMMA ConcatAppend ==
    ASSUME NEW S, NEW s \in Seq(S), NEW t \in Seq(S), NEW x \in S
    PROVE  s \o Append(t, x) = Append(s \o t, x)
<1>1. Append(t, x) = t \o <<x>> /\ s \o t \in Seq(S) /\ <<x>> \in Seq(S)
    BY AppendIsConcat, ConcatProperties
<1>2. Append(s \o t, x) = (s \o t) \o <<x>>
    BY <1>1, AppendIsConcat
<1> QED
    BY <1>1, <1>2, ConcatAssociative

\* Concatenation of sequences over a set is associative.
Assoc(S) == \A p, q, r \in Seq(S) : (p \o q) \o r = p \o (q \o r)

\* Nodes, and edges, are put together in any grouping.
LEMMA ConcatGroups ==
    ASSUME NEW S
    PROVE  Assoc(S)
<1>1. SUFFICES ASSUME NEW p \in Seq(S), NEW q \in Seq(S), NEW r \in Seq(S)
               PROVE  (p \o q) \o r = p \o (q \o r)
    BY DEF Assoc
<1> QED
    BY ConcatAssociative, SMTT(30)

\* The elements of a concatenation, by place.
LEMMA ConcatElements ==
    ASSUME NEW S, NEW s \in Seq(S), NEW t \in Seq(S)
    PROVE  /\ s \o t \in Seq(S)
           /\ Len(s) \in Nat /\ Len(t) \in Nat /\ Len(s \o t) = Len(s) + Len(t)
           /\ DOMAIN s = 1..Len(s) /\ DOMAIN t = 1..Len(t)
           /\ DOMAIN (s \o t) = 1..(Len(s) + Len(t))
           /\ \A i \in 1..Len(s) : i \in DOMAIN (s \o t) /\ (s \o t)[i] = s[i]
           /\ \A i \in 1..Len(t) :
                 Len(s) + i \in DOMAIN (s \o t) /\ (s \o t)[Len(s) + i] = t[i]
<1>1. /\ s \o t \in Seq(S) /\ Len(s \o t) = Len(s) + Len(t)
      /\ \A i \in 1..Len(s) + Len(t) :
            (s \o t)[i] = IF i <= Len(s) THEN s[i] ELSE t[i - Len(s)]
    BY ConcatProperties
<1>2. /\ Len(s) \in Nat /\ Len(t) \in Nat /\ DOMAIN s = 1..Len(s) /\ DOMAIN t = 1..Len(t)
      /\ DOMAIN (s \o t) = 1..(Len(s) + Len(t))
    BY <1>1, LenProperties
<1>3. \A i \in 1..Len(s) : i \in 1..(Len(s) + Len(t)) /\ (s \o t)[i] = s[i]
    BY <1>1, <1>2
<1>4. \A i \in 1..Len(t) :
          Len(s) + i \in 1..(Len(s) + Len(t)) /\ (s \o t)[Len(s) + i] = t[i]
    BY <1>1, <1>2
<1> QED
    BY <1>1, <1>2, <1>3, <1>4

\* Numbered sequences: parts, and a node that follows.
LEMMA NumberedConcat ==
    ASSUME NEW s \in Seq(NodeType), NEW t \in Seq(NodeType), Numbered(s \o t)
    PROVE  /\ Numbered(s)
           /\ \A i \in DOMAIN t : t[i].id = (Len(s) + i) - 1
<1>1. \A i \in DOMAIN s : s[i].id = i - 1
    BY ConcatElements DEF Numbered
<1>2. ASSUME NEW i \in DOMAIN t PROVE t[i].id = (Len(s) + i) - 1
    <2>1. Len(s) + i \in DOMAIN (s \o t) /\ (s \o t)[Len(s) + i] = t[i]
        BY ConcatElements
    <2> QED
        BY <2>1 DEF Numbered
<1> QED
    BY <1>1, <1>2 DEF Numbered

LEMMA NumberedAppend ==
    ASSUME NEW s \in Seq(NodeType), NEW n \in NodeType, Numbered(s), n.id = Len(s)
    PROVE  Numbered(Append(s, n))
<1>1. /\ Len(Append(s, n)) = Len(s) + 1
      /\ \A i \in 1..Len(s) : Append(s, n)[i] = s[i]
      /\ Append(s, n)[Len(s) + 1] = n
      /\ Append(s, n) \in Seq(NodeType)
    BY AppendProperties
<1>2. DOMAIN Append(s, n) = 1..(Len(s) + 1) /\ DOMAIN s = 1..Len(s) /\ Len(s) \in Nat
    BY <1>1, LenProperties
<1>3. ASSUME NEW i \in 1..(Len(s) + 1)
      PROVE  Append(s, n)[i].id = i - 1
    <2>1. CASE i \in 1..Len(s)
        BY <2>1, <1>1, <1>2 DEF Numbered
    <2>2. CASE i = Len(s) + 1
        BY <2>2, <1>1, <1>2
    <2> QED
        BY <2>1, <2>2, <1>2
<1> QED
    BY <1>2, <1>3 DEF Numbered

\* An ID that leads somewhere still does when nodes follow.
LEMMA LeadsConcat ==
    ASSUME NEW s \in Seq(NodeType), NEW t \in Seq(NodeType), NEW id \in Nat, NEW e,
           Leads(s, id, e)
    PROVE  Leads(s \o t, id, e)
<1>1. id + 1 \in 1..Len(s)
    BY LenProperties DEF Leads
<1> QED
    BY <1>1, ConcatElements DEF Leads

LEMMA JoinedConcatNodes ==
    ASSUME NEW s \in Seq(NodeType), NEW t \in Seq(NodeType), NEW es \in Seq(EdgeType),
           Joined(es, s)
    PROVE  Joined(es, s \o t)
<1> SUFFICES ASSUME NEW j \in DOMAIN es
             PROVE  /\ Leads(s \o t, es[j].from, es[j].src)
                    /\ Leads(s \o t, es[j].to, es[j].dst)
    BY DEF Joined
<1>1. es[j] \in EdgeType
    BY ElementOfSeq, LenProperties
<1>2. es[j].from \in Nat /\ es[j].to \in Nat
    BY <1>1 DEF EdgeType
<1>3. Leads(s, es[j].from, es[j].src) /\ Leads(s, es[j].to, es[j].dst)
    BY DEF Joined
<1> QED
    BY <1>2, <1>3, LeadsConcat

LEMMA JoinedConcatEdges ==
    ASSUME NEW ns, NEW es \in Seq(EdgeType), NEW fs \in Seq(EdgeType)
    PROVE  Joined(es \o fs, ns) <=> Joined(es, ns) /\ Joined(fs, ns)
<1> DEFINE P(e) == Leads(ns, e.from, e.src) /\ Leads(ns, e.to, e.dst)
<1>1. \A hs : Joined(hs, ns) <=> \A j \in DOMAIN hs : P(hs[j])
    BY DEF Joined
<1> HIDE DEF P
<1>2. /\ DOMAIN es = 1..Len(es) /\ DOMAIN fs = 1..Len(fs)
      /\ DOMAIN (es \o fs) = 1..(Len(es) + Len(fs))
      /\ Len(es) \in Nat /\ Len(fs) \in Nat
      /\ \A i \in 1..Len(es) : i \in DOMAIN (es \o fs) /\ (es \o fs)[i] = es[i]
      /\ \A i \in 1..Len(fs) :
            Len(es) + i \in DOMAIN (es \o fs) /\ (es \o fs)[Len(es) + i] = fs[i]
    BY ConcatElements
<1>3. ASSUME Joined(es \o fs, ns) PROVE Joined(es, ns) /\ Joined(fs, ns)
    BY <1>1, <1>2, <1>3
<1>4. ASSUME Joined(es, ns), Joined(fs, ns) PROVE Joined(es \o fs, ns)
    <2>1. ASSUME NEW i \in DOMAIN (es \o fs) PROVE P((es \o fs)[i])
        <3>1. CASE i \in 1..Len(es)
            BY <1>1, <1>2, <1>4, <3>1
        <3>2. CASE i \notin 1..Len(es)
            <4>1. PICK k \in 1..Len(fs) : i = Len(es) + k
                <5>1. i - Len(es) \in 1..Len(fs) /\ i = Len(es) + (i - Len(es))
                    BY <1>2, <3>2
                <5> QED
                    BY <5>1
            <4> QED
                BY <1>1, <1>2, <1>4, <4>1
        <3> QED
            BY <3>1, <3>2
    <2> QED
        BY <1>1, <2>1
<1> QED
    BY <1>3, <1>4

\* An edge that leads somewhere is in range.
LEMMA JoinedInRange ==
    ASSUME NEW ns, NEW es, Joined(es, ns)
    PROVE  EndsInRange(es, Len(ns))
BY DEF Joined, Leads, EndsInRange

\* The entities of a sequence of nodes, and of two.
LEMMA EntsProperties ==
    ASSUME NEW s \in Seq(NodeType)
    PROVE  /\ EntsOf(s) \in Seq(Entities) /\ Len(EntsOf(s)) = Len(s)
           /\ DOMAIN EntsOf(s) = DOMAIN s
           /\ \A i \in DOMAIN s : EntsOf(s)[i] = s[i].ent
<1>1. DOMAIN s = 1..Len(s) /\ Len(s) \in Nat
    BY LenProperties
<1>2. ASSUME NEW i \in DOMAIN s PROVE s[i].ent \in Entities
    <2>1. s[i] \in NodeType
        BY ElementOfSeq, <1>1
    <2> QED
        BY <2>1 DEF NodeType
<1>3. EntsOf(s) \in [1..Len(s) -> Entities]
    BY <1>1, <1>2 DEF EntsOf
<1>4. EntsOf(s) \in Seq(Entities) /\ Len(EntsOf(s)) = Len(s)
    BY <1>1, <1>3, DefinedSeq
<1> QED
    BY <1>1, <1>4 DEF EntsOf

LEMMA EntsConcat ==
    ASSUME NEW s \in Seq(NodeType), NEW t \in Seq(NodeType)
    PROVE  EntsOf(s \o t) = EntsOf(s) \o EntsOf(t)
<1>1. /\ s \o t \in Seq(NodeType) /\ Len(s \o t) = Len(s) + Len(t)
      /\ Len(s) \in Nat /\ Len(t) \in Nat
      /\ DOMAIN s = 1..Len(s) /\ DOMAIN t = 1..Len(t) /\ DOMAIN (s \o t) = 1..(Len(s) + Len(t))
      /\ \A i \in 1..(Len(s) + Len(t)) : (s \o t)[i] = IF i <= Len(s) THEN s[i] ELSE t[i - Len(s)]
    BY ConcatElements, ConcatProperties
<1>2. /\ EntsOf(s) \in Seq(Entities) /\ Len(EntsOf(s)) = Len(s)
      /\ EntsOf(t) \in Seq(Entities) /\ Len(EntsOf(t)) = Len(t)
      /\ EntsOf(s \o t) \in Seq(Entities) /\ Len(EntsOf(s \o t)) = Len(s) + Len(t)
      /\ \A i \in 1..Len(s) : EntsOf(s)[i] = s[i].ent
      /\ \A i \in 1..Len(t) : EntsOf(t)[i] = t[i].ent
      /\ \A i \in 1..(Len(s) + Len(t)) : EntsOf(s \o t)[i] = (s \o t)[i].ent
    BY <1>1, EntsProperties
<1>3. /\ EntsOf(s) \o EntsOf(t) \in Seq(Entities)
      /\ Len(EntsOf(s) \o EntsOf(t)) = Len(s) + Len(t)
      /\ \A i \in 1..(Len(s) + Len(t)) :
            (EntsOf(s) \o EntsOf(t))[i] =
                IF i <= Len(s) THEN EntsOf(s)[i] ELSE EntsOf(t)[i - Len(s)]
    <2> DEFINE a == EntsOf(s)
               b == EntsOf(t)
    <2>1. a \in Seq(Entities) /\ b \in Seq(Entities) /\ Len(a) = Len(s) /\ Len(b) = Len(t)
        BY <1>2
    <2> HIDE DEF a, b
    <2>2. /\ a \o b \in Seq(Entities) /\ Len(a \o b) = Len(a) + Len(b)
          /\ \A i \in 1..(Len(a) + Len(b)) :
                (a \o b)[i] = IF i <= Len(a) THEN a[i] ELSE b[i - Len(a)]
        BY <2>1, ConcatProperties
    <2> QED
        BY <2>1, <2>2 DEF a, b
<1>4. ASSUME NEW i \in 1..(Len(s) + Len(t))
      PROVE  EntsOf(s \o t)[i] = (EntsOf(s) \o EntsOf(t))[i]
    <2>1. CASE i <= Len(s)
        <3>1. i \in 1..Len(s)
            BY <2>1, <1>1
        <3> QED
            BY <2>1, <3>1, <1>1, <1>2, <1>3
    <2>2. CASE ~ (i <= Len(s))
        <3>1. i - Len(s) \in 1..Len(t)
            BY <2>2, <1>1
        <3> QED
            BY <2>2, <3>1, <1>1, <1>2, <1>3
    <2> QED
        BY <2>1, <2>2
<1> QED
    BY <1>2, <1>3, <1>4, SeqEqual

\* There are as many embedded texts as ends.
LEMMA EdgeFilesTypes ==
    ASSUME NEW s \in Seq(EdgeType), s # <<>>
    PROVE  /\ Len(s) - 1 \in Nat
           /\ TextsOf(s) \in Seq(Entities \X Entities) /\ Len(TextsOf(s)) = Len(s) - 1
           /\ EndsOf(s) \in Seq(Nat \X Nat) /\ Len(EndsOf(s)) = Len(s) - 1
           /\ DOMAIN TextsOf(s) = 1..(Len(s) - 1) /\ DOMAIN EndsOf(s) = 1..(Len(s) - 1)
           /\ TextsOf(s) = <<>> => EndsOf(s) = <<>>
<1> DEFINE n == Len(s) - 1
<1>1. /\ Len(s) \in Nat /\ DOMAIN s = 1..Len(s) /\ Len(s) # 0
      /\ \A i \in 1..Len(s) : s[i] \in EdgeType
    BY ElementOfSeq, LenProperties, EmptySeq
<1>2. n \in Nat /\ \A i \in 1..n : i + 1 \in 1..Len(s)
    BY <1>1
<1>3. TextsOf(s) \in [1..n -> Entities \X Entities] /\ EndsOf(s) \in [1..n -> Nat \X Nat]
    BY <1>1, <1>2 DEF TextsOf, EndsOf, EdgeType
<1> HIDE DEF n
<1>4. TextsOf(s) \in Seq(Entities \X Entities) /\ Len(TextsOf(s)) = n /\ DOMAIN TextsOf(s) = 1..n
    BY <1>2, <1>3, DefinedSeq
<1>5. EndsOf(s) \in Seq(Nat \X Nat) /\ Len(EndsOf(s)) = n /\ DOMAIN EndsOf(s) = 1..n
    BY <1>2, <1>3, DefinedSeq
<1>6. TextsOf(s) = <<>> => EndsOf(s) = <<>>
    BY <1>4, <1>5, EmptySeq
<1> QED
    BY <1>2, <1>4, <1>5, <1>6 DEF n

\* The embedded texts and ends of edges that follow those of a graph.
LEMMA EdgeFilesConcat ==
    ASSUME NEW s \in Seq(EdgeType), NEW t \in Seq(EdgeType), s # <<>>
    PROVE  /\ TextsOf(s \o t) = TextsOf(s) \o [j \in DOMAIN t |-> <<t[j].src, t[j].dst>>]
           /\ EndsOf(s \o t) = EndsOf(s) \o [j \in DOMAIN t |-> <<t[j].from, t[j].to>>]
<1> DEFINE xs == [j \in DOMAIN t |-> <<t[j].src, t[j].dst>>]
           ps == [j \in DOMAIN t |-> <<t[j].from, t[j].to>>]
           n == Len(s) - 1
<1>1. /\ s \o t \in Seq(EdgeType) /\ Len(s \o t) = Len(s) + Len(t)
      /\ Len(s) \in Nat /\ Len(t) \in Nat
      /\ DOMAIN s = 1..Len(s) /\ DOMAIN t = 1..Len(t) /\ DOMAIN (s \o t) = 1..(Len(s) + Len(t))
      /\ \A i \in 1..(Len(s) + Len(t)) : (s \o t)[i] = IF i <= Len(s) THEN s[i] ELSE t[i - Len(s)]
    BY ConcatElements, ConcatProperties
<1>2. n \in Nat /\ Len(s \o t) - 1 = n + Len(t) /\ n + Len(t) \in Nat
    <2>1. Len(s) # 0
        BY EmptySeq
    <2> QED
        BY <1>1, <2>1
<1>3. /\ \A i \in 1..Len(s) : s[i] \in EdgeType
      /\ \A i \in 1..Len(t) : t[i] \in EdgeType
      /\ \A i \in 1..(Len(s) + Len(t)) : (s \o t)[i] \in EdgeType
    BY <1>1, ElementOfSeq
<1>4. /\ \A i \in 1..n : i + 1 \in 1..Len(s)
      /\ \A i \in 1..(n + Len(t)) : i + 1 \in 1..(Len(s) + Len(t))
    BY <1>1, <1>2
<1> DEFINE X == Entities \X Entities
           P == Nat \X Nat
<1>5. /\ TextsOf(s) \in [1..n -> X] /\ EndsOf(s) \in [1..n -> P]
      /\ TextsOf(s \o t) \in [1..(n + Len(t)) -> X] /\ EndsOf(s \o t) \in [1..(n + Len(t)) -> P]
      /\ xs \in [1..Len(t) -> X] /\ ps \in [1..Len(t) -> P]
    BY <1>1, <1>2, <1>3, <1>4 DEF TextsOf, EndsOf, EdgeType
<1>6. /\ \A i \in 1..n : /\ TextsOf(s)[i] = <<s[i + 1].src, s[i + 1].dst>>
                          /\ EndsOf(s)[i] = <<s[i + 1].from, s[i + 1].to>>
      /\ \A i \in 1..(n + Len(t)) :
            /\ TextsOf(s \o t)[i] = <<(s \o t)[i + 1].src, (s \o t)[i + 1].dst>>
            /\ EndsOf(s \o t)[i] = <<(s \o t)[i + 1].from, (s \o t)[i + 1].to>>
      /\ \A i \in 1..Len(t) : xs[i] = <<t[i].src, t[i].dst>> /\ ps[i] = <<t[i].from, t[i].to>>
    BY <1>1, <1>2 DEF TextsOf, EndsOf
<1> HIDE DEF xs, ps, X, P
<1>7. /\ TextsOf(s) \in Seq(X) /\ Len(TextsOf(s)) = n
      /\ EndsOf(s) \in Seq(P) /\ Len(EndsOf(s)) = n
      /\ TextsOf(s \o t) \in Seq(X) /\ Len(TextsOf(s \o t)) = n + Len(t)
      /\ EndsOf(s \o t) \in Seq(P) /\ Len(EndsOf(s \o t)) = n + Len(t)
      /\ xs \in Seq(X) /\ Len(xs) = Len(t)
      /\ ps \in Seq(P) /\ Len(ps) = Len(t)
    <2>1. TextsOf(s) \in Seq(X) /\ Len(TextsOf(s)) = n
        <3>1. n \in Nat /\ TextsOf(s) \in [1..n -> X]
            BY ONLY <1>2, <1>5
        <3> HIDE DEF n
        <3> QED
            BY ONLY <3>1, DefinedSeq
    <2>2. EndsOf(s) \in Seq(P) /\ Len(EndsOf(s)) = n
        <3>1. n \in Nat /\ EndsOf(s) \in [1..n -> P]
            BY ONLY <1>2, <1>5
        <3> HIDE DEF n
        <3> QED
            BY ONLY <3>1, DefinedSeq
    <2>3. TextsOf(s \o t) \in Seq(X) /\ Len(TextsOf(s \o t)) = n + Len(t)
        <3> DEFINE m == n + Len(t)
        <3>1. m \in Nat /\ TextsOf(s \o t) \in [1..m -> X]
            BY ONLY <1>2, <1>5
        <3> HIDE DEF m
        <3>2. TextsOf(s \o t) \in Seq(X) /\ Len(TextsOf(s \o t)) = m
            BY ONLY <3>1, DefinedSeq
        <3> QED
            BY <3>2 DEF m
    <2>4. EndsOf(s \o t) \in Seq(P) /\ Len(EndsOf(s \o t)) = n + Len(t)
        <3> DEFINE m == n + Len(t)
        <3>1. m \in Nat /\ EndsOf(s \o t) \in [1..m -> P]
            BY ONLY <1>2, <1>5
        <3> HIDE DEF m
        <3>2. EndsOf(s \o t) \in Seq(P) /\ Len(EndsOf(s \o t)) = m
            BY ONLY <3>1, DefinedSeq
        <3> QED
            BY <3>2 DEF m
    <2>5. Len(t) \in Nat /\ xs \in [1..Len(t) -> X] /\ ps \in [1..Len(t) -> P]
        BY <1>1, <1>5
    <2>6. xs \in Seq(X) /\ Len(xs) = Len(t) /\ ps \in Seq(P) /\ Len(ps) = Len(t)
        BY ONLY <2>5, DefinedSeq
    <2> QED
        BY <2>1, <2>2, <2>3, <2>4, <2>6
<1>8. /\ TextsOf(s) \o xs \in Seq(X) /\ Len(TextsOf(s) \o xs) = n + Len(t)
      /\ EndsOf(s) \o ps \in Seq(P) /\ Len(EndsOf(s) \o ps) = n + Len(t)
      /\ \A i \in 1..(n + Len(t)) :
            /\ (TextsOf(s) \o xs)[i] = IF i <= n THEN TextsOf(s)[i] ELSE xs[i - n]
            /\ (EndsOf(s) \o ps)[i] = IF i <= n THEN EndsOf(s)[i] ELSE ps[i - n]
    <2> HIDE DEF n
    <2>1. /\ TextsOf(s) \o xs \in Seq(X) /\ Len(TextsOf(s) \o xs) = n + Len(t)
          /\ \A i \in 1..(n + Len(t)) :
                (TextsOf(s) \o xs)[i] = IF i <= n THEN TextsOf(s)[i] ELSE xs[i - n]
        <3>1. TextsOf(s) \in Seq(X) /\ xs \in Seq(X) /\ Len(TextsOf(s)) = n /\ Len(xs) = Len(t)
            BY <1>7
        <3>2. /\ TextsOf(s) \o xs \in Seq(X) /\ Len(TextsOf(s) \o xs) = Len(TextsOf(s)) + Len(xs)
              /\ \A i \in 1..(Len(TextsOf(s)) + Len(xs)) :
                    (TextsOf(s) \o xs)[i] = IF i <= Len(TextsOf(s)) THEN TextsOf(s)[i] ELSE xs[i - Len(TextsOf(s))]
            BY ONLY <3>1, ConcatProperties
        <3> QED
            BY ONLY <3>1, <3>2
    <2>2. /\ EndsOf(s) \o ps \in Seq(P) /\ Len(EndsOf(s) \o ps) = n + Len(t)
          /\ \A i \in 1..(n + Len(t)) :
                (EndsOf(s) \o ps)[i] = IF i <= n THEN EndsOf(s)[i] ELSE ps[i - n]
        <3>1. EndsOf(s) \in Seq(P) /\ ps \in Seq(P) /\ Len(EndsOf(s)) = n /\ Len(ps) = Len(t)
            BY <1>7
        <3>2. /\ EndsOf(s) \o ps \in Seq(P) /\ Len(EndsOf(s) \o ps) = Len(EndsOf(s)) + Len(ps)
              /\ \A i \in 1..(Len(EndsOf(s)) + Len(ps)) :
                    (EndsOf(s) \o ps)[i] = IF i <= Len(EndsOf(s)) THEN EndsOf(s)[i] ELSE ps[i - Len(EndsOf(s))]
            BY ONLY <3>1, ConcatProperties
        <3> QED
            BY ONLY <3>1, <3>2
    <2> QED
        BY <2>1, <2>2
<1>9. ASSUME NEW i \in 1..(n + Len(t))
      PROVE  /\ TextsOf(s \o t)[i] = (TextsOf(s) \o xs)[i]
             /\ EndsOf(s \o t)[i] = (EndsOf(s) \o ps)[i]
    <2>1. CASE i <= n
        <3>1. i \in 1..n /\ (s \o t)[i + 1] = s[i + 1]
            BY <2>1, <1>1, <1>2, <1>4
        <3>2. /\ TextsOf(s \o t)[i] = TextsOf(s)[i] /\ EndsOf(s \o t)[i] = EndsOf(s)[i]
            BY ONLY i \in 1..(n + Len(t)), <3>1, <1>6
        <3>3. /\ (TextsOf(s) \o xs)[i] = TextsOf(s)[i] /\ (EndsOf(s) \o ps)[i] = EndsOf(s)[i]
            BY ONLY i \in 1..(n + Len(t)), <2>1, <1>8
        <3> QED
            BY ONLY <3>2, <3>3
    <2>2. CASE ~ (i <= n)
        <3>1. i - n \in 1..Len(t) /\ (s \o t)[i + 1] = t[i - n]
            <4>1. i + 1 \in 1..(Len(s) + Len(t)) /\ ~ (i + 1 <= Len(s)) /\ (i + 1) - Len(s) = i - n
                BY <2>2, <1>1, <1>2, <1>4
            <4>2. i - n \in 1..Len(t)
                BY <2>2, <1>1, <1>2
            <4> QED
                BY <4>1, <4>2, <1>1
        <3>2. /\ TextsOf(s \o t)[i] = xs[i - n] /\ EndsOf(s \o t)[i] = ps[i - n]
            BY ONLY i \in 1..(n + Len(t)), <3>1, <1>6
        <3>3. /\ (TextsOf(s) \o xs)[i] = xs[i - n] /\ (EndsOf(s) \o ps)[i] = ps[i - n]
            BY ONLY i \in 1..(n + Len(t)), <2>2, <1>8
        <3> QED
            BY ONLY <3>2, <3>3
    <2> QED
        BY <2>1, <2>2
<1>10. TextsOf(s \o t) = TextsOf(s) \o xs
    BY <1>7, <1>8, <1>9, SeqEqual
<1>11. EndsOf(s \o t) = EndsOf(s) \o ps
    BY <1>7, <1>8, <1>9, SeqEqual
<1> QED
    BY <1>10, <1>11 DEF xs, ps

\* The entities that nodes stand for, and what edges say.
Named(ns) == {ns[i].ent : i \in DOMAIN ns}
Said(es)  == {<<es[j].origin, es[j].src, es[j].dst>> : j \in DOMAIN es}

LEMMA NamedConcat ==
    ASSUME NEW s \in Seq(NodeType), NEW t \in Seq(NodeType)
    PROVE  Named(s \o t) = Named(s) \cup Named(t)
<1>1. \A q : Named(q) = {x.ent : x \in Range(q)}
    BY Zenon DEF Named, Range
<1>2. Range(s \o t) = Range(s) \cup Range(t)
    BY RangeConcatenation
<1> QED
    BY <1>1, <1>2

LEMMA SaidConcat ==
    ASSUME NEW s \in Seq(EdgeType), NEW t \in Seq(EdgeType)
    PROVE  Said(s \o t) = Said(s) \cup Said(t)
<1>1. \A q : Said(q) = {<<x.origin, x.src, x.dst>> : x \in Range(q)}
    BY Zenon DEF Said, Range
<1>2. Range(s \o t) = Range(s) \cup Range(t)
    BY RangeConcatenation
<1> QED
    BY <1>1, <1>2

\* Edges that lead to the entities they name relate just those.
LEMMA JoinedFacts ==
    ASSUME NEW ns \in Seq(NodeType), NEW es \in Seq(EdgeType), Joined(es, ns)
    PROVE  Facts(ns, es) = [known |-> Named(ns), related |-> Said(es)]
<1>1. ASSUME NEW j \in DOMAIN es
      PROVE  EntityAt(ns, es[j].from) = {es[j].src} /\ EntityAt(ns, es[j].to) = {es[j].dst}
    BY DEF Joined, Leads, EntityAt
<1> DEFINE R(j) == {<<es[j].origin, s, d>> : s \in EntityAt(ns, es[j].from),
                                             d \in EntityAt(ns, es[j].to)}
           F(j) == <<es[j].origin, es[j].src, es[j].dst>>
<1>2. ASSUME NEW j \in DOMAIN es PROVE R(j) = {F(j)}
    <2>1. ASSUME NEW z PROVE z \in R(j) <=> z = F(j)
        <3>1. z \in R(j) <=> \E s \in EntityAt(ns, es[j].from), d \in EntityAt(ns, es[j].to) :
                                z = <<es[j].origin, s, d>>
            OBVIOUS
        <3> HIDE DEF R
        <3>2. (\E s \in EntityAt(ns, es[j].from), d \in EntityAt(ns, es[j].to) :
                    z = <<es[j].origin, s, d>>) <=> z = F(j)
            BY <1>1
        <3> QED
            BY <3>1, <3>2, Zenon
    <2> HIDE DEF R, F
    <2> QED
        BY <2>1
<1>3. Facts(ns, es) = [known |-> Named(ns), related |-> UNION {R(j) : j \in DOMAIN es}]
    BY DEF Facts, Named
<1>4. Said(es) = {F(j) : j \in DOMAIN es}
    BY Zenon DEF Said
<1> HIDE DEF R, F
<1>5. ASSUME NEW x
      PROVE  x \in UNION {R(j) : j \in DOMAIN es} <=> x \in {F(j) : j \in DOMAIN es}
    BY <1>2
<1>6. UNION {R(j) : j \in DOMAIN es} = {F(j) : j \in DOMAIN es}
    BY <1>5
<1> QED
    BY <1>3, <1>4, <1>6

(***************************************************************************)
(* The pure part of merge_into, where IDs are places.                      *)
(***************************************************************************)

\* The new indices of drained nodes are the IDs they have.
LEMMA RenumberedAsTheyAre ==
    ASSUME NEW s \in Seq(NodeType), NEW t \in Seq(NodeType), Numbered(s \o t)
    PROVE  MergedNodes(s, t) = s \o t
<1> DEFINE new == [i \in DOMAIN t |-> [id     |-> (Len(s) + i) - 1,
                                      ent    |-> t[i].ent,
                                      origin |-> t[i].origin]]
<1>1. \A i \in DOMAIN t : t[i].id = (Len(s) + i) - 1
    BY NumberedConcat
<1>2. \A i \in DOMAIN t : t[i] \in NodeType
    BY ElementOfSeq, LenProperties
<1>3. ASSUME NEW i \in DOMAIN t PROVE new[i] = t[i]
    <2>1. t[i] = [id |-> t[i].id, ent |-> t[i].ent, origin |-> t[i].origin]
        BY <1>2 DEF NodeType
    <2> QED
        BY <1>1, <2>1
<1>4. t \in [1..Len(t) -> NodeType] /\ DOMAIN t = 1..Len(t)
    BY LenProperties
<1>5. new = t
    <2>1. DOMAIN new = DOMAIN t
        OBVIOUS
    <2>2. new = [i \in DOMAIN t |-> new[i]] /\ t = [i \in DOMAIN t |-> t[i]]
        BY <1>4
    <2> HIDE DEF new
    <2> QED
        BY <1>3, <2>1, <2>2
<1> QED
    BY <1>5 DEF MergedNodes

\* The remap of edge ends sends each ID to itself.
LEMMA RemappedAsTheyAre ==
    ASSUME NEW s \in Seq(NodeType), NEW d \in GraphType, Numbered(s \o d.nodes)
    PROVE  RemappedEdges(Len(s), d) = d.edges
<1> DEFINE new == RemappedEdges(Len(s), d)
<1>1. d.nodes \in Seq(NodeType) /\ d.edges \in Seq(EdgeType)
    BY DEF GraphType
<1>2. /\ DOMAIN d.nodes = 1..Len(d.nodes) /\ Len(d.nodes) \in Nat /\ Len(s) \in Nat
      /\ DOMAIN d.edges = 1..Len(d.edges) /\ Len(d.edges) \in Nat
      /\ d.edges \in [1..Len(d.edges) -> EdgeType]
    BY <1>1, LenProperties
<1>3. \A i \in DOMAIN d.nodes : d.nodes[i].id = (Len(s) + i) - 1
    BY <1>1, NumberedConcat
<1>4. ASSUME NEW id \in Nat PROVE RemapId(Len(s), d.nodes, id) = id
    <2> DEFINE hits == {i \in DOMAIN d.nodes : d.nodes[i].id = id}
    <2>1. CASE hits = {}
        BY <2>1 DEF RemapId
    <2>2. CASE hits # {}
        <3>1. hits \subseteq 1..Len(d.nodes)
            BY <1>2
        <3>2. Last(hits) \in hits
            BY <1>2, <2>2, <3>1, LastProperties
        <3>3. (Len(s) + Last(hits)) - 1 = id
            BY <1>3, <3>2
        <3> QED
            BY <2>2, <3>3 DEF RemapId
    <2> QED
        BY <2>1, <2>2
<1>5. ASSUME NEW j \in DOMAIN d.edges PROVE new[j] = d.edges[j]
    <2>1. d.edges[j] \in EdgeType
        BY <1>2
    <2>2. /\ d.edges[j] = [from |-> d.edges[j].from, to |-> d.edges[j].to,
                           src |-> d.edges[j].src, dst |-> d.edges[j].dst,
                           origin |-> d.edges[j].origin]
          /\ d.edges[j].from \in Nat /\ d.edges[j].to \in Nat
        BY <2>1 DEF EdgeType
    <2>3. /\ RemapId(Len(s), d.nodes, d.edges[j].from) = d.edges[j].from
          /\ RemapId(Len(s), d.nodes, d.edges[j].to) = d.edges[j].to
        BY <1>4, <2>2
    <2>4. new[j] = [from   |-> RemapId(Len(s), d.nodes, d.edges[j].from),
                    to     |-> RemapId(Len(s), d.nodes, d.edges[j].to),
                    src    |-> d.edges[j].src,
                    dst    |-> d.edges[j].dst,
                    origin |-> d.edges[j].origin]
        BY DEF RemappedEdges
    <2> QED
        BY <2>2, <2>3, <2>4
<1>6. /\ DOMAIN new = DOMAIN d.edges
      /\ new = [j \in DOMAIN d.edges |-> new[j]]
      /\ d.edges = [j \in DOMAIN d.edges |-> d.edges[j]]
    BY <1>2 DEF RemappedEdges
<1> HIDE DEF new
<1>7. new = d.edges
    BY <1>5, <1>6
<1> QED
    BY <1>7 DEF new

-----------------------------------------------------------------------------
(***************************************************************************)
(* The inductive invariant.                                                *)
(***************************************************************************)
Numbering   == {"resolve", "appendNodes", "pushNodes"}
NodesPushed == {"appendEdges", "pushEdges", "finish", "done"}

\* The process does not fail, and when it stops serving nobody writes and what
\* is in the delta will be drained.
StageInv ==
    /\ stage \in {"up", "closing", "exited"}
    /\ stage # "up" => InFlight = {}
    /\ stage = "closing" => delta = Empty \/ \E m \in Mergers : phase[m] = "drain"

\* Requests are handled one at a time, and none fails.
ClientInv ==
    /\ InFlight = {} \/ \E w \in Writers : InFlight = {w}
    /\ \A w \in Writers :
          /\ pc[w] # "failed"
          /\ pc[w] = "idle" => ids[w] = <<>> /\ toAdd[w] = <<>>

\* The nodes a handler is going to add have the places behind all the others,
\* and every ID it has found leads to the entity it was found for.
NumberOf(w) ==
    /\ pc[w] \in Numbering =>
          /\ nextNodeId = Len(AllNodes) + Len(toAdd[w])
          /\ Numbered(AllNodes \o toAdd[w])
          /\ Resolved(w, AllNodes \o toAdd[w])
          /\ Named(toAdd[w]) \subseteq Promise!EntitiesOf(w)
    /\ pc[w] \in {"appendEdges", "pushEdges"} => Resolved(w, AllNodes)

NumberInv ==
    /\ Numbered(AllNodes)
    /\ (\A w \in Writers : pc[w] \notin Numbering) => nextNodeId = Len(AllNodes)
    /\ \A w \in Writers : NumberOf(w)

\* What a handler has pushed is held ever after.
KeptOf(w) ==
    /\ pc[w] \in NodesPushed => Origins(toAdd[w]) \subseteq Origins(AllNodes)
    /\ pc[w] \in {"finish", "done"} => Origins(EdgesOf(w)) \subseteq Origins(AllEdges)

KeptInv ==
    /\ Joined(AllEdges, AllNodes)
    /\ \A w \in Writers : KeptOf(w)

WriteInv == StageInv /\ ClientInv /\ NumberInv /\ KeptInv

\* A merge builds a snapshot of the graph it started from and what it drained,
\* and that graph is still there.
BuiltIs(m) ==
    /\ built[m].linked
    /\ \A f \in Files :
          built[m][f] = Snapshot(graph.nodes \o drained[m].nodes,
                                 graph.edges \o drained[m].edges)[f]

MergeInv ==
    \A m \in Mergers :
        /\ ~ Up => phase[m] = "idle"
        /\ phase[m] \in {"idle", "drain"} => drained[m] = Empty
        /\ phase[m] # "idle" => base[m] = graph
        /\ Joined(drained[m].edges, graph.nodes \o drained[m].nodes)
        /\ phase[m] \in HasBuilt => BuiltIs(m)
        /\ phase[m] = "swap" => reopened[m] = Len(built[m].vecs)

\* The four indices are those of the graph.
ServedInv ==
    Up => /\ graph.edges # <<>>
          /\ Joined(graph.edges, graph.nodes)
          /\ hnsw = EntsOf(graph.nodes)
          /\ store = Len(graph.nodes)
          /\ edgeHnsw = [evecs |-> TextsOf(graph.edges), eps |-> EndsOf(graph.edges)]

\* Only the file that the merge writes is not whole.  Each other one is the
\* merge's when the merge has written it, else the graph's.
WholeInv ==
    /\ disk.mixed = {}
    /\ \A f \in Files : f \in disk.cut <=> \E m \in Mergers : phase[m] = WritingOf(f)

ContentInv ==
    Up => /\ \A f \in Files :
                /\ \A m \in Mergers : phase[m] \in Saved(f) => disk[f] = built[m][f]
                /\ (\A m \in Mergers : phase[m] \notin Saved(f) /\ phase[m] # WritingOf(f)) =>
                      disk[f] = Snapshot(graph.nodes, graph.edges)[f]
          /\ (\A m \in Mergers : phase[m] \notin {"writeEvecs", "eps"}) =>
                disk.linked \/ disk.evecs = <<>>

DiskInv == WholeInv /\ ContentInv

HoldInv == MergeInv /\ ServedInv /\ DiskInv

QuietInv == WriteInv /\ HoldInv

-----------------------------------------------------------------------------
(***************************************************************************)
(* What the invariant says of the state functions.                         *)
(***************************************************************************)

LEMMA UnderWayType ==
    ASSUME MergerTypeOK
    PROVE  UnderWay \in GraphType
<1>1. CASE Merging = {}
    BY <1>1, EmptyTypes DEF UnderWay
<1>2. CASE Merging # {}
    <2>1. (CHOOSE m \in Merging : TRUE) \in Mergers
        BY <1>2 DEF Merging
    <2> QED
        BY <1>2, <2>1 DEF UnderWay, MergerTypeOK
<1> QED
    BY <1>1, <1>2

LEMMA UnderWayIs ==
    ASSUME SerialMerges, MergeInv, NEW m \in Mergers
    PROVE  UnderWay = drained[m]
<1>1. CASE Merging = {}
    <2>1. phase[m] \in {"idle", "drain"}
        BY <1>1 DEF Merging
    <2> QED
        BY <1>1, <2>1 DEF UnderWay, MergeInv
<1>2. CASE Merging # {}
    <2>1. (CHOOSE n \in Merging : TRUE) = m
        BY <1>2 DEF Merging, SerialMerges
    <2> QED
        BY <1>2, <2>1 DEF UnderWay
<1> QED
    BY <1>1, <1>2

\* All that is held, part by part.
LEMMA AllTypes ==
    ASSUME TypeOK
    PROVE  /\ graph.nodes \in Seq(NodeType) /\ graph.edges \in Seq(EdgeType)
           /\ UnderWay.nodes \in Seq(NodeType) /\ UnderWay.edges \in Seq(EdgeType)
           /\ delta.nodes \in Seq(NodeType) /\ delta.edges \in Seq(EdgeType)
           /\ disk.nodes \in Seq(NodeType) /\ disk.edges \in Seq(EdgeType)
           /\ graph.nodes \o UnderWay.nodes \in Seq(NodeType)
           /\ graph.edges \o UnderWay.edges \in Seq(EdgeType)
           /\ AllNodes \in Seq(NodeType) /\ AllEdges \in Seq(EdgeType)
           /\ Len(AllNodes) \in Nat /\ Len(AllEdges) \in Nat
<1>1. UnderWay \in GraphType
    BY UnderWayType DEF TypeOK
<1>2. /\ graph.nodes \in Seq(NodeType) /\ graph.edges \in Seq(EdgeType)
      /\ UnderWay.nodes \in Seq(NodeType) /\ UnderWay.edges \in Seq(EdgeType)
      /\ delta.nodes \in Seq(NodeType) /\ delta.edges \in Seq(EdgeType)
      /\ disk.nodes \in Seq(NodeType) /\ disk.edges \in Seq(EdgeType)
    BY <1>1 DEF TypeOK, DeltaTypeOK, IndexTypeOK, GraphType, SnapshotType
<1>3. /\ graph.nodes \o UnderWay.nodes \in Seq(NodeType)
      /\ graph.edges \o UnderWay.edges \in Seq(EdgeType)
    BY <1>2, ConcatProperties
<1>4. /\ graph.nodes \o UnderWay.nodes \o delta.nodes \in Seq(NodeType)
      /\ graph.edges \o UnderWay.edges \o delta.edges \in Seq(EdgeType)
    BY <1>2, <1>3, ConcatProperties
<1>5. AllNodes \in Seq(NodeType) /\ AllEdges \in Seq(EdgeType)
    BY <1>2, <1>4 DEF AllNodes, AllEdges
<1> QED
    BY <1>2, <1>3, <1>5, LenProperties

\* An ID that a sequence of numbered nodes has for an entity leads to it.
LEMMA MatchesLead ==
    ASSUME NEW s \in Seq(NodeType), NEW t \in Seq(NodeType), Numbered(s \o t),
           NEW e, NEW id \in Matches(t, e)
    PROVE  id \in Nat /\ Leads(s \o t, id, e)
<1>1. PICK i \in DOMAIN t : t[i].ent = e /\ t[i].id = id
    BY DEF Matches
<1>2. id = (Len(s) + i) - 1
    BY <1>1, NumberedConcat
<1>3. /\ i \in 1..Len(t) /\ Len(s) \in Nat /\ Len(t) \in Nat
      /\ Len(s \o t) = Len(s) + Len(t) /\ (s \o t)[Len(s) + i] = t[i]
    BY ConcatElements
<1>4. id \in Nat /\ id < Len(s \o t) /\ id + 1 = Len(s) + i
    BY <1>2, <1>3
<1> QED
    BY <1>1, <1>3, <1>4 DEF Leads

\* Whatever a handler resolves an entity to is a node of that entity.
LEMMA ResolvesLead ==
    ASSUME TypeOK, QuietInv, NEW w \in Writers, pc[w] = "resolve",
           NEW e, NEW id \in ResolvesTo(w, e)
    PROVE  id \in Nat /\ Leads(AllNodes \o toAdd[w], id, e)
<1>1. toAdd[w] \in Seq(NodeType)
    BY DEF TypeOK, WriterTypeOK
<1>2. Numbered(AllNodes \o toAdd[w]) /\ Numbered(AllNodes)
    BY DEF QuietInv, WriteInv, NumberInv, NumberOf, Numbering
<1>3. stage = "up"
    BY DEF QuietInv, WriteInv, StageInv, InFlight
<1>4. AllNodes = graph.nodes \o UnderWay.nodes \o delta.nodes
    BY <1>3 DEF AllNodes
<1> DEFINE gu == graph.nodes \o UnderWay.nodes
<1>5. /\ graph.nodes \in Seq(NodeType) /\ UnderWay.nodes \in Seq(NodeType)
      /\ delta.nodes \in Seq(NodeType) /\ gu \in Seq(NodeType) /\ AllNodes \in Seq(NodeType)
    BY AllTypes
<1>6. CASE id \in GraphMatches(e)
    <2>1. PICK i \in DOMAIN hnsw : hnsw[i] = e /\ id = i - 1
        BY <1>6 DEF GraphMatches
    <2>2. hnsw = EntsOf(graph.nodes)
        BY <1>3 DEF QuietInv, HoldInv, ServedInv, Up
    <2>3. i \in 1..Len(graph.nodes) /\ graph.nodes[i].ent = e /\ Len(graph.nodes) \in Nat
        BY <1>5, <2>1, <2>2, EntsProperties, LenProperties
    <2>4. id \in Nat /\ Leads(graph.nodes, id, e)
        BY <2>1, <2>3 DEF Leads
    <2>5. Leads(gu, id, e)
        BY <1>5, <2>4, LeadsConcat
    <2> HIDE DEF gu
    <2>6. Leads(gu \o delta.nodes, id, e)
        BY <1>5, <2>4, <2>5, LeadsConcat
    <2> QED
        BY <1>1, <1>4, <1>5, <2>4, <2>6, LeadsConcat DEF gu
<1>7. CASE id \in Matches(delta.nodes, e)
    <2> HIDE DEF gu
    <2>1. Numbered(gu \o delta.nodes)
        BY <1>2, <1>4 DEF gu
    <2>2. id \in Nat /\ Leads(gu \o delta.nodes, id, e)
        BY <1>5, <1>7, <2>1, MatchesLead
    <2> QED
        BY <1>1, <1>4, <1>5, <2>2, LeadsConcat DEF gu
<1>8. CASE id \in Matches(toAdd[w], e)
    BY <1>1, <1>2, <1>5, <1>8, MatchesLead
<1> QED
    BY <1>6, <1>7, <1>8 DEF ResolvesTo

-----------------------------------------------------------------------------
(***************************************************************************)
(* The steps of ingest handlers.                                           *)
(***************************************************************************)

\* A handler at work is the only one.
LEMMA Alone ==
    ASSUME TypeOK, WriteInv, NEW w \in Writers, w \in InFlight
    PROVE  /\ stage = "up"
           /\ InFlight = {w}
           /\ \A v \in Writers : v # w => pc[v] \in {"idle", "done"}
<1>1. InFlight = {w}
    BY DEF WriteInv, ClientInv
<1>2. stage = "up"
    BY <1>1 DEF WriteInv, StageInv
<1>3. ASSUME NEW v \in Writers, v # w PROVE pc[v] \in {"idle", "done"}
    <2>1. v \notin InFlight
        BY <1>1, <1>3
    <2> QED
        BY <2>1 DEF InFlight, WriteInv, ClientInv
<1> QED
    BY <1>1, <1>2, <1>3

\* What is held depends on graph, merge, delta and, after the exit, the files.
LEMMA SameUnderWay ==
    ASSUME UNCHANGED <<phase, drained>>
    PROVE  UnderWay' = UnderWay /\ Merging' = Merging
BY DEF UnderWay, Merging

LEMMA SameHeld ==
    ASSUME UNCHANGED <<stage, graph, delta, disk, phase, drained>>
    PROVE  AllNodes' = AllNodes /\ AllEdges' = AllEdges
BY SameUnderWay DEF AllNodes, AllEdges

\* The handlers that do not move keep what the invariant says of them, as long
\* as nothing that is held is lost.
LEMMA WriterMoves ==
    ASSUME TypeOK, WriteInv, NEW w \in Writers,
           stage' = "up",
           \A v \in Writers : v # w =>
              pc[v] \in {"idle", "done"} /\ pc'[v] = pc[v] /\ ids'[v] = ids[v] /\ toAdd'[v] = toAdd[v],
           pc'[w] \notin {"idle", "failed"},
           Origins(AllNodes) \subseteq Origins(AllNodes'),
           Origins(AllEdges) \subseteq Origins(AllEdges'),
           Numbered(AllNodes'),
           Joined(AllEdges', AllNodes'),
           pc'[w] \notin Numbering => nextNodeId' = Len(AllNodes'),
           NumberOf(w)', KeptOf(w)'
    PROVE  WriteInv'
<1>1. StageInv'
    BY DEF StageInv
<1>2. ClientInv'
    <2>1. \A v \in Writers : v # w => v \notin InFlight'
        BY DEF InFlight
    <2>2. InFlight' = {} \/ InFlight' = {w}
        BY <2>1 DEF InFlight
    <2>3. \A v \in Writers : /\ pc'[v] # "failed"
                             /\ pc'[v] = "idle" => ids'[v] = <<>> /\ toAdd'[v] = <<>>
        BY DEF WriteInv, ClientInv
    <2> QED
        BY <2>2, <2>3 DEF ClientInv
<1>3. NumberInv'
    <2>1. ASSUME NEW v \in Writers PROVE NumberOf(v)'
        <3>1. CASE v = w
            BY <3>1
        <3>2. CASE v # w
            <4>1. pc'[v] \in {"idle", "done"}
                BY <3>2
            <4> QED
                BY <4>1 DEF NumberOf, Numbering
        <3> QED
            BY <3>1, <3>2
    <2> QED
        BY <2>1 DEF NumberInv
<1>4. KeptInv'
    <2>1. ASSUME NEW v \in Writers PROVE KeptOf(v)'
        <3>1. CASE v = w
            BY <3>1
        <3>2. CASE v # w
            <4>1. /\ pc'[v] = pc[v] /\ toAdd'[v] = toAdd[v] /\ ids'[v] = ids[v]
                BY <3>2
            <4>2. EdgesOf(v)' = EdgesOf(v)
                BY <4>1 DEF EdgesOf
            <4>3. KeptOf(v)
                BY DEF WriteInv, KeptInv
            <4> QED
                BY <4>1, <4>2, <4>3 DEF KeptOf
        <3> QED
            BY <3>1, <3>2
    <2> QED
        BY <2>1 DEF KeptInv
<1> QED
    BY <1>1, <1>2, <1>3, <1>4 DEF WriteInv

\* With at most one request in flight, one that begins finds nobody at work.
LEMMA QuietBegin ==
    ASSUME Quiet, TypeOK, WriteInv, NEW w \in Writers, Begin(w)
    PROVE  WriteInv'
<1>1. InFlight = {}
    <2>1. Cardinality(InFlight) < MaxInFlight /\ MaxInFlight <= 1 /\ MaxInFlight \in Nat
        BY BoundsAssumption DEF Begin, Quiet
    <2>2. ASSUME NEW v \in Writers, InFlight = {v} PROVE FALSE
        <3>1. Cardinality(InFlight) = 1
            BY <2>2, FS_Singleton
        <3> QED
            BY <2>1, <3>1
    <2> QED
        BY <2>2 DEF WriteInv, ClientInv
<1>2. ASSUME NEW v \in Writers PROVE pc[v] \in {"idle", "done"}
    BY <1>1 DEF InFlight, WriteInv, ClientInv
<1>3. AllNodes' = AllNodes /\ AllEdges' = AllEdges
    BY SameHeld DEF Begin, indexVars, mergeVars
<1>4. /\ stage' = "up" /\ pc' = [pc EXCEPT ![w] = "resolve"] /\ pc[w] = "idle"
      /\ UNCHANGED <<ids, toAdd, nextNodeId>>
    BY DEF Begin
<1>5. pc'[w] = "resolve" /\ \A v \in Writers : v # w => pc'[v] = pc[v]
    BY <1>4 DEF TypeOK, WriterTypeOK
<1>6. ids[w] = <<>> /\ toAdd[w] = <<>>
    BY <1>4 DEF WriteInv, ClientInv
<1>7. AllNodes \o <<>> = AllNodes
    BY AllTypes, ConcatEmptySeq
<1>8. nextNodeId = Len(AllNodes) /\ Numbered(AllNodes) /\ Joined(AllEdges, AllNodes)
    BY <1>2 DEF WriteInv, NumberInv, KeptInv, Numbering
<1>9. NumberOf(w)'
    <2>1. Len(AllNodes) \in Nat
        BY AllTypes
    <2>2. nextNodeId' = Len(AllNodes') + Len(toAdd'[w])
        BY <1>3, <1>4, <1>6, <1>8, <2>1
    <2>3. Resolved(w, AllNodes \o toAdd[w])'
        BY <1>4, <1>6 DEF Resolved
    <2>4. Named(toAdd'[w]) = {}
        BY <1>4, <1>6 DEF Named
    <2> QED
        BY <1>3, <1>4, <1>5, <1>6, <1>7, <1>8, <2>2, <2>3, <2>4 DEF NumberOf
<1>10. KeptOf(w)'
    BY <1>5 DEF KeptOf, NodesPushed
<1> QED
    BY <1>2, <1>3, <1>4, <1>5, <1>8, <1>9, <1>10, WriterMoves DEF Numbering

\* The next entity is one of the request's.
LEMMA NextEntIs ==
    ASSUME TypeOK, NEW w \in Writers, Resolving(w)
    PROVE  /\ Len(ids[w]) + 1 \in DOMAIN Request[w].ents
           /\ NextEnt(w) = Request[w].ents[Len(ids[w]) + 1]
           /\ NextEnt(w) \in Promise!EntitiesOf(w)
<1>1. Len(ids[w]) \in Nat /\ Len(Request[w].ents) \in Nat
      /\ DOMAIN Request[w].ents = 1..Len(Request[w].ents)
    BY RequestFacts, LenProperties DEF TypeOK, WriterTypeOK
<1>2. Len(ids[w]) + 1 \in DOMAIN Request[w].ents
    BY <1>1 DEF Resolving
<1> QED
    BY <1>2 DEF NextEnt, Promise!EntitiesOf

\* One more ID found.
LEMMA ResolvedAppend ==
    ASSUME NEW w \in Writers, NEW s \in Seq(NodeType), NEW t \in Seq(NodeType),
           ids \in [Writers -> Seq(Nat)], Resolved(w, s),
           NEW id \in Nat, Leads(s \o t, id, Request[w].ents[Len(ids[w]) + 1]),
           ids' = [ids EXCEPT ![w] = Append(@, id)]
    PROVE  \A i \in DOMAIN ids'[w] : Leads(s \o t, ids'[w][i], Request[w].ents[i])
<1>1. ids[w] \in Seq(Nat) /\ ids'[w] = Append(ids[w], id)
    OBVIOUS
<1>2. /\ Len(ids'[w]) = Len(ids[w]) + 1 /\ Len(ids[w]) \in Nat
      /\ DOMAIN ids[w] = 1..Len(ids[w]) /\ DOMAIN ids'[w] = 1..(Len(ids[w]) + 1)
      /\ \A i \in 1..Len(ids[w]) : ids'[w][i] = ids[w][i]
      /\ ids'[w][Len(ids[w]) + 1] = id
    BY <1>1, AppendProperties, LenProperties
<1>3. ASSUME NEW i \in 1..Len(ids[w])
      PROVE  Leads(s \o t, ids'[w][i], Request[w].ents[i])
    <2>1. ids[w][i] \in Nat
        BY <1>1, <1>2, ElementOfSeq
    <2>2. Leads(s, ids[w][i], Request[w].ents[i])
        BY <1>2 DEF Resolved
    <2> QED
        BY <1>2, <2>1, <2>2, LeadsConcat
<1>4. Leads(s \o t, ids'[w][Len(ids[w]) + 1], Request[w].ents[Len(ids[w]) + 1])
    BY <1>2
<1>5. \A i \in 1..(Len(ids[w]) + 1) : i \in 1..Len(ids[w]) \/ i = Len(ids[w]) + 1
    BY <1>2
<1> QED
    BY <1>2, <1>3, <1>4, <1>5

\* The handler reuses an ID.
LEMMA QuietResolveExisting ==
    ASSUME TypeOK, QuietInv, NEW w \in Writers, ResolveExisting(w)
    PROVE  WriteInv'
<1>1. pc[w] = "resolve" /\ w \in InFlight
    BY DEF ResolveExisting, Resolving, InFlight
<1>2. /\ stage = "up"
      /\ \A v \in Writers : v # w => pc[v] \in {"idle", "done"}
    BY <1>1, Alone DEF QuietInv
<1>3. AllNodes' = AllNodes /\ AllEdges' = AllEdges
    BY SameHeld DEF ResolveExisting, indexVars, mergeVars
<1>4. UNCHANGED <<stage, pc, toAdd, nextNodeId>>
    BY DEF ResolveExisting
<1>5. PICK id \in ResolvesTo(w, NextEnt(w)) : ids' = [ids EXCEPT ![w] = Append(@, id)]
    BY DEF ResolveExisting
<1> DEFINE s == AllNodes \o toAdd[w]
<1>6. id \in Nat /\ Leads(s, id, Request[w].ents[Len(ids[w]) + 1])
    BY <1>1, ResolvesLead, NextEntIs DEF ResolveExisting
<1>7. s \in Seq(NodeType) /\ <<>> \in Seq(NodeType) /\ s \o <<>> = s
    BY AllTypes, ConcatProperties, ConcatEmptySeq DEF TypeOK, WriterTypeOK
<1>8. NumberOf(w)
    BY DEF QuietInv, WriteInv, NumberInv
<1>9. Resolved(w, s)'
    <2>1. ids \in [Writers -> Seq(Nat)]
        BY DEF TypeOK, WriterTypeOK
    <2>2. Resolved(w, s)
        BY <1>1, <1>8 DEF NumberOf, Numbering
    <2> HIDE DEF s
    <2>5. Leads(s \o <<>>, id, Request[w].ents[Len(ids[w]) + 1])
        BY ONLY <1>6, <1>7
    <2>6. \A i \in DOMAIN ids'[w] : Leads(s \o <<>>, ids'[w][i], Request[w].ents[i])
        BY ONLY w \in Writers, <1>5, <1>6, <1>7, <2>1, <2>2, <2>5, ResolvedAppend
    <2>3. \A i \in DOMAIN ids'[w] : Leads(s, ids'[w][i], Request[w].ents[i])
        BY ONLY <1>7, <2>6
    <2>4. s' = s
        BY <1>3, <1>4 DEF s
    <2> QED
        BY <2>3, <2>4 DEF Resolved
<1>10. NumberOf(w)'
    BY <1>1, <1>3, <1>4, <1>8, <1>9 DEF NumberOf, Numbering
<1>11. KeptOf(w)'
    BY <1>1, <1>4 DEF KeptOf, NodesPushed
<1>12. Numbered(AllNodes) /\ Joined(AllEdges, AllNodes)
    BY DEF QuietInv, WriteInv, NumberInv, KeptInv
<1>13. \A v \in Writers : v # w => ids'[v] = ids[v]
    BY <1>5
<1> QED
    BY <1>1, <1>2, <1>3, <1>4, <1>10, <1>11, <1>12, <1>13, WriterMoves DEF QuietInv, Numbering

\* The handler numbers a new node with the place it will have.
LEMMA QuietResolveNew ==
    ASSUME TypeOK, QuietInv, NEW w \in Writers, ResolveNew(w)
    PROVE  WriteInv'
<1>1. pc[w] = "resolve" /\ w \in InFlight /\ Resolving(w)
    BY DEF ResolveNew, Resolving, InFlight
<1>2. /\ stage = "up"
      /\ \A v \in Writers : v # w => pc[v] \in {"idle", "done"}
    BY <1>1, Alone DEF QuietInv
<1>3. AllNodes' = AllNodes /\ AllEdges' = AllEdges
    BY SameHeld DEF ResolveNew, indexVars, mergeVars
<1> DEFINE n == [id |-> nextNodeId, ent |-> NextEnt(w), origin |-> <<w, Len(ids[w]) + 1>>]
           s == AllNodes \o toAdd[w]
<1>4. /\ UNCHANGED <<stage, pc>> /\ nextNodeId' = nextNodeId + 1
      /\ ids' = [ids EXCEPT ![w] = Append(@, nextNodeId)]
      /\ toAdd' = [toAdd EXCEPT ![w] = Append(@, n)]
    BY DEF ResolveNew, AllocNodeId
<1>5. /\ nextNodeId \in Nat /\ toAdd[w] \in Seq(NodeType) /\ Len(toAdd[w]) \in Nat
      /\ ids \in [Writers -> Seq(Nat)] /\ toAdd \in [Writers -> Seq(NodeType)]
      /\ AllNodes \in Seq(NodeType) /\ Len(AllNodes) \in Nat
    BY AllTypes, LenProperties DEF TypeOK, WriterTypeOK, DeltaTypeOK
<1>6. n \in NodeType
    <2>1. NextEnt(w) \in Entities
        BY <1>1, NextEntIs, RequestFacts, ElementOfSeq, LenProperties
    <2>2. <<w, Len(ids[w]) + 1>> \in Origin
        BY <1>5, LenProperties DEF Origin
    <2> QED
        BY <1>5, <2>1, <2>2 DEF NodeType
<1>7. s \in Seq(NodeType) /\ Len(s) = Len(AllNodes) + Len(toAdd[w])
    BY <1>5, ConcatProperties
<1>8. toAdd'[w] = Append(toAdd[w], n) /\ Len(toAdd'[w]) = Len(toAdd[w]) + 1
    <2>1. toAdd'[w] = Append(toAdd[w], n)
        BY <1>4, <1>5
    <2> HIDE DEF n
    <2> QED
        BY <1>5, <1>6, <2>1, AppendProperties
<1>9. /\ nextNodeId = Len(s) /\ Numbered(s) /\ Resolved(w, s)
      /\ Named(toAdd[w]) \subseteq Promise!EntitiesOf(w)
    BY <1>1, <1>7 DEF QuietInv, WriteInv, NumberInv, NumberOf, Numbering
<1> HIDE DEF n
<1>10. AllNodes \o toAdd'[w] = Append(s, n) /\ Append(s, n) = s \o <<n>> /\ <<n>> \in Seq(NodeType)
    <2>1. <<n>> \in Seq(NodeType)
        BY <1>6
    <2>2. AllNodes \o toAdd'[w] = Append(s, n)
        BY <1>5, <1>6, <1>8, ConcatAppend
    <2>3. Append(s, n) = s \o <<n>>
        BY ONLY <1>6, <1>7, AppendIsConcat
    <2> QED
        BY <2>1, <2>2, <2>3
<1>11. Numbered(Append(s, n))
    BY <1>6, <1>7, <1>9, NumberedAppend DEF n
<1>12. Resolved(w, AllNodes \o toAdd[w])'
    <2>1. Leads(s \o <<n>>, nextNodeId, Request[w].ents[Len(ids[w]) + 1])
        <3>1. Append(s, n)[Len(s) + 1] = n /\ Len(Append(s, n)) = Len(s) + 1
            BY <1>6, <1>7, AppendProperties
        <3>2. n.ent = Request[w].ents[Len(ids[w]) + 1]
            BY <1>1, NextEntIs DEF n
        <3> QED
            BY <1>5, <1>9, <1>10, <3>1, <3>2 DEF Leads
    <2> HIDE DEF s
    <2>2. \A i \in DOMAIN ids'[w] : Leads(s \o <<n>>, ids'[w][i], Request[w].ents[i])
        BY <1>4, <1>5, <1>7, <1>9, <1>10, <2>1, ResolvedAppend
    <2> QED
        BY <1>3, <1>10, <2>2 DEF Resolved
<1>13. Named(toAdd'[w]) \subseteq Promise!EntitiesOf(w)
    <2>1. toAdd'[w] = toAdd[w] \o <<n>>
        BY <1>5, <1>6, <1>8, AppendIsConcat
    <2>2. Named(toAdd'[w]) = Named(toAdd[w]) \cup Named(<<n>>)
        BY <1>5, <1>10, <2>1, NamedConcat
    <2>3. Named(<<n>>) = {NextEnt(w)}
        BY DEF Named, n
    <2> QED
        BY <1>1, <1>9, <2>2, <2>3, NextEntIs
<1>14. NumberOf(w)'
    <2>1. nextNodeId' = Len(AllNodes') + Len(toAdd'[w])
        BY <1>3, <1>4, <1>5, <1>7, <1>8, <1>9
    <2>2. Numbered(AllNodes' \o toAdd'[w])
        BY <1>3, <1>10, <1>11
    <2> HIDE DEF s
    <2> QED
        BY <1>1, <1>4, <1>12, <1>13, <2>1, <2>2 DEF NumberOf
<1>15. KeptOf(w)'
    BY <1>1, <1>4 DEF KeptOf, NodesPushed
<1>16. Numbered(AllNodes) /\ Joined(AllEdges, AllNodes)
    BY DEF QuietInv, WriteInv, NumberInv, KeptInv
<1>17. \A v \in Writers : v # w => ids'[v] = ids[v] /\ toAdd'[v] = toAdd[v]
    BY <1>4
<1> QED
    BY <1>1, <1>2, <1>3, <1>4, <1>14, <1>15, <1>16, <1>17, WriterMoves DEF QuietInv, Numbering

\* No match of the HNSW lies beyond the graph.
LEMMA NoMatchBeyond ==
    ASSUME TypeOK, QuietInv, NEW w \in Writers
    PROVE  ~ ResolvePanics(w)
<1> SUFFICES ASSUME ResolvePanics(w) PROVE FALSE
    OBVIOUS
<1>1. pc[w] = "resolve" /\ w \in InFlight /\ MatchIsNoNode(w)
    BY DEF ResolvePanics, Resolving, InFlight
<1>2. hnsw = EntsOf(graph.nodes)
    BY <1>1, Alone DEF QuietInv, HoldInv, ServedInv, Up
<1>3. DOMAIN hnsw = 1..Len(graph.nodes) /\ Len(graph.nodes) \in Nat
    BY <1>2, AllTypes, EntsProperties, LenProperties
<1>4. PICK id \in GraphMatches(NextEnt(w)) : id >= Len(graph.nodes)
    BY <1>1 DEF MatchIsNoNode
<1>5. PICK i \in DOMAIN hnsw : id = i - 1
    BY DEF GraphMatches
<1> QED
    BY <1>3, <1>4, <1>5

\* Locks dropped, lines written to the WAL, the answer sent: what is held and
\* what the handler knows is the same before and after.
LEMMA QuietSilent ==
    ASSUME TypeOK, QuietInv, NEW w \in Writers,
           ResolveDone(w) \/ WriteNodesWal(w) \/ WriteEdgesWal(w) \/ Finish(w)
    PROVE  WriteInv' /\ AllNodes' = AllNodes /\ AllEdges' = AllEdges
<1>1. /\ pc \in [Writers -> Pcs] /\ w \in InFlight
      /\ UNCHANGED <<stage, graph, delta, disk, phase, drained, ids, toAdd, nextNodeId>>
      /\ \/ pc[w] = "resolve" /\ pc' = [pc EXCEPT ![w] = "appendNodes"]
         \/ pc[w] = "appendNodes" /\ pc' = [pc EXCEPT ![w] = "pushNodes"]
         \/ pc[w] = "appendEdges" /\ pc' = [pc EXCEPT ![w] = "pushEdges"]
         \/ pc[w] = "finish" /\ pc' = [pc EXCEPT ![w] = "done"]
    BY DEF ResolveDone, WriteNodesWal, WriteEdgesWal, Finish, TypeOK, WriterTypeOK,
           indexVars, mergeVars, InFlight
<1>2. /\ stage = "up"
      /\ \A v \in Writers : v # w => pc[v] \in {"idle", "done"} /\ pc'[v] = pc[v]
    BY <1>1, Alone DEF QuietInv
<1>3. AllNodes' = AllNodes /\ AllEdges' = AllEdges
    BY <1>1, SameHeld
<1>4. pc'[w] \in {"appendNodes", "pushNodes", "pushEdges", "done"}
    BY <1>1
<1>5. Numbered(AllNodes) /\ Joined(AllEdges, AllNodes) /\ NumberOf(w) /\ KeptOf(w)
    BY DEF QuietInv, WriteInv, NumberInv, KeptInv
<1>6. EdgesOf(w)' = EdgesOf(w)
    BY <1>1 DEF EdgesOf
<1>7. NumberOf(w)'
    <2>1. /\ Resolved(w, AllNodes)' <=> Resolved(w, AllNodes)
          /\ Resolved(w, AllNodes \o toAdd[w])' <=> Resolved(w, AllNodes \o toAdd[w])
        BY <1>1, <1>3 DEF Resolved
    <2> QED
        BY <1>1, <1>3, <1>5, <2>1 DEF NumberOf, Numbering
<1>8. KeptOf(w)'
    BY <1>1, <1>3, <1>5, <1>6 DEF KeptOf, NodesPushed
<1>9. pc'[w] \notin Numbering => nextNodeId' = Len(AllNodes')
    <2>1. CASE pc[w] \in Numbering
        BY <1>1, <2>1 DEF Numbering
    <2>2. CASE pc[w] \notin Numbering
        <3>1. \A v \in Writers : pc[v] \notin Numbering
            BY <1>2, <2>2 DEF Numbering
        <3> QED
            BY <1>1, <1>3, <3>1 DEF QuietInv, WriteInv, NumberInv
    <2> QED
        BY <2>1, <2>2
<1> QED
    BY <1>1, <1>2, <1>3, <1>4, <1>5, <1>7, <1>8, <1>9, WriterMoves DEF QuietInv

\* The nodes of a request go behind all the others.
LEMMA QuietAddNodes ==
    ASSUME TypeOK, QuietInv, NEW w \in Writers, AddNodes(w)
    PROVE  /\ WriteInv'
           /\ AllNodes' = AllNodes \o toAdd[w] /\ AllEdges' = AllEdges
<1>1. /\ pc[w] = "pushNodes" /\ w \in InFlight
      /\ pc' = [pc EXCEPT ![w] = "appendEdges"]
      /\ delta' = [delta EXCEPT !.nodes = @ \o toAdd[w]]
      /\ UNCHANGED <<stage, graph, disk, phase, drained, ids, toAdd, nextNodeId>>
    BY DEF AddNodes, PushNodes, InFlight, indexVars, mergeVars
<1>2. /\ stage = "up"
      /\ \A v \in Writers : v # w => pc[v] \in {"idle", "done"}
    BY <1>1, Alone DEF QuietInv
<1>3. /\ pc'[w] = "appendEdges" /\ \A v \in Writers : v # w => pc'[v] = pc[v]
      /\ toAdd[w] \in Seq(NodeType) /\ delta \in GraphType
    BY <1>1 DEF TypeOK, WriterTypeOK, DeltaTypeOK
<1>4. delta'.nodes = delta.nodes \o toAdd[w] /\ delta'.edges = delta.edges
    BY <1>1, <1>3 DEF GraphType
<1>5. UnderWay' = UnderWay
    BY <1>1, SameUnderWay
<1>6. /\ AllNodes = graph.nodes \o UnderWay.nodes \o delta.nodes
      /\ AllNodes' = graph.nodes \o UnderWay.nodes \o (delta.nodes \o toAdd[w])
    BY <1>1, <1>2, <1>4, <1>5 DEF AllNodes
<1>7. AllNodes' = AllNodes \o toAdd[w]
    <2> DEFINE gu == graph.nodes \o UnderWay.nodes
    <2>1. gu \in Seq(NodeType) /\ delta.nodes \in Seq(NodeType)
        BY AllTypes
    <2>2. AllNodes = gu \o delta.nodes /\ AllNodes' = gu \o (delta.nodes \o toAdd[w])
        BY <1>6
    <2> HIDE DEF gu
    <2>3. toAdd[w] \in Seq(NodeType)
        BY <1>3
    <2>4. Assoc(NodeType)
        BY ONLY ConcatGroups
    <2>5. (gu \o delta.nodes) \o toAdd[w] = gu \o (delta.nodes \o toAdd[w])
        BY ONLY <2>1, <2>3, <2>4, Zenon DEF Assoc
    <2> QED
        BY ONLY <2>2, <2>5
<1>8. AllEdges' = AllEdges
    BY <1>1, <1>4, <1>5 DEF AllEdges
<1>9. NumberOf(w) /\ Joined(AllEdges, AllNodes)
    BY DEF QuietInv, WriteInv, NumberInv, KeptInv
<1>10. /\ nextNodeId = Len(AllNodes) + Len(toAdd[w])
       /\ Numbered(AllNodes')
       /\ Resolved(w, AllNodes \o toAdd[w])
    BY <1>1, <1>7, <1>9 DEF NumberOf, Numbering
<1>11. NumberOf(w)'
    <2>1. Resolved(w, AllNodes)'
        BY <1>1, <1>7, <1>10 DEF Resolved
    <2> QED
        BY <1>3, <2>1 DEF NumberOf, Numbering
<1>12. Origins(AllNodes') = Origins(AllNodes) \cup Origins(toAdd[w])
    BY <1>3, <1>7, AllTypes, OriginsOfConcat
<1>13. KeptOf(w)'
    BY <1>1, <1>3, <1>12 DEF KeptOf
<1>14. nextNodeId' = Len(AllNodes')
    BY <1>1, <1>3, <1>7, <1>10, AllTypes, ConcatProperties
<1>15. Joined(AllEdges', AllNodes')
    BY <1>3, <1>7, <1>8, <1>9, AllTypes, JoinedConcatNodes
<1>16. WriteInv'
    <2>1. /\ stage' = "up" /\ pc'[w] \notin {"idle", "failed"}
          /\ Origins(AllNodes) \subseteq Origins(AllNodes')
          /\ Origins(AllEdges) \subseteq Origins(AllEdges')
        BY <1>1, <1>2, <1>3, <1>8, <1>12
    <2>2. \A v \in Writers : v # w =>
             pc[v] \in {"idle", "done"} /\ pc'[v] = pc[v] /\ ids'[v] = ids[v] /\ toAdd'[v] = toAdd[v]
        BY <1>1, <1>2, <1>3
    <2> QED
        BY <1>10, <1>11, <1>13, <1>14, <1>15, <2>1, <2>2, WriterMoves DEF QuietInv
<1> QED
    BY <1>7, <1>8, <1>16

\* The edges of a handler that has resolved its entities join those.
LEMMA EdgesOfJoined ==
    ASSUME TypeOK, NEW w \in Writers, Len(ids[w]) = Len(Request[w].ents),
           NEW ns, Resolved(w, ns)
    PROVE  /\ EdgesOf(w) \in Seq(EdgeType) /\ Joined(EdgesOf(w), ns)
           /\ DOMAIN EdgesOf(w) = DOMAIN Request[w].rels
<1> DEFINE rels == Request[w].rels
<1>1. /\ DOMAIN rels = 1..Len(rels)
      /\ ids[w] \in Seq(Nat) /\ DOMAIN ids[w] = 1..Len(ids[w])
    BY RequestFacts, LenProperties DEF TypeOK, WriterTypeOK
<1>2. ASSUME NEW j \in DOMAIN rels
      PROVE  /\ Leads(ns, EdgesOf(w)[j].from, EdgesOf(w)[j].src)
             /\ Leads(ns, EdgesOf(w)[j].to, EdgesOf(w)[j].dst)
    <2>1. rels[j][1] \in DOMAIN ids[w] /\ rels[j][2] \in DOMAIN ids[w]
        BY <1>1, RequestFacts
    <2>2. /\ EdgesOf(w)[j].from = ids[w][rels[j][1]] /\ EdgesOf(w)[j].to = ids[w][rels[j][2]]
          /\ EdgesOf(w)[j].src = Request[w].ents[rels[j][1]]
          /\ EdgesOf(w)[j].dst = Request[w].ents[rels[j][2]]
        BY DEF EdgesOf
    <2> QED
        BY <2>1, <2>2 DEF Resolved
<1>3. DOMAIN EdgesOf(w) = DOMAIN rels
    BY DEF EdgesOf
<1>4. EdgesOf(w) \in Seq(EdgeType)
    BY EdgesOfProperties DEF TypeOK
<1> QED
    BY <1>2, <1>3, <1>4 DEF Joined

\* The edges of a request go behind all the others and join what it named.
LEMMA QuietAddEdges ==
    ASSUME TypeOK, QuietInv, NEW w \in Writers, AddEdges(w)
    PROVE  /\ WriteInv'
           /\ AllEdges' = AllEdges \o EdgesOf(w) /\ AllNodes' = AllNodes
<1>1. /\ pc[w] = "pushEdges" /\ w \in InFlight
      /\ pc' = [pc EXCEPT ![w] = "finish"]
      /\ delta' = [delta EXCEPT !.edges = @ \o EdgesOf(w)]
      /\ UNCHANGED <<stage, graph, disk, phase, drained, ids, toAdd, nextNodeId>>
    BY DEF AddEdges, PushEdges, InFlight, indexVars, mergeVars
<1>2. /\ stage = "up"
      /\ \A v \in Writers : v # w => pc[v] \in {"idle", "done"}
    BY <1>1, Alone DEF QuietInv
<1>3. /\ pc'[w] = "finish" /\ \A v \in Writers : v # w => pc'[v] = pc[v]
      /\ Len(ids[w]) = Len(Request[w].ents) /\ delta \in GraphType
    BY <1>1 DEF TypeOK, WriterTypeOK, DeltaTypeOK
<1>4. NumberOf(w) /\ KeptOf(w) /\ Joined(AllEdges, AllNodes) /\ Numbered(AllNodes)
    BY DEF QuietInv, WriteInv, NumberInv, KeptInv
<1>5. Resolved(w, AllNodes)
    BY <1>1, <1>4 DEF NumberOf
<1>6. EdgesOf(w) \in Seq(EdgeType) /\ Joined(EdgesOf(w), AllNodes)
    BY <1>3, <1>5, EdgesOfJoined
<1>7. delta'.edges = delta.edges \o EdgesOf(w) /\ delta'.nodes = delta.nodes
    BY <1>1, <1>3 DEF GraphType
<1>8. UnderWay' = UnderWay
    BY <1>1, SameUnderWay
<1>9. /\ AllEdges = graph.edges \o UnderWay.edges \o delta.edges
      /\ AllEdges' = graph.edges \o UnderWay.edges \o (delta.edges \o EdgesOf(w))
    BY <1>1, <1>2, <1>7, <1>8 DEF AllEdges
<1>10. AllEdges' = AllEdges \o EdgesOf(w)
    <2> DEFINE gu == graph.edges \o UnderWay.edges
    <2>1. gu \in Seq(EdgeType) /\ delta.edges \in Seq(EdgeType)
        BY AllTypes
    <2>2. AllEdges = gu \o delta.edges /\ AllEdges' = gu \o (delta.edges \o EdgesOf(w))
        BY <1>9
    <2> HIDE DEF gu
    <2>3. EdgesOf(w) \in Seq(EdgeType)
        BY <1>6
    <2>4. Assoc(EdgeType)
        BY ONLY ConcatGroups
    <2>5. (gu \o delta.edges) \o EdgesOf(w) = gu \o (delta.edges \o EdgesOf(w))
        BY ONLY <2>1, <2>3, <2>4, Zenon DEF Assoc
    <2> QED
        BY ONLY <2>2, <2>5
<1>11. AllNodes' = AllNodes
    BY <1>1, <1>7, <1>8 DEF AllNodes
<1>12. Origins(AllEdges') = Origins(AllEdges) \cup Origins(EdgesOf(w))
    BY <1>6, <1>10, AllTypes, OriginsOfConcat
<1>13. NumberOf(w)'
    BY <1>3 DEF NumberOf, Numbering
<1>14. KeptOf(w)'
    <2>1. EdgesOf(w)' = EdgesOf(w)
        BY <1>1 DEF EdgesOf
    <2> QED
        BY <1>1, <1>3, <1>4, <1>11, <1>12, <2>1 DEF KeptOf, NodesPushed
<1>15. nextNodeId' = Len(AllNodes')
    <2>1. \A v \in Writers : pc[v] \notin Numbering
        BY <1>1, <1>2 DEF Numbering
    <2> QED
        BY <1>1, <1>11, <2>1 DEF QuietInv, WriteInv, NumberInv
<1>16. Joined(AllEdges', AllNodes')
    BY <1>4, <1>6, <1>10, <1>11, AllTypes, JoinedConcatEdges
<1>17. WriteInv'
    <2>1. /\ stage' = "up" /\ pc'[w] \notin {"idle", "failed"}
          /\ Origins(AllNodes) \subseteq Origins(AllNodes')
          /\ Origins(AllEdges) \subseteq Origins(AllEdges')
          /\ Numbered(AllNodes')
        BY <1>1, <1>2, <1>3, <1>4, <1>11, <1>12
    <2>2. \A v \in Writers : v # w =>
             pc[v] \in {"idle", "done"} /\ pc'[v] = pc[v] /\ ids'[v] = ids[v] /\ toAdd'[v] = toAdd[v]
        BY <1>1, <1>2, <1>3
    <2> QED
        BY <1>13, <1>14, <1>15, <1>16, <2>1, <2>2, WriterMoves DEF QuietInv
<1> QED
    BY <1>10, <1>11, <1>17

\* Handlers touch neither indices nor files nor a merge.
LEMMA SameHold ==
    ASSUME HoldInv, UNCHANGED <<stage, indexVars, disk, mergeVars>>
    PROVE  HoldInv'
BY DEF HoldInv, MergeInv, ServedInv, DiskInv, WholeInv, ContentInv, BuiltIs, Up, indexVars, mergeVars

\* A step of a handler preserves the invariant.
LEMMA QuietWriterStep ==
    ASSUME Quiet, TypeOK, QuietInv, NEW w \in Writers, Begin(w) \/ WriterStep(w)
    PROVE  QuietInv'
<1>1. WriteInv'
    BY QuietBegin, QuietResolveExisting, QuietResolveNew, NoMatchBeyond, QuietSilent,
       QuietAddNodes, QuietAddEdges DEF WriterStep, QuietInv
<1>2. UNCHANGED <<stage, indexVars, disk, mergeVars>>
    BY DEF Begin, WriterStep, ResolveExisting, ResolveNew, ResolvePanics, ResolveDone,
           WriteNodesWal, AddNodes, WriteEdgesWal, AddEdges, Finish
<1>3. HoldInv'
    BY <1>2, SameHold DEF QuietInv
<1> QED
    BY <1>1, <1>3 DEF QuietInv

-----------------------------------------------------------------------------
(***************************************************************************)
(* The steps of a merge.                                                   *)
(***************************************************************************)

\* A merge moves what is held and changes none of it: handlers cannot tell.
LEMMA SameWrites ==
    ASSUME WriteInv, StageInv', UNCHANGED <<writeVars, nextNodeId>>,
           AllNodes' = AllNodes, AllEdges' = AllEdges
    PROVE  WriteInv'
<1>1. /\ UNCHANGED <<pc, ids, toAdd, nextNodeId>>
      /\ InFlight' = InFlight
    BY DEF writeVars, InFlight
<1>2. ClientInv'
    BY <1>1 DEF WriteInv, ClientInv
<1>3. NumberInv'
    BY <1>1 DEF WriteInv, NumberInv, NumberOf, Resolved
<1>4. KeptInv'
    <2>1. \A w \in Writers : EdgesOf(w)' = EdgesOf(w)
        BY <1>1 DEF EdgesOf
    <2> QED
        BY <1>1, <2>1 DEF WriteInv, KeptInv, KeptOf
<1> QED
    BY <1>2, <1>3, <1>4 DEF WriteInv

\* A merge that is no longer at its start has drained the delta or is about to,
\* as it had.
LEMMA SameStage ==
    ASSUME StageInv, SerialMerges, UNCHANGED <<stage, writeVars, delta>>,
           NEW m \in Mergers, phase[m] # "drain"
    PROVE  StageInv'
BY DEF StageInv, SerialMerges, InFlight, writeVars

\* What a built snapshot holds, file by file.
LEMMA SnapshotFields ==
    ASSUME NEW x, NEW ns, NEW es, \A f \in Files : x[f] = Snapshot(ns, es)[f]
    PROVE  /\ x.nodes = ns /\ x.edges = es /\ x.vecs = EntsOf(ns)
           /\ x.evecs = TextsOf(es) /\ x.eps = EndsOf(es)
<1>1. /\ x["nodes"] = Snapshot(ns, es)["nodes"] /\ x["edges"] = Snapshot(ns, es)["edges"]
      /\ x["vecs"] = Snapshot(ns, es)["vecs"] /\ x["evecs"] = Snapshot(ns, es)["evecs"]
      /\ x["eps"] = Snapshot(ns, es)["eps"]
    BY DEF Files
<1> QED
    BY <1>1 DEF Snapshot

\* What the merge of a quiet engine has at hand.
LEMMA MergeFacts ==
    ASSUME TypeOK, SerialMerges, QuietInv, NEW m \in Mergers, phase[m] # "idle"
    PROVE  /\ Up /\ base[m] = graph
           /\ UnderWay = drained[m]
           /\ graph.nodes \in Seq(NodeType) /\ graph.edges \in Seq(EdgeType)
           /\ drained[m] \in GraphType
           /\ drained[m].nodes \in Seq(NodeType) /\ drained[m].edges \in Seq(EdgeType)
           /\ delta \in GraphType
           /\ delta.nodes \in Seq(NodeType) /\ delta.edges \in Seq(EdgeType)
           /\ AllNodes = graph.nodes \o drained[m].nodes \o delta.nodes
           /\ AllEdges = graph.edges \o drained[m].edges \o delta.edges
           /\ Numbered(graph.nodes \o drained[m].nodes)
           /\ graph.edges # <<>> /\ Joined(graph.edges, graph.nodes)
           /\ Joined(drained[m].edges, graph.nodes \o drained[m].nodes)
<1>1. Up /\ base[m] = graph /\ Joined(drained[m].edges, graph.nodes \o drained[m].nodes)
    BY DEF QuietInv, HoldInv, MergeInv
<1>2. graph.edges # <<>> /\ Joined(graph.edges, graph.nodes)
    BY <1>1 DEF QuietInv, HoldInv, ServedInv
<1>3. UnderWay = drained[m]
    BY UnderWayIs DEF QuietInv, HoldInv
<1>4. /\ graph.nodes \in Seq(NodeType) /\ graph.edges \in Seq(EdgeType)
      /\ drained[m] \in GraphType
      /\ drained[m].nodes \in Seq(NodeType) /\ drained[m].edges \in Seq(EdgeType)
      /\ delta \in GraphType
      /\ delta.nodes \in Seq(NodeType) /\ delta.edges \in Seq(EdgeType)
    BY <1>3, AllTypes DEF TypeOK, MergerTypeOK, DeltaTypeOK
<1>5. /\ AllNodes = graph.nodes \o drained[m].nodes \o delta.nodes
      /\ AllEdges = graph.edges \o drained[m].edges \o delta.edges
    BY <1>1, <1>3 DEF AllNodes, AllEdges, Up
<1>6. Numbered(graph.nodes \o drained[m].nodes)
    <2> DEFINE gd == graph.nodes \o drained[m].nodes
    <2>1. gd \in Seq(NodeType)
        BY <1>4, ConcatProperties
    <2>2. Numbered(gd \o delta.nodes)
        BY <1>5 DEF QuietInv, WriteInv, NumberInv
    <2> HIDE DEF gd
    <2>3. Numbered(gd)
        BY <1>4, <2>1, <2>2, NumberedConcat
    <2> QED
        BY <2>3 DEF gd
<1> QED
    BY <1>1, <1>2, <1>3, <1>4, <1>5, <1>6

\* A single merge that has not come to the files, before a step and after it,
\* leaves them as they are.
LEMMA SameFiles ==
    ASSUME SerialMerges, DiskInv, Up, UNCHANGED <<graph, disk>>, NEW m \in Mergers,
           phase[m] \in BeforeFiles, phase'[m] \in BeforeFiles
    PROVE  DiskInv'
<1>1. \A n \in Mergers : n = m
    BY DEF SerialMerges
<1>2. \A f \in Files : /\ phase[m] \notin Saved(f) /\ phase[m] # WritingOf(f)
                       /\ phase'[m] \notin Saved(f) /\ phase'[m] # WritingOf(f)
    BY SavedPhases
<1>3. WholeInv'
    BY <1>1, <1>2 DEF DiskInv, WholeInv
<1>4. phase[m] \notin {"writeEvecs", "eps"}
    BY DEF BeforeFiles
<1>5. /\ \A f \in Files : disk[f] = Snapshot(graph.nodes, graph.edges)[f]
      /\ disk.linked \/ disk.evecs = <<>>
    BY <1>1, <1>2, <1>4 DEF DiskInv, ContentInv
<1>6. ContentInv'
    BY <1>1, <1>2, <1>5 DEF ContentInv
<1> QED
    BY <1>3, <1>6 DEF DiskInv

\* A merge starts from the graph with nothing drained.
LEMMA QuietLaunch ==
    ASSUME TypeOK, SerialMerges, QuietInv, NEW m \in Mergers, NEW who, Launch(m, who),
           stage' \in {"up", "closing"}, Up, stage' # "up" => InFlight = {}
    PROVE  QuietInv' /\ AllNodes' = AllNodes /\ AllEdges' = AllEdges
<1> USE DEF SerialMerges
<1>1. /\ phase[m] = "idle" /\ phase \in [Mergers -> Phases]
      /\ phase' = [phase EXCEPT ![m] = "drain"] /\ base' = [base EXCEPT ![m] = graph]
      /\ base \in [Mergers -> GraphType]
      /\ UNCHANGED <<delta, nextNodeId, graph, hnsw, store, edgeHnsw, disk, writeVars, drained,
                     built, reopened>>
    BY DEF Launch, TypeOK, MergerTypeOK, indexVars
<1>2. phase'[m] = "drain" /\ base'[m] = graph
    BY <1>1
<1>3. Up'
    BY DEF Up
<1>4. Merging = {} /\ Merging' = {}
    BY <1>1, <1>2 DEF Merging
<1>5. AllNodes' = AllNodes /\ AllEdges' = AllEdges
    <2>1. UnderWay' = UnderWay
        BY <1>4 DEF UnderWay
    <2> QED
        BY <1>1, <1>3, <2>1 DEF AllNodes, AllEdges, Up
<1>6. StageInv'
    <2>1. InFlight' = InFlight
        BY <1>1 DEF InFlight, writeVars
    <2> QED
        BY <1>2, <2>1 DEF StageInv
<1>7. WriteInv'
    BY <1>1, <1>5, <1>6, SameWrites DEF QuietInv
<1>8. MergeInv'
    BY <1>1, <1>2, <1>3 DEF QuietInv, HoldInv, MergeInv, HasBuilt, Files, WritePhases
<1>9. ServedInv'
    BY <1>1 DEF QuietInv, HoldInv, ServedInv
<1>10. DiskInv'
    BY <1>1, <1>2, SameFiles DEF QuietInv, HoldInv, BeforeFiles
<1> QED
    BY <1>5, <1>7, <1>8, <1>9, <1>10 DEF QuietInv, HoldInv

\* The delta becomes the merge's.
LEMMA QuietDrain ==
    ASSUME TypeOK, SerialMerges, QuietInv, NEW m \in Mergers, Drain(m)
    PROVE  QuietInv' /\ AllNodes' = AllNodes /\ AllEdges' = AllEdges
<1> USE DEF SerialMerges
<1>1. /\ phase[m] = "drain" /\ phase' = [phase EXCEPT ![m] = "build"]
      /\ drained' = [drained EXCEPT ![m] = delta] /\ delta' = Empty
      /\ phase \in [Mergers -> Phases] /\ drained \in [Mergers -> GraphType]
      /\ UNCHANGED <<nextNodeId, stage, graph, hnsw, store, edgeHnsw, disk, writeVars, base,
                     built, reopened>>
    BY DEF Drain, DrainDelta, TypeOK, MergerTypeOK, indexVars
<1>2. phase'[m] = "build" /\ drained'[m] = delta
    BY <1>1
<1>3. /\ Up /\ UnderWay = drained[m] /\ drained[m] = Empty /\ base[m] = graph
      /\ graph.nodes \in Seq(NodeType) /\ graph.edges \in Seq(EdgeType)
      /\ delta.nodes \in Seq(NodeType) /\ delta.edges \in Seq(EdgeType)
    BY <1>1, MergeFacts DEF QuietInv, HoldInv, MergeInv
<1>4. UnderWay' = delta
    <2>1. Merging' = {m}
        BY <1>2 DEF Merging
    <2> QED
        BY <1>2, <2>1 DEF UnderWay
<1>5. AllNodes = graph.nodes \o delta.nodes /\ AllEdges = graph.edges \o delta.edges
    <2>3. UnderWay.nodes = <<>> /\ UnderWay.edges = <<>> /\ stage # "exited"
        BY <1>3 DEF Up, Empty
    <2>1. /\ AllNodes = graph.nodes \o <<>> \o delta.nodes
          /\ AllEdges = graph.edges \o <<>> \o delta.edges
        BY <2>3 DEF AllNodes, AllEdges
    <2>2. graph.nodes \o <<>> = graph.nodes /\ graph.edges \o <<>> = graph.edges
        BY <1>3, ConcatEmptySeq
    <2> QED
        BY <2>1, <2>2
<1>6. AllNodes' = AllNodes /\ AllEdges' = AllEdges
    <2>1. /\ AllNodes' = graph.nodes \o delta.nodes \o <<>>
          /\ AllEdges' = graph.edges \o delta.edges \o <<>>
        BY <1>1, <1>3, <1>4 DEF AllNodes, AllEdges, Up, Empty
    <2>2. /\ graph.nodes \o delta.nodes \in Seq(NodeType)
          /\ graph.edges \o delta.edges \in Seq(EdgeType)
        BY <1>3, ConcatProperties
    <2> QED
        BY <1>5, <2>1, <2>2, ConcatEmptySeq
<1>7. StageInv'
    <2>1. InFlight' = InFlight
        BY <1>1 DEF InFlight, writeVars
    <2> QED
        BY <1>1, <2>1 DEF StageInv, QuietInv, WriteInv
<1>8. WriteInv'
    BY <1>1, <1>6, <1>7, SameWrites DEF QuietInv
<1>9. Joined(delta.edges, graph.nodes \o delta.nodes)
    <2>1. Joined(graph.edges \o delta.edges, AllNodes)
        BY <1>5 DEF QuietInv, WriteInv, KeptInv
    <2> QED
        BY <1>3, <1>5, <2>1, JoinedConcatEdges
<1>10. MergeInv'
    BY <1>1, <1>2, <1>3, <1>9 DEF MergeInv, HasBuilt, Files, WritePhases, Up
<1>11. ServedInv'
    BY <1>1 DEF QuietInv, HoldInv, ServedInv, Up
<1>12. DiskInv'
    BY <1>1, <1>2, <1>3, SameFiles DEF QuietInv, HoldInv, BeforeFiles
<1> QED
    BY <1>6, <1>8, <1>10, <1>11, <1>12 DEF QuietInv, HoldInv

\* The merge builds just what the graph and the drained delta hold: no remap
\* moves an ID, and no edge end is out of range.
LEMMA QuietMerged ==
    ASSUME TypeOK, SerialMerges, QuietInv, NEW m \in Mergers, phase[m] = "build"
    PROVE  /\ Merged(m) \in SnapshotType /\ Merged(m).linked
           /\ \A f \in Files : Merged(m)[f] = Snapshot(graph.nodes \o drained[m].nodes,
                                                       graph.edges \o drained[m].edges)[f]
           /\ EndsInRange(Merged(m).edges, Len(Merged(m).nodes))
           /\ VectorsReadable(disk)
<1> DEFINE ns  == graph.nodes \o drained[m].nodes
           es  == graph.edges \o drained[m].edges
           d   == drained[m]
           new == RemappedEdges(Len(base[m].nodes), drained[m])
           old == EdgeFiles(disk)
           vs  == [i \in DOMAIN d.nodes |-> d.nodes[i].ent]
           xs  == [j \in DOMAIN d.edges |-> <<d.edges[j].src, d.edges[j].dst>>]
           ps  == [j \in DOMAIN d.edges |-> <<d.edges[j].from, d.edges[j].to>>]
<1>1. /\ Up /\ base[m] = graph
      /\ graph.nodes \in Seq(NodeType) /\ graph.edges \in Seq(EdgeType)
      /\ d \in GraphType /\ d.nodes \in Seq(NodeType) /\ d.edges \in Seq(EdgeType)
      /\ Numbered(ns) /\ graph.edges # <<>> /\ Joined(graph.edges, graph.nodes)
      /\ Joined(d.edges, ns)
    BY MergeFacts
<1>2. MergedNodes(base[m].nodes, d.nodes) = ns
    BY <1>1, RenumberedAsTheyAre
<1>3. new = d.edges
    BY <1>1, RemappedAsTheyAre
<1>4. /\ disk.vecs = EntsOf(graph.nodes)
      /\ disk.evecs = TextsOf(graph.edges) /\ disk.eps = EndsOf(graph.edges)
      /\ disk.linked \/ disk.evecs = <<>>
    <2>1. ASSUME NEW f \in Files, NEW n \in Mergers
          PROVE  phase[n] \notin Saved(f) /\ phase[n] # WritingOf(f)
        BY SavedPhases DEF SerialMerges, BeforeFiles
    <2>2. \A f \in Files : disk[f] = Snapshot(graph.nodes, graph.edges)[f]
        BY <1>1, <2>1 DEF QuietInv, HoldInv, DiskInv, ContentInv
    <2>4. \A n \in Mergers : phase[n] \notin {"writeEvecs", "eps"}
        BY DEF SerialMerges
    <2>3. disk.linked \/ disk.evecs = <<>>
        BY <1>1, <2>4 DEF QuietInv, HoldInv, DiskInv, ContentInv
    <2> QED
        BY <2>2, <2>3, SnapshotFields
<1>13. disk.cut = {}
    <2>1. ASSUME NEW f \in Files, NEW n \in Mergers PROVE phase[n] # WritingOf(f)
        BY SavedPhases DEF SerialMerges, BeforeFiles
    <2>2. disk.cut \subseteq Files
        BY DEF TypeOK, SnapshotType
    <2> QED
        BY <2>1, <2>2 DEF QuietInv, HoldInv, DiskInv, WholeInv
<1>5. old = [evecs |-> disk.evecs, eps |-> disk.eps]
    <2>1. CASE disk.evecs = <<>>
        <3>1. disk.eps = <<>>
            BY <1>1, <1>4, <2>1, EdgeFilesTypes
        <3> QED
            BY <2>1, <3>1 DEF EdgeFiles, EmptyEdgeIndex
    <2>2. CASE disk.evecs # <<>>
        BY <1>4, <2>2 DEF EdgeFiles, EdgeFilesExist
    <2> QED
        BY <2>1, <2>2
<1>6. Merged(m) = [nodes |-> ns, edges |-> es, vecs |-> disk.vecs \o vs,
                   evecs |-> old.evecs \o xs, eps |-> old.eps \o ps, linked |-> TRUE,
                   cut |-> {}, mixed |-> {}]
    BY <1>1, <1>2, <1>3 DEF Merged
<1>7. disk.vecs \o vs = EntsOf(ns)
    <2>1. vs = EntsOf(d.nodes)
        BY DEF EntsOf
    <2> HIDE DEF vs
    <2> QED
        BY <1>1, <1>4, <2>1, EntsConcat
<1>8. old.evecs \o xs = TextsOf(es) /\ old.eps \o ps = EndsOf(es)
    <2>1. old.evecs = TextsOf(graph.edges) /\ old.eps = EndsOf(graph.edges)
        BY <1>4, <1>5
    <2> HIDE DEF old, new
    <2>2. /\ drained[m].edges \in Seq(EdgeType) /\ graph.edges \in Seq(EdgeType)
          /\ graph.edges # <<>>
        BY ONLY <1>1 DEF d
    <2>3. TextsOf(es) = TextsOf(graph.edges) \o xs /\ EndsOf(es) = EndsOf(graph.edges) \o ps
        BY ONLY <2>2, EdgeFilesConcat DEF d
    <2> QED
        BY ONLY <2>1, <2>3
<1> HIDE DEF ns, es, d, new, old, vs, xs, ps
<1>9. \A f \in Files : Merged(m)[f] = Snapshot(ns, es)[f]
    BY <1>6, <1>7, <1>8 DEF Files, Snapshot
<1>10. Merged(m) \in SnapshotType
    BY MergedProperties DEF TypeOK
<1>11. EndsInRange(Merged(m).edges, Len(Merged(m).nodes))
    <2>1. Joined(graph.edges, ns)
        BY <1>1, JoinedConcatNodes DEF ns, d
    <2>2. Joined(es, ns)
        BY <1>1, <2>1, JoinedConcatEdges DEF es, d
    <2>3. Merged(m).edges = es /\ Merged(m).nodes = ns
        BY <1>6
    <2> QED
        BY <2>2, <2>3, JoinedInRange
<1>12. Merged(m).linked
    BY <1>6
<1>14. VectorsReadable(disk)
    BY <1>13 DEF VectorsReadable
<1> QED
    BY <1>9, <1>10, <1>11, <1>12, <1>14 DEF ns, es

\* The build succeeds.
LEMMA QuietBuild ==
    ASSUME TypeOK, SerialMerges, QuietInv, NEW m \in Mergers, Build(m)
    PROVE  QuietInv' /\ AllNodes' = AllNodes /\ AllEdges' = AllEdges
<1> USE DEF SerialMerges
<1>1. /\ phase[m] = "build" /\ phase' = [phase EXCEPT ![m] = "nodes"]
      /\ built' = [built EXCEPT ![m] = Merged(m)]
      /\ phase \in [Mergers -> Phases] /\ built \in [Mergers -> SnapshotType]
      /\ UNCHANGED <<delta, nextNodeId, stage, graph, hnsw, store, edgeHnsw, disk, writeVars,
                     base, drained, reopened>>
    BY DEF Build, TypeOK, MergerTypeOK, indexVars
<1>2. phase'[m] = "nodes" /\ built'[m] = Merged(m)
    BY <1>1
<1>3. UnderWay' = UnderWay
    <2>1. Merging = {m} /\ Merging' = {m}
        BY <1>1, <1>2 DEF Merging
    <2> QED
        BY <1>1, <2>1 DEF UnderWay
<1>4. AllNodes' = AllNodes /\ AllEdges' = AllEdges
    BY <1>1, <1>3 DEF AllNodes, AllEdges
<1>5. StageInv'
    <2>1. InFlight' = InFlight
        BY <1>1 DEF InFlight, writeVars
    <2> QED
        BY <1>1, <2>1 DEF StageInv, QuietInv, WriteInv
<1>6. WriteInv'
    BY <1>1, <1>4, <1>5, SameWrites DEF QuietInv
<1>7. BuiltIs(m)'
    <2>1. /\ Merged(m).linked
          /\ \A f \in Files : Merged(m)[f] = Snapshot(graph.nodes \o drained[m].nodes,
                                                      graph.edges \o drained[m].edges)[f]
        BY <1>1, QuietMerged
    <2> HIDE DEF SerialMerges
    <2> QED
        BY <1>1, <1>2, <2>1 DEF BuiltIs
<1>8. MergeInv'
    BY <1>1, <1>2, <1>7 DEF QuietInv, HoldInv, MergeInv, Up
<1>9. ServedInv'
    BY <1>1 DEF QuietInv, HoldInv, ServedInv, Up
<1>10. DiskInv'
    <2>1. /\ \A n \in Mergers : n = m
          /\ \A f \in Files : /\ phase[m] \notin Saved(f) /\ phase[m] # WritingOf(f)
                              /\ phase'[m] \notin Saved(f) /\ phase'[m] # WritingOf(f)
        BY <1>1, <1>2, SavedPhases
            DEF BeforeFiles, Files, Saved, HasBuilt, NodesSaved, EdgesSaved, VecsSaved
    <2>3. /\ WholeInv /\ ContentInv /\ Up /\ phase[m] \notin {"writeEvecs", "eps"}
          /\ UNCHANGED <<disk, graph>> /\ m \in Mergers
        BY <1>1 DEF QuietInv, HoldInv, MergeInv, DiskInv
    <2>2. WholeInv'
        BY ONLY <2>1, <2>3 DEF WholeInv
    <2>5. /\ \A f \in Files : disk[f] = Snapshot(graph.nodes, graph.edges)[f]
          /\ disk.linked \/ disk.evecs = <<>>
        BY ONLY <2>1, <2>3 DEF ContentInv
    <2>4. ContentInv'
        BY ONLY <2>1, <2>3, <2>5 DEF ContentInv
    <2> QED
        BY <2>2, <2>4 DEF DiskInv
<1> QED
    BY <1>4, <1>6, <1>8, <1>9, <1>10 DEF QuietInv, HoldInv

\* It never panics, and neither does the rebuild of the indices.
LEMMA NoPanics ==
    ASSUME TypeOK, SerialMerges, QuietInv, NEW m \in Mergers
    PROVE  ~ BuildPanics(m) /\ ~ RebuildPanics(m)
<1>1. ~ BuildPanics(m)
    BY QuietMerged DEF BuildPanics
<1>2. ASSUME RebuildPanics(m) PROVE FALSE
    <2>5. "vecs" \notin disk.cut
        <3>1. phase[m] = "rebuild" /\ \A n \in Mergers : n = m
            BY <1>2 DEF RebuildPanics, SerialMerges
        <3>2. "vecs" \in Files /\ phase[m] # WritingOf("vecs")
            BY <3>1, SavedPhases DEF AfterFiles, Files
        <3> QED
            BY <3>1, <3>2 DEF QuietInv, HoldInv, DiskInv, WholeInv
    <2>1. phase[m] = "rebuild" /\ Len(built[m].evecs) # Len(built[m].eps)
        BY <1>2, <2>5 DEF RebuildPanics
    <2>2. BuiltIs(m)
        BY <2>1 DEF QuietInv, HoldInv, MergeInv, HasBuilt
    <2> DEFINE es == graph.edges \o drained[m].edges
    <2>3. built[m].evecs = TextsOf(es) /\ built[m].eps = EndsOf(es)
        BY <2>2, SnapshotFields DEF BuiltIs
    <2>4. es \in Seq(EdgeType) /\ es # <<>>
        <3>1. /\ graph.edges \in Seq(EdgeType) /\ drained[m].edges \in Seq(EdgeType)
              /\ graph.edges # <<>>
            BY <2>1, MergeFacts
        <3> QED
            BY <3>1, ConcatProperties, ConcatEqualIffEmpty
    <2> HIDE DEF es
    <2> QED
        BY <2>1, <2>3, <2>4, EdgeFilesTypes
<1> QED
    BY <1>1, <1>2

\* The steps of a merge that only move it on, or write to files and WAL: what
\* is held, what is served and what is built is the same before and after.
LEMMA QuietMovesOn ==
    ASSUME TypeOK, SerialMerges, QuietInv, NEW m \in Mergers, NEW next \in HasBuilt,
           phase[m] \in HasBuilt \ {"swap"}, phase' = [phase EXCEPT ![m] = next],
           UNCHANGED <<delta, nextNodeId, stage, indexVars, writeVars, base, drained, built>>,
           next = "swap" => reopened'[m] = Len(built[m].vecs),
           DiskInv'
    PROVE  QuietInv' /\ AllNodes' = AllNodes /\ AllEdges' = AllEdges
<1> USE DEF SerialMerges
<1>1. phase'[m] = next /\ phase \in [Mergers -> Phases]
    BY DEF TypeOK, MergerTypeOK
<1>2. /\ UNCHANGED <<delta, nextNodeId, stage, graph, hnsw, store, edgeHnsw, writeVars, base,
                     drained, built>>
      /\ phase[m] \notin {"idle", "drain"} /\ next \notin {"idle", "drain"}
    BY DEF indexVars, HasBuilt, Files, WritePhases
<1>3. Up
    BY <1>2 DEF QuietInv, HoldInv, MergeInv
<1>4. UnderWay' = UnderWay
    <2>1. Merging = {m} /\ Merging' = {m}
        BY <1>1, <1>2 DEF Merging
    <2> QED
        BY <1>2, <2>1 DEF UnderWay
<1>5. AllNodes' = AllNodes /\ AllEdges' = AllEdges
    BY <1>2, <1>3, <1>4 DEF AllNodes, AllEdges, Up
<1>6. StageInv'
    <2>1. InFlight' = InFlight
        BY <1>2 DEF InFlight, writeVars
    <2> QED
        BY <1>2, <2>1 DEF StageInv, QuietInv, WriteInv
<1>7. WriteInv'
    BY <1>2, <1>5, <1>6, SameWrites DEF QuietInv
<1>8. MergeInv'
    <2>1. BuiltIs(m)'
        BY <1>2 DEF QuietInv, HoldInv, MergeInv, BuiltIs
    <2> QED
        BY <1>1, <1>2, <2>1 DEF QuietInv, HoldInv, MergeInv, Up
<1>9. ServedInv'
    BY <1>2 DEF QuietInv, HoldInv, ServedInv, Up
<1> QED
    BY <1>5, <1>7, <1>8, <1>9 DEF QuietInv, HoldInv

\* A file that is opened is nobody's, and the others are whose they were.
LEMMA QuietOpen ==
    ASSUME TypeOK, SerialMerges, QuietInv, NEW m \in Mergers, NEW file \in Files, Open(m, file)
    PROVE  QuietInv' /\ AllNodes' = AllNodes /\ AllEdges' = AllEdges
<1>1. /\ phase[m] = file /\ phase' = [phase EXCEPT ![m] = WritingOf(file)]
      /\ UNCHANGED <<delta, nextNodeId, stage, indexVars, writeVars, base, drained, built, reopened>>
    BY DEF Open
<1>2. /\ phase'[m] = WritingOf(file) /\ \A n \in Mergers : n = m
      /\ file \in HasBuilt \ {"swap"} /\ WritingOf(file) \in HasBuilt /\ WritingOf(file) # "swap"
    BY <1>1, SavingPhases DEF TypeOK, MergerTypeOK, SerialMerges, Files, WritingOf
<1>3. /\ disk'.cut = disk.cut \cup {file} /\ disk'.mixed \subseteq disk.mixed
      /\ disk'.linked = (disk.linked \/ file = "eps")
      /\ file # "evecs" => disk'.evecs = disk.evecs
      /\ \A f \in Files : f # file => disk'[f] = disk[f]
    <2>1. ~ OthersWrite(m, file)
        BY <1>2 DEF OthersWrite
    <2>2. \A f \in Files : f # file => disk'[f] = disk[f]
        BY OpenLeaves DEF TypeOK, Files
    <2> QED
        BY <2>1, <2>2, OpenLeaves DEF TypeOK
<1>4. WholeInv /\ ContentInv /\ Up /\ Up' /\ UNCHANGED <<built, graph>>
    BY <1>1, <1>2 DEF QuietInv, HoldInv, MergeInv, DiskInv, Up, indexVars, HasBuilt, Files
<1>5. WholeInv'
    <2>1. disk'.mixed = {}
        BY <1>3, <1>4 DEF WholeInv
    <2>2. ASSUME NEW f \in Files
          PROVE  f \in disk'.cut <=> phase'[m] = WritingOf(f)
        <3>1. f \notin disk.cut
            BY <1>1, <1>2, <1>4, SavedPhases DEF WholeInv
        <3>2. f # file => WritingOf(file) # WritingOf(f)
            BY SavedPhases
        <3> QED
            BY <1>2, <1>3, <3>1, <3>2
    <2> QED
        BY <1>2, <2>1, <2>2 DEF WholeInv
<1>6. ContentInv'
    <2>1. ASSUME NEW f \in Files
          PROVE  /\ phase'[m] \in Saved(f) => disk'[f] = built[m][f]
                 /\ phase'[m] \notin Saved(f) /\ phase'[m] # WritingOf(f) =>
                       disk'[f] = Snapshot(graph.nodes, graph.edges)[f]
        <3>1. CASE f = file
            BY <1>2, <3>1, SavedPhases
        <3>2. CASE f # file
            <4>1. (WritingOf(file) \in Saved(f) <=> file \in Saved(f)) /\ file # WritingOf(f)
                BY <3>2, SavedPhases
            <4>2. /\ file \in Saved(f) => disk[f] = built[m][f]
                  /\ file \notin Saved(f) => disk[f] = Snapshot(graph.nodes, graph.edges)[f]
                BY <1>1, <1>2, <1>4, <4>1 DEF ContentInv
            <4> QED
                BY <1>2, <1>3, <3>2, <4>1, <4>2
        <3> QED
            BY <3>1, <3>2
    <2>2. phase'[m] \notin {"writeEvecs", "eps"} => disk'.linked \/ disk'.evecs = <<>>
        <3>1. CASE file = "eps"
            BY <1>3, <3>1
        <3>2. CASE file = "evecs"
            BY <1>2, <3>2 DEF WritingOf
        <3>3. CASE file \notin {"eps", "evecs"}
            <4>1. phase[m] \notin {"writeEvecs", "eps"}
                BY <1>1, <3>3 DEF Files
            <4>2. disk.linked \/ disk.evecs = <<>>
                BY <1>2, <1>4, <4>1 DEF ContentInv
            <4> QED
                BY <1>3, <3>3, <4>2
        <3> QED
            BY <3>1, <3>2, <3>3
    <2> QED
        BY <1>2, <1>4, <2>1, <2>2 DEF ContentInv
<1> QED
    BY <1>1, <1>2, <1>5, <1>6, QuietMovesOn DEF DiskInv

\* A file written is the merge's from then on, and the others are whose they were.
LEMMA QuietSave ==
    ASSUME TypeOK, SerialMerges, QuietInv, NEW m \in Mergers, NEW file \in Files,
           NEW next \in HasBuilt, Save(m, file, next),
           \A f \in Files : next # WritingOf(f),
           \A f \in Files : next \in Saved(f) <=> file \in Saved(f) \/ f = file,
           next = "eps" <=> file = "evecs", next # "swap"
    PROVE  QuietInv' /\ AllNodes' = AllNodes /\ AllEdges' = AllEdges
<1>1. /\ phase[m] = WritingOf(file) /\ phase' = [phase EXCEPT ![m] = next]
      /\ UNCHANGED <<delta, nextNodeId, stage, indexVars, writeVars, base, drained, built, reopened>>
    BY DEF Save
<1>2. /\ phase'[m] = next /\ \A n \in Mergers : n = m
      /\ WritingOf(file) \in HasBuilt \ {"swap"}
    BY <1>1, SavingPhases DEF TypeOK, MergerTypeOK, SerialMerges, Files, WritingOf
<1>3. WholeInv /\ ContentInv /\ Up /\ Up' /\ UNCHANGED <<built, graph>>
    BY <1>1, <1>2 DEF QuietInv, HoldInv, MergeInv, DiskInv, Up, indexVars, HasBuilt, Files, WritePhases
<1>4. /\ disk'.mixed = {} /\ disk'.linked = disk.linked
      /\ disk'.cut = disk.cut \ {file} /\ disk'[file] = built[m][file]
      /\ file # "evecs" => disk'.evecs = disk.evecs
      /\ \A f \in Files : f # file => disk'[f] = disk[f]
    <2>1. /\ disk'.mixed \subseteq disk.mixed /\ disk'.linked = disk.linked
          /\ file # "evecs" => disk'.evecs = disk.evecs
          /\ disk' = [disk EXCEPT ![file] = built[m][file], !.cut = @ \ {file}]
        BY <1>3, SaveLeaves DEF TypeOK, WholeInv
    <2>2. /\ disk'.cut = disk.cut \ {file} /\ disk'[file] = built[m][file]
          /\ \A f \in Files : f # file => disk'[f] = disk[f]
        BY <2>1 DEF TypeOK, SnapshotType, Files
    <2> QED
        BY <1>3, <2>1, <2>2 DEF WholeInv
<1>5. WholeInv'
    <2>1. ASSUME NEW f \in Files PROVE f \notin disk'.cut
        BY <1>1, <1>2, <1>3, <1>4, SavedPhases DEF WholeInv
    <2> QED
        BY <1>2, <1>4, <2>1 DEF WholeInv
<1>6. ContentInv'
    <2>1. ASSUME NEW f \in Files
          PROVE  /\ phase'[m] \in Saved(f) => disk'[f] = built[m][f]
                 /\ phase'[m] \notin Saved(f) => disk'[f] = Snapshot(graph.nodes, graph.edges)[f]
        <3>1. CASE f = file
            BY <1>2, <1>4, <3>1
        <3>2. CASE f # file
            <4>1. /\ next \in Saved(f) <=> file \in Saved(f)
                  /\ WritingOf(file) \in Saved(f) <=> file \in Saved(f)
                  /\ WritingOf(file) # WritingOf(f)
                BY <3>2, SavedPhases
            <4>2. /\ file \in Saved(f) => disk[f] = built[m][f]
                  /\ file \notin Saved(f) => disk[f] = Snapshot(graph.nodes, graph.edges)[f]
                BY <1>1, <1>2, <1>3, <4>1 DEF ContentInv
            <4> QED
                BY <1>2, <1>4, <3>2, <4>1, <4>2
        <3> QED
            BY <3>1, <3>2
    <2>2. phase'[m] \notin {"writeEvecs", "eps"} => disk'.linked \/ disk'.evecs = <<>>
        <3>1. CASE file = "evecs"
            BY <1>2, <3>1
        <3>2. CASE file # "evecs"
            <4>1. phase[m] \notin {"writeEvecs", "eps"}
                BY <1>1, <3>2 DEF Files, WritingOf
            <4>2. disk.linked \/ disk.evecs = <<>>
                BY <1>2, <1>3, <4>1 DEF ContentInv
            <4> QED
                BY <1>4, <3>2, <4>2
        <3> QED
            BY <3>1, <3>2
    <2> QED
        BY <1>2, <1>3, <2>1, <2>2 DEF ContentInv
<1> QED
    BY <1>1, <1>2, <1>5, <1>6, QuietMovesOn DEF DiskInv

\* With no embedding to write, the file is what it would be anyway.
LEMMA QuietSkip ==
    ASSUME TypeOK, SerialMerges, QuietInv, NEW m \in Mergers, SkipEdgeVecs(m)
    PROVE  QuietInv' /\ AllNodes' = AllNodes /\ AllEdges' = AllEdges
<1> USE DEF SerialMerges
<1>1. /\ phase[m] = "evecs" /\ built[m].evecs = <<>>
      /\ phase' = [phase EXCEPT ![m] = "eps"] /\ phase \in [Mergers -> Phases]
      /\ UNCHANGED <<delta, nextNodeId, stage, indexVars, disk, writeVars, base, drained, built,
                     reopened>>
    BY DEF SkipEdgeVecs, TypeOK, MergerTypeOK
<1>2. phase'[m] = "eps"
    BY <1>1
<1>3. /\ graph.edges # <<>> /\ graph.edges \in Seq(EdgeType) /\ drained[m].edges \in Seq(EdgeType)
      /\ Up
    BY <1>1, MergeFacts
<1>4. Up' /\ UNCHANGED <<graph, disk, built>>
    BY <1>1, <1>3 DEF Up, indexVars
<1>9. WholeInv /\ ContentInv /\ (\A n \in Mergers : n = m)
      /\ \A f \in Files : "evecs" # WritingOf(f) /\ "eps" # WritingOf(f)
    BY SavedPhases DEF QuietInv, HoldInv, DiskInv, Files
<1>5. \A f \in Files : /\ "evecs" \in Saved(f) => disk[f] = built[m][f]
                       /\ "evecs" \notin Saved(f) => disk[f] = Snapshot(graph.nodes, graph.edges)[f]
    BY <1>1, <1>3, <1>9 DEF ContentInv
<1>6. disk["evecs"] = built[m]["evecs"]
    <2>1. BuiltIs(m)
        BY <1>1 DEF QuietInv, HoldInv, MergeInv, HasBuilt, Files
    <2>2. built[m].evecs = TextsOf(graph.edges \o drained[m].edges)
        BY <2>1, SnapshotFields DEF BuiltIs
    <2> HIDE DEF SerialMerges
    <2> DEFINE xs == [j \in DOMAIN drained[m].edges |->
                         <<drained[m].edges[j].src, drained[m].edges[j].dst>>]
    <2>3. TextsOf(graph.edges \o drained[m].edges) = TextsOf(graph.edges) \o xs
        BY <1>3, EdgeFilesConcat
    <2>4. xs \in Seq(Entities \X Entities)
        <3>1. /\ DOMAIN drained[m].edges = 1..Len(drained[m].edges) /\ Len(drained[m].edges) \in Nat
              /\ \A j \in 1..Len(drained[m].edges) : drained[m].edges[j] \in EdgeType
            BY <1>3, LenProperties, ElementOfSeq
        <3>2. xs \in [1..Len(drained[m].edges) -> Entities \X Entities]
            BY <3>1 DEF EdgeType
        <3> HIDE DEF xs
        <3> QED
            BY <3>1, <3>2, DefinedSeq
    <2>5. TextsOf(graph.edges) \in Seq(Entities \X Entities)
        BY <1>3, EdgeFilesTypes
    <2> HIDE DEF xs
    <2>6. TextsOf(graph.edges) = <<>>
        BY <1>1, <2>2, <2>3, <2>4, <2>5, ConcatEqualIffEmpty
    <2>7. disk["evecs"] = Snapshot(graph.nodes, graph.edges)["evecs"]
        BY <1>5, SavedPhases DEF Files
    <2> QED
        BY <1>1, <2>6, <2>7 DEF Snapshot
<1>7. DiskInv'
    <2>2. WholeInv'
        BY <1>1, <1>2, <1>4, <1>9 DEF WholeInv
    <2>1. ASSUME NEW f \in Files
          PROVE  /\ "eps" \in Saved(f) => disk[f] = built[m][f]
                 /\ "eps" \notin Saved(f) => disk[f] = Snapshot(graph.nodes, graph.edges)[f]
        <3>1. CASE f = "evecs"
            BY <1>6, <3>1 DEF Saved, HasBuilt, NodesSaved, EdgesSaved, VecsSaved, Files
        <3>2. CASE f # "evecs"
            <4>1. "eps" \in Saved(f) <=> "evecs" \in Saved(f)
                BY <3>2 DEF Files, Saved, HasBuilt, NodesSaved, EdgesSaved, VecsSaved
            <4> QED
                BY <1>5, <4>1
        <3> QED
            BY <3>1, <3>2
    <2>3. ContentInv'
        BY <1>2, <1>4, <1>9, <2>1 DEF ContentInv
    <2> QED
        BY <2>2, <2>3 DEF DiskInv
<1>8. "eps" \in HasBuilt /\ phase[m] \in HasBuilt \ {"swap"}
    BY <1>1 DEF HasBuilt, Files
<1> QED
    BY <1>1, <1>7, <1>8, QuietMovesOn

\* Truncating the WAL and rebuilding the indices write no file of the snapshot.
LEMMA QuietTruncateRebuild ==
    ASSUME TypeOK, SerialMerges, QuietInv, NEW m \in Mergers, Truncate(m) \/ Rebuild(m)
    PROVE  QuietInv' /\ AllNodes' = AllNodes /\ AllEdges' = AllEdges
<1> USE DEF SerialMerges
<1>1. PICK next \in {"rebuild", "swap"} :
        /\ phase[m] \in {"truncate", "rebuild"} /\ phase' = [phase EXCEPT ![m] = next]
        /\ UNCHANGED <<delta, nextNodeId, stage, indexVars, disk, writeVars, base, drained, built>>
        /\ next = "swap" => phase[m] = "rebuild" /\ reopened' = [reopened EXCEPT ![m] = Len(disk.vecs)]
    BY DEF Truncate, Rebuild
<1>2. phase'[m] = next
    BY <1>1 DEF TypeOK, MergerTypeOK
<1>3. Up /\ Up' /\ UNCHANGED graph
    BY <1>1 DEF QuietInv, HoldInv, MergeInv, Up, indexVars
<1>4. \A f \in Files : disk[f] = built[m][f]
    <2>1. \A f \in Files : phase[m] \in Saved(f)
        BY <1>1, SavedPhases DEF AfterFiles
    <2> QED
        BY <1>3, <2>1 DEF QuietInv, HoldInv, DiskInv, ContentInv
<1>5. \A f \in Files : next \in Saved(f) /\ next # WritingOf(f) /\ phase[m] # WritingOf(f)
    BY <1>1, SavedPhases DEF AfterFiles
<1>6. disk.linked \/ disk.evecs = <<>>
    <2>1. \A n \in Mergers : phase[n] \notin {"writeEvecs", "eps"}
        BY <1>1
    <2> QED
        BY <1>3, <2>1 DEF QuietInv, HoldInv, DiskInv, ContentInv
<1>7. DiskInv'
    <2>1. WholeInv'
        BY <1>1, <1>2, <1>5 DEF QuietInv, HoldInv, DiskInv, WholeInv
    <2>2. ContentInv'
        BY <1>1, <1>2, <1>4, <1>5, <1>6 DEF ContentInv
    <2> QED
        BY <2>1, <2>2 DEF DiskInv
<1>8. next = "swap" => reopened'[m] = Len(built[m].vecs)
    <2>1. disk["vecs"] = built[m]["vecs"]
        BY <1>4 DEF Files
    <2> QED
        BY <1>1, <2>1 DEF TypeOK, MergerTypeOK
<1>9. next \in HasBuilt /\ phase[m] \in HasBuilt \ {"swap"}
    BY <1>1 DEF HasBuilt
<1> QED
    BY <1>1, <1>7, <1>8, <1>9, QuietMovesOn

\* The swap makes of the graph and what was drained the graph.
LEMMA QuietSwap ==
    ASSUME TypeOK, SerialMerges, QuietInv, NEW m \in Mergers, Swap(m)
    PROVE  /\ QuietInv' /\ AllNodes' = AllNodes /\ AllEdges' = AllEdges
           /\ graph'.nodes = graph.nodes \o drained[m].nodes
           /\ graph'.edges = graph.edges \o drained[m].edges
<1> USE DEF SerialMerges
<1> DEFINE ns == graph.nodes \o drained[m].nodes
           es == graph.edges \o drained[m].edges
<1>1. /\ phase[m] = "swap"
      /\ graph' = GraphOf(built[m]) /\ hnsw' = built[m].vecs
      /\ edgeHnsw' = [evecs |-> built[m].evecs, eps |-> built[m].eps]
      /\ store' = reopened[m]
      /\ phase' = [phase EXCEPT ![m] = "idle"] /\ drained' = [drained EXCEPT ![m] = Empty]
      /\ phase \in [Mergers -> Phases] /\ drained \in [Mergers -> GraphType]
      /\ UNCHANGED <<delta, nextNodeId, stage, disk, writeVars>>
    BY DEF Swap, EndTask, TypeOK, MergerTypeOK
<1>2. phase'[m] = "idle" /\ drained'[m] = Empty
    BY <1>1
<1>3. /\ Up /\ graph.nodes \in Seq(NodeType) /\ graph.edges \in Seq(EdgeType)
      /\ drained[m].nodes \in Seq(NodeType) /\ drained[m].edges \in Seq(EdgeType)
      /\ AllNodes = ns \o delta.nodes /\ AllEdges = es \o delta.edges
      /\ graph.edges # <<>> /\ Joined(graph.edges, graph.nodes) /\ Joined(drained[m].edges, ns)
    BY <1>1, MergeFacts
<1>4. BuiltIs(m) /\ reopened[m] = Len(built[m].vecs)
    BY <1>1 DEF QuietInv, HoldInv, MergeInv, HasBuilt
<1>5. /\ built[m].nodes = ns /\ built[m].edges = es /\ built[m].vecs = EntsOf(ns)
      /\ built[m].evecs = TextsOf(es) /\ built[m].eps = EndsOf(es)
    <2>1. \A f \in Files : built[m][f] = Snapshot(ns, es)[f]
        BY <1>4 DEF BuiltIs
    <2> HIDE DEF ns, es
    <2> QED
        BY <2>1, SnapshotFields
<1>6. graph' = [nodes |-> ns, edges |-> es]
    BY <1>1, <1>5 DEF GraphOf
<1>7. graph'.nodes = ns /\ graph'.edges = es
    BY <1>6
<1>8. ns \in Seq(NodeType) /\ es \in Seq(EdgeType) /\ es # <<>>
    BY <1>3, ConcatProperties, ConcatEqualIffEmpty
<1>9. Joined(es, ns)
    <2>1. Joined(graph.edges, ns)
        BY <1>3, JoinedConcatNodes
    <2> HIDE DEF ns
    <2> QED
        BY <1>3, <2>1, JoinedConcatEdges
<1> HIDE DEF ns, es
<1>10. AllNodes' = AllNodes /\ AllEdges' = AllEdges
    <2>1. UnderWay' = Empty
        <3>1. Merging' = {}
            BY <1>2 DEF Merging
        <3> QED
            BY <3>1 DEF UnderWay
    <2>2. UnderWay'.nodes = <<>> /\ UnderWay'.edges = <<>>
        BY <2>1 DEF Empty
    <2>3. AllNodes' = ns \o <<>> \o delta.nodes /\ AllEdges' = es \o <<>> \o delta.edges
        BY <1>1, <1>3, <1>7, <2>2 DEF AllNodes, AllEdges, Up
    <2>4. ns \o <<>> = ns /\ es \o <<>> = es
        BY <1>8, ConcatEmptySeq
    <2> QED
        BY <1>3, <2>3, <2>4
<1>11. StageInv'
    <2>1. phase[m] # "drain"
        BY <1>1
    <2> HIDE DEF SerialMerges
    <2> QED
        BY <1>1, <2>1, SameStage DEF QuietInv, WriteInv
<1>12. WriteInv'
    BY <1>1, <1>10, <1>11, SameWrites DEF QuietInv
<1>13. MergeInv'
    <2>1. Joined(drained'[m].edges, graph'.nodes \o drained'[m].nodes)
        BY <1>2 DEF Joined, Empty
    <2> QED
        BY <1>2, <2>1 DEF MergeInv, HasBuilt, Files, WritePhases
<1>14. ServedInv'
    <2>1. store' = Len(ns)
        BY <1>1, <1>4, <1>5, <1>8, EntsProperties
    <2> QED
        BY <1>1, <1>5, <1>7, <1>8, <1>9, <2>1 DEF ServedInv
<1>15. DiskInv'
    <2>1. \A f \in Files : disk[f] = built[m][f]
        <3>1. \A f \in Files : phase[m] \in Saved(f)
            BY <1>1, SavedPhases DEF AfterFiles
        <3> QED
            BY <1>3, <3>1 DEF QuietInv, HoldInv, DiskInv, ContentInv
    <2>2. \A f \in Files : built[m][f] = Snapshot(ns, es)[f]
        BY <1>4 DEF BuiltIs, ns, es
    <2>3. \A f \in Files : /\ "idle" \notin Saved(f) /\ "idle" # WritingOf(f)
                           /\ "swap" # WritingOf(f)
        BY SavedPhases DEF BeforeFiles, AfterFiles
    <2>4. disk.linked \/ disk.evecs = <<>>
        <3>1. \A n \in Mergers : phase[n] \notin {"writeEvecs", "eps"}
            BY <1>1
        <3> QED
            BY <1>3, <3>1 DEF QuietInv, HoldInv, DiskInv, ContentInv
    <2>5. WholeInv'
        BY <1>1, <1>2, <2>3 DEF QuietInv, HoldInv, DiskInv, WholeInv
    <2>6. ContentInv'
        BY <1>1, <1>2, <1>7, <2>1, <2>2, <2>3, <2>4 DEF ContentInv
    <2> QED
        BY <2>5, <2>6 DEF DiskInv
<1> QED
    BY <1>7, <1>10, <1>12, <1>13, <1>14, <1>15 DEF QuietInv, HoldInv, ns, es

\* A step of a merge preserves the invariant and what is held.
LEMMA QuietMergeStep ==
    ASSUME Quiet, TypeOK, QuietInv, NEW m \in Mergers, MergeStep(m) \/ MergeFails(m) \/ ForceMerge(m)
    PROVE  QuietInv' /\ AllNodes' = AllNodes /\ AllEdges' = AllEdges
<1>1. SerialMerges
    BY DEF Quiet
<1>2. CASE StartMerge(m) \/ ForceMerge(m)
    <2>1. \E who \in {"task", "request"} : Launch(m, who)
        BY <1>2 DEF StartMerge, ForceMerge
    <2>2. Up /\ stage' = stage /\ stage \in {"up", "closing"}
        BY <1>2 DEF StartMerge, ForceMerge, Up
    <2>3. stage' # "up" => InFlight = {}
        BY <2>2 DEF QuietInv, WriteInv, StageInv
    <2> QED
        BY <1>1, <2>1, <2>2, <2>3, QuietLaunch
<1>3. CASE MergeFails(m)
    <2>1. \E kind \in {"read", "write", "rebuild", "disconnect"} : Fault(kind)
        BY <1>3 DEF MergeFails
    <2> QED
        BY <2>1 DEF Fault, Quiet
<1>4. CASE SaveNodes(m) \/ SaveEdges(m) \/ SaveVecs(m) \/ SaveEdgeVecs(m) \/ SaveEndpoints(m)
    <2>1. PICK file \in Files, next \in HasBuilt :
            /\ Save(m, file, next)
            /\ <<file, next>> \in {<<"nodes", "edges">>, <<"edges", "vecs">>, <<"vecs", "evecs">>,
                                   <<"evecs", "eps">>, <<"eps", "truncate">>}
        BY <1>4 DEF SaveNodes, SaveEdges, SaveVecs, SaveEdgeVecs, SaveEndpoints, Files, HasBuilt
    <2>2. /\ \A f \in Files : next \in Saved(f) <=> file \in Saved(f) \/ f = file
          /\ next = "eps" <=> file = "evecs"
          /\ next # "swap"
        BY <2>1 DEF Files, Saved, HasBuilt, NodesSaved, EdgesSaved, VecsSaved, WritePhases
    <2>3. \A f \in Files : next # WritingOf(f)
        BY <2>1 DEF Files, WritingOf
    <2> QED
        BY <1>1, <2>1, <2>2, <2>3, QuietSave
<1>5. ASSUME NEW file \in Files, Open(m, file)
      PROVE  QuietInv' /\ AllNodes' = AllNodes /\ AllEdges' = AllEdges
    BY <1>1, <1>5, QuietOpen
<1> QED
    BY <1>1, <1>2, <1>3, <1>4, <1>5, QuietDrain, QuietBuild, NoPanics, QuietSkip, QuietTruncateRebuild,
       QuietSwap DEF MergeStep

-----------------------------------------------------------------------------
(***************************************************************************)
(* Start, shutdown and exit.                                               *)
(***************************************************************************)

\* When no merge is writing and the delta is empty, the files hold everything.
LEMMA FilesHoldAll ==
    ASSUME TypeOK, SerialMerges, QuietInv, Up, delta = Empty,
           \A m \in Mergers : phase[m] \in {"idle", "rebuild", "swap"}
    PROVE  disk.nodes = AllNodes /\ disk.edges = AllEdges
<1>1. /\ graph.nodes \in Seq(NodeType) /\ graph.edges \in Seq(EdgeType)
      /\ graph.nodes \o UnderWay.nodes \in Seq(NodeType)
      /\ graph.edges \o UnderWay.edges \in Seq(EdgeType)
    BY AllTypes
<1>2. /\ AllNodes = graph.nodes \o UnderWay.nodes
      /\ AllEdges = graph.edges \o UnderWay.edges
    <2>1. /\ AllNodes = graph.nodes \o UnderWay.nodes \o <<>>
          /\ AllEdges = graph.edges \o UnderWay.edges \o <<>>
        BY DEF AllNodes, AllEdges, Up, Empty
    <2> QED
        BY <1>1, <2>1, ConcatEmptySeq
<1>3. DiskInv /\ MergeInv
    BY DEF QuietInv, HoldInv
<1>4. CASE \A m \in Mergers : phase[m] = "idle"
    <2>1. Merging = {}
        BY <1>4 DEF Merging
    <2>2. UnderWay.nodes = <<>> /\ UnderWay.edges = <<>>
        BY <2>1 DEF UnderWay, Empty
    <2>3. graph.nodes \o <<>> = graph.nodes /\ graph.edges \o <<>> = graph.edges
        BY <1>1, ConcatEmptySeq
    <2>4. \A f \in Files : "idle" \notin Saved(f) /\ "idle" # WritingOf(f)
        BY SavedPhases DEF BeforeFiles
    <2>5. \A f \in Files : disk[f] = Snapshot(graph.nodes, graph.edges)[f]
        BY <1>3, <1>4, <2>4 DEF DiskInv, ContentInv
    <2>6. disk.nodes = graph.nodes /\ disk.edges = graph.edges
        BY <2>5, SnapshotFields
    <2> QED
        BY <1>2, <2>2, <2>3, <2>6
<1>5. ASSUME NEW m \in Mergers, phase[m] \in {"rebuild", "swap"}
      PROVE  disk.nodes = AllNodes /\ disk.edges = AllEdges
    <2>1. UnderWay = drained[m]
        BY <1>3, UnderWayIs
    <2>2. BuiltIs(m)
        BY <1>3, <1>5 DEF MergeInv, HasBuilt
    <2>3. \A f \in Files : phase[m] \in Saved(f)
        BY <1>5, SavedPhases DEF AfterFiles
    <2>4. \A f \in Files : disk[f] = built[m][f]
        BY <1>3, <2>3 DEF DiskInv, ContentInv
    <2>5. \A f \in Files : disk[f] = Snapshot(graph.nodes \o drained[m].nodes,
                                              graph.edges \o drained[m].edges)[f]
        BY <2>2, <2>4 DEF BuiltIs
    <2> DEFINE ns == graph.nodes \o drained[m].nodes
               es == graph.edges \o drained[m].edges
    <2> HIDE DEF ns, es
    <2>6. disk.nodes = ns /\ disk.edges = es
        <3>1. \A f \in Files : disk[f] = Snapshot(ns, es)[f]
            BY <2>5 DEF ns, es
        <3> QED
            BY <3>1, SnapshotFields
    <2> QED
        BY <1>2, <2>1, <2>6 DEF ns, es
<1> QED
    BY <1>4, <1>5

\* The shutdown begins when nobody writes, and has the rest of the delta merged.
LEMMA QuietShutdown ==
    ASSUME TypeOK, SerialMerges, QuietInv, Shutdown
    PROVE  QuietInv' /\ AllNodes' = AllNodes /\ AllEdges' = AllEdges
<1>1. stage = "up" /\ stage' = "closing" /\ InFlight = {}
    BY DEF Shutdown
<1>2. CASE DeltaSize > 0
    <2>1. PICK m \in Mergers : Launch(m, "main")
        BY <1>2 DEF Shutdown
    <2> QED
        BY <1>1, <2>1, QuietLaunch DEF Up
<1>3. CASE ~ (DeltaSize > 0)
    <2>1. UNCHANGED <<delta, nextNodeId, indexVars, disk, writeVars, mergeVars>>
        BY <1>3 DEF Shutdown
    <2>2. delta = Empty
        <3>1. /\ delta \in GraphType
              /\ delta.nodes \in Seq(NodeType) /\ delta.edges \in Seq(EdgeType)
            BY AllTypes DEF TypeOK, DeltaTypeOK
        <3>4. Len(delta.nodes) \in Nat /\ Len(delta.edges) \in Nat
            BY <3>1, LenProperties
        <3>5. \A p, q \in Nat : p + q > 0 \/ (p = 0 /\ q = 0)
            OBVIOUS
        <3>2. Len(delta.nodes) = 0 /\ Len(delta.edges) = 0
            BY <1>3, <3>4, <3>5, Zenon DEF DeltaSize
        <3>3. delta.nodes = <<>> /\ delta.edges = <<>>
            BY <3>1, <3>2, EmptySeq
        <3> QED
            BY <3>1, <3>3 DEF GraphType, Empty
    <2>3. AllNodes' = AllNodes /\ AllEdges' = AllEdges
        <3>1. UnderWay' = UnderWay
            BY <2>1, SameUnderWay DEF mergeVars
        <3> QED
            BY <1>1, <2>1, <3>1 DEF AllNodes, AllEdges, indexVars
    <2>4. StageInv'
        <3>1. InFlight' = {}
            BY <1>1, <2>1 DEF InFlight, writeVars
        <3> QED
            BY <1>1, <2>1, <2>2, <3>1 DEF StageInv
    <2>5. WriteInv'
        BY <2>1, <2>3, <2>4, SameWrites DEF QuietInv
    <2>6. Up /\ Up'
        BY <1>1 DEF Up
    <2>7. HoldInv'
        BY <2>1, <2>6 DEF QuietInv, HoldInv, MergeInv, ServedInv, DiskInv, WholeInv, ContentInv,
            BuiltIs, indexVars, mergeVars
    <2> QED
        BY <2>3, <2>5, <2>7 DEF QuietInv
<1> QED
    BY <1>2, <1>3

\* When the process is gone the files are all there is, and hold all there was.
LEMMA QuietExit ==
    ASSUME TypeOK, SerialMerges, QuietInv, Exit
    PROVE  QuietInv' /\ AllNodes' = AllNodes /\ AllEdges' = AllEdges
<1>1. /\ stage = "closing" /\ stage' = "exited" /\ Up /\ ~ Up'
      /\ \A m \in Mergers : phase[m] \in {"idle", "rebuild", "swap"}
      /\ \A m \in Mergers : phase'[m] = "idle" /\ drained'[m] = Empty
      /\ pc' = [w \in Writers |-> IF w \in InFlight THEN "failed" ELSE pc[w]]
      /\ UNCHANGED <<nextNodeId, disk, ids, toAdd>>
    BY DEF Exit, Vanish, Up
<1>2. InFlight = {}
    BY <1>1 DEF QuietInv, WriteInv, StageInv
<1>3. delta = Empty
    BY <1>1 DEF QuietInv, WriteInv, StageInv
<1>4. AllNodes' = AllNodes /\ AllEdges' = AllEdges
    <2>1. AllNodes' = disk.nodes /\ AllEdges' = disk.edges
        BY <1>1 DEF AllNodes, AllEdges
    <2> QED
        BY <1>1, <1>3, <2>1, FilesHoldAll
<1>5. UNCHANGED writeVars
    BY <1>1, <1>2 DEF writeVars, TypeOK, WriterTypeOK
<1>6. StageInv'
    BY <1>1, <1>2, <1>5 DEF StageInv, InFlight, writeVars
<1>7. WriteInv'
    BY <1>1, <1>4, <1>5, <1>6, SameWrites DEF QuietInv
<1>8. MergeInv'
    BY <1>1 DEF MergeInv, Joined, Empty, HasBuilt, Files, WritePhases
<1>9. ServedInv' /\ DiskInv'
    <2>1. \A f \in Files : \A p \in {"idle", "rebuild", "swap"} : p # WritingOf(f)
        BY SavedPhases DEF BeforeFiles, AfterFiles
    <2>2. WholeInv'
        BY <1>1, <2>1 DEF QuietInv, HoldInv, DiskInv, WholeInv
    <2> QED
        BY <1>1, <2>2 DEF ServedInv, DiskInv, ContentInv
<1> QED
    BY <1>4, <1>7, <1>8, <1>9 DEF QuietInv, HoldInv

\* The process starts from the first snapshot.
LEMMA QuietInit == Init => QuietInv
<1> SUFFICES ASSUME Init PROVE QuietInv
    OBVIOUS
<1> DEFINE ns == FirstSnapshot.nodes
           es == FirstSnapshot.edges
<1>1. /\ FirstSnapshot \in SnapshotType
      /\ ns \in Seq(NodeType) /\ es \in Seq(EdgeType)
    BY FirstSnapshotType DEF SnapshotType
<1>2. /\ ns = [i \in DOMAIN SeedEnts |-> [id |-> i - 1, ent |-> SeedEnts[i], origin |-> <<Seeder, i>>]]
      /\ es = <<[from |-> 0, to |-> 0, src |-> SeedEnts[1], dst |-> SeedEnts[1],
                 origin |-> <<Seeder, 1>>]>>
      /\ FirstSnapshot.vecs = SeedEnts /\ FirstSnapshot.evecs = <<>> /\ FirstSnapshot.eps = <<>>
      /\ FirstSnapshot.linked = FALSE /\ FirstSnapshot.cut = {} /\ FirstSnapshot.mixed = {}
    BY DEF FirstSnapshot
<1>3. /\ SeedEnts \in Seq(Entities) /\ Len(SeedEnts) \in Nat \ {0}
      /\ DOMAIN SeedEnts = 1..Len(SeedEnts)
    BY BoundsAssumption, LenProperties, EmptySeq
<1>4. /\ DOMAIN ns = 1..Len(SeedEnts) /\ Len(ns) = Len(SeedEnts)
      /\ \A i \in 1..Len(SeedEnts) : ns[i].id = i - 1 /\ ns[i].ent = SeedEnts[i]
    <2>1. DOMAIN ns = 1..Len(SeedEnts) /\ \A i \in 1..Len(SeedEnts) :
            ns[i].id = i - 1 /\ ns[i].ent = SeedEnts[i]
        BY <1>2, <1>3
    <2>2. DOMAIN ns = 1..Len(ns) /\ Len(ns) \in Nat
        BY <1>1, LenProperties
    <2> HIDE DEF ns
    <2> QED
        BY <1>3, <2>1, <2>2
<1>5. es # <<>> /\ Len(es) = 1 /\ DOMAIN es = {1}
      /\ es[1].from = 0 /\ es[1].to = 0 /\ es[1].src = SeedEnts[1] /\ es[1].dst = SeedEnts[1]
    BY <1>2
<1>6. EntsOf(ns) = SeedEnts
    <2>1. EntsOf(ns) = [i \in 1..Len(SeedEnts) |-> SeedEnts[i]]
        BY <1>4 DEF EntsOf
    <2> QED
        BY <1>3, <2>1
<1>7. TextsOf(es) = <<>> /\ EndsOf(es) = <<>>
    <2>1. /\ TextsOf(es) \in Seq(Entities \X Entities) /\ Len(TextsOf(es)) = 0
          /\ EndsOf(es) \in Seq(Nat \X Nat) /\ Len(EndsOf(es)) = 0
        <3> HIDE DEF es
        <3>1. /\ TextsOf(es) \in Seq(Entities \X Entities) /\ Len(TextsOf(es)) = Len(es) - 1
              /\ EndsOf(es) \in Seq(Nat \X Nat) /\ Len(EndsOf(es)) = Len(es) - 1
            BY ONLY <1>1, <1>5, EdgeFilesTypes
        <3>2. Len(es) - 1 = 0
            BY ONLY <1>5
        <3> QED
            BY ONLY <3>1, <3>2
    <2> QED
        BY <2>1, EmptySeq
<1>8. Joined(es, ns) /\ Numbered(ns)
    BY <1>3, <1>4, <1>5 DEF Joined, Leads, Numbered
<1> HIDE DEF ns, es
<1>9. /\ stage = "up" /\ disk = FirstSnapshot
      /\ graph = [nodes |-> ns, edges |-> es] /\ hnsw = SeedEnts /\ store = Len(SeedEnts)
      /\ edgeHnsw = [evecs |-> <<>>, eps |-> <<>>]
      /\ delta = Empty /\ nextNodeId = Len(ns)
      /\ \A w \in Writers : pc[w] = "idle" /\ ids[w] = <<>> /\ toAdd[w] = <<>>
      /\ \A m \in Mergers : phase[m] = "idle" /\ drained[m] = Empty
    BY <1>2 DEF Init, GraphOf, EmptyEdgeIndex, ns, es
<1>10. graph.nodes = ns /\ graph.edges = es
    BY <1>9
<1>11. AllNodes = ns /\ AllEdges = es
    <2>1. Merging = {}
        BY <1>9 DEF Merging
    <2>2. UnderWay.nodes = <<>> /\ UnderWay.edges = <<>> /\ delta.nodes = <<>> /\ delta.edges = <<>>
        BY <1>9, <2>1 DEF UnderWay, Empty
    <2>3. AllNodes = ns \o <<>> \o <<>> /\ AllEdges = es \o <<>> \o <<>>
        BY <1>9, <1>10, <2>2 DEF AllNodes, AllEdges
    <2>4. ns \o <<>> = ns /\ es \o <<>> = es
        BY <1>1, ConcatEmptySeq DEF ns, es
    <2> QED
        BY <2>3, <2>4
<1>12. InFlight = {}
    BY <1>9 DEF InFlight
<1>13. StageInv /\ ClientInv
    BY <1>9, <1>12 DEF StageInv, ClientInv
<1>14. NumberInv
    BY <1>8, <1>9, <1>11 DEF NumberInv, NumberOf, Numbering
<1>15. KeptInv
    BY <1>8, <1>9, <1>11 DEF KeptInv, KeptOf, NodesPushed
<1>16. MergeInv
    BY <1>9 DEF MergeInv, Joined, Empty, HasBuilt, Files, WritePhases
<1>17. ServedInv
    BY <1>4, <1>5, <1>6, <1>7, <1>8, <1>9, <1>10 DEF ServedInv
<1>18. DiskInv
    <2>1. \A f \in Files : "idle" \notin Saved(f) /\ "idle" # WritingOf(f)
        BY SavedPhases DEF BeforeFiles
    <2>4. WholeInv
        BY <1>2, <1>9, <2>1 DEF WholeInv
    <2>2. \A f \in Files : disk[f] = Snapshot(graph.nodes, graph.edges)[f]
        <3>1. Snapshot(ns, es) = [nodes |-> ns, edges |-> es, vecs |-> SeedEnts,
                                  evecs |-> <<>>, eps |-> <<>>]
            BY <1>6, <1>7 DEF Snapshot
        <3>2. FirstSnapshot.nodes = ns /\ FirstSnapshot.edges = es
            BY DEF ns, es
        <3>3. \A f \in Files : FirstSnapshot[f] = Snapshot(ns, es)[f]
            <4>1. /\ Snapshot(ns, es)["nodes"] = ns /\ Snapshot(ns, es)["edges"] = es
                  /\ Snapshot(ns, es)["vecs"] = SeedEnts
                  /\ Snapshot(ns, es)["evecs"] = <<>> /\ Snapshot(ns, es)["eps"] = <<>>
                BY <3>1
            <4>2. /\ FirstSnapshot["nodes"] = ns /\ FirstSnapshot["edges"] = es
                  /\ FirstSnapshot["vecs"] = SeedEnts
                  /\ FirstSnapshot["evecs"] = <<>> /\ FirstSnapshot["eps"] = <<>>
                BY <1>2, <3>2
            <4> QED
                BY <4>1, <4>2 DEF Files
        <3> QED
            BY <1>9, <1>10, <3>3
    <2>3. disk.evecs = <<>>
        BY <1>2, <1>9
    <2> QED
        BY <1>9, <2>1, <2>2, <2>3, <2>4 DEF DiskInv, ContentInv
<1> QED
    BY <1>13, <1>14, <1>15, <1>16, <1>17, <1>18 DEF QuietInv, WriteInv, HoldInv

\* QuietInv is inductive.
LEMMA QuietStep ==
    ASSUME Quiet, TypeOK, QuietInv, [Next]_vars
    PROVE  QuietInv'
<1>1. SerialMerges
    BY DEF Quiet
<1>2. ASSUME UNCHANGED vars PROVE QuietInv'
    <2>1. /\ UNCHANGED <<stage, graph, delta, disk, phase, drained, writeVars, nextNodeId>>
          /\ UNCHANGED <<indexVars, mergeVars>>
        BY <1>2 DEF vars, indexVars, mergeVars
    <2>2. AllNodes' = AllNodes /\ AllEdges' = AllEdges
        BY <2>1, SameHeld
    <2>3. StageInv'
        BY <2>1 DEF QuietInv, WriteInv, StageInv, InFlight, writeVars
    <2>4. WriteInv'
        BY <2>1, <2>2, <2>3, SameWrites DEF QuietInv
    <2>5. HoldInv'
        BY <2>1, SameHold DEF QuietInv
    <2> QED
        BY <2>4, <2>5 DEF QuietInv
<1>3. ~ Crash
    BY DEF Crash, Fault, Quiet
<1>4. ~ Boot
    BY DEF Boot, QuietInv, WriteInv, StageInv
<1> QED
    BY <1>1, <1>2, <1>3, <1>4, QuietWriterStep, QuietMergeStep, QuietShutdown, QuietExit
        DEF Next, Quiescent

\* The invariant of a quiet engine.
LEMMA QuietInvariant ==
    ASSUME Quiet
    PROVE  Spec => []QuietInv
<1>1. TypeOK /\ QuietInv /\ [Next]_vars => QuietInv'
    BY QuietStep
<1> QED
    BY <1>1, QuietInit, TypeCorrect, PTL DEF Spec

-----------------------------------------------------------------------------
(***************************************************************************)
(* What follows for the engine's own properties.                           *)
(***************************************************************************)

\* The origins of what is held, part by part.
LEMMA HeldOrigins ==
    ASSUME TypeOK, Up
    PROVE  Origins(AllNodes) \subseteq HeldNodes /\ Origins(AllEdges) \subseteq HeldEdges
<1>1. /\ graph.nodes \in Seq(NodeType) /\ graph.edges \in Seq(EdgeType)
      /\ UnderWay.nodes \in Seq(NodeType) /\ UnderWay.edges \in Seq(EdgeType)
      /\ delta.nodes \in Seq(NodeType) /\ delta.edges \in Seq(EdgeType)
      /\ graph.nodes \o UnderWay.nodes \in Seq(NodeType)
      /\ graph.edges \o UnderWay.edges \in Seq(EdgeType)
    BY AllTypes
<1>2. /\ AllNodes = graph.nodes \o UnderWay.nodes \o delta.nodes
      /\ AllEdges = graph.edges \o UnderWay.edges \o delta.edges
    BY DEF AllNodes, AllEdges, Up
<1> DEFINE Three(s, t, u) == Origins((s \o t) \o u) = Origins(s) \cup Origins(t) \cup Origins(u)
<1>6. \A S : \A s, t, u \in Seq(S) : Three(s, t, u)
    <2> SUFFICES ASSUME NEW S, NEW s \in Seq(S), NEW t \in Seq(S), NEW u \in Seq(S)
                 PROVE  Three(s, t, u)
        OBVIOUS
    <2>1. s \o t \in Seq(S) /\ Origins(s \o t) = Origins(s) \cup Origins(t)
        BY ConcatProperties, OriginsOfConcat
    <2> DEFINE st == s \o t
    <2>2. st \in Seq(S)
        BY <2>1
    <2> HIDE DEF st
    <2>3. Origins(st \o u) = Origins(st) \cup Origins(u)
        BY <2>2, OriginsOfConcat
    <2> QED
        BY <2>1, <2>3, Zenon DEF st
<1>3. Origins(AllNodes) = Origins(graph.nodes) \cup Origins(UnderWay.nodes) \cup Origins(delta.nodes)
    <2>1. Three(graph.nodes, UnderWay.nodes, delta.nodes)
        <3> HIDE DEF Three
        <3> QED
            BY <1>1, <1>6, Zenon
    <2> QED
        BY <1>2, <2>1
<1>4. Origins(AllEdges) = Origins(graph.edges) \cup Origins(UnderWay.edges) \cup Origins(delta.edges)
    <2>1. Three(graph.edges, UnderWay.edges, delta.edges)
        <3> HIDE DEF Three
        <3> QED
            BY <1>1, <1>6, Zenon
    <2> QED
        BY <1>2, <2>1
<1>5. /\ Origins(UnderWay.nodes) \subseteq UNION {Origins(drained[m].nodes) : m \in Merging}
      /\ Origins(UnderWay.edges) \subseteq UNION {Origins(drained[m].edges) : m \in Merging}
    <2>1. CASE Merging = {}
        BY <2>1 DEF UnderWay, Empty, Origins
    <2>2. CASE Merging # {}
        <3>1. PICK m \in Merging : UnderWay = drained[m]
            BY <2>2 DEF UnderWay
        <3> QED
            BY <3>1
    <2> QED
        BY <2>1, <2>2
<1> QED
    BY <1>3, <1>4, <1>5 DEF HeldNodes, HeldEdges

\* When requests are handled one at a time, merges do not overlap and nothing
\* but the WAL fails, an answered ingest is never forgotten: its nodes and edges
\* are in the graph, in the delta or in the merge that drained them, between any
\* two steps of handlers and run_merge.
THEOREM QuietKeepsWrites ==
    ASSUME Quiet
    PROVE  Spec => []NoWriteForgotten
<1>1. TypeOK /\ QuietInv => NoWriteForgotten
    <2> SUFFICES ASSUME TypeOK, QuietInv, Up, NEW w \in Writers, pc[w] = "done"
                 PROVE  /\ Origins(toAdd[w]) \subseteq HeldNodes
                        /\ Origins(EdgesOf(w)) \subseteq HeldEdges
        BY DEF NoWriteForgotten
    <2>1. /\ Origins(toAdd[w]) \subseteq Origins(AllNodes)
          /\ Origins(EdgesOf(w)) \subseteq Origins(AllEdges)
        BY DEF QuietInv, WriteInv, KeptInv, KeptOf, NodesPushed
    <2> QED
        BY <2>1, HeldOrigins
<1> QED
    BY <1>1, QuietInvariant, TypeCorrect, PTL

\* The flush of a clean exit leaves nothing behind, whether the delta held it
\* when the signal came or a merge under way.
THEOREM QuietFlushes ==
    ASSUME Quiet
    PROVE  Spec => []FlushedOnExit
<1>1. QuietInv => FlushedOnExit
    <2> SUFFICES ASSUME QuietInv, stage = "exited", NEW w \in Writers, pc[w] = "done"
                 PROVE  /\ Origins(toAdd[w]) \subseteq Origins(disk.nodes)
                        /\ Origins(EdgesOf(w)) \subseteq Origins(disk.edges)
        BY DEF FlushedOnExit
    <2>1. AllNodes = disk.nodes /\ AllEdges = disk.edges
        BY DEF AllNodes, AllEdges
    <2> QED
        BY <2>1 DEF QuietInv, WriteInv, KeptInv, KeptOf, NodesPushed
<1> QED
    BY <1>1, QuietInvariant, PTL

\* The indices that queries search describe one graph, and so does the vectors
\* file that the store has mapped, but for the time in which a merge writes it.
THEOREM QuietIndicesAgree ==
    ASSUME Quiet
    PROVE  Spec => []IndicesAgree
<1>1. SerialMerges
    BY DEF Quiet
<1>2. ASSUME TypeOK, QuietInv PROVE IndicesAgree
    <2> SUFFICES ASSUME Up
                 PROVE  /\ Len(hnsw) = Len(graph.nodes) /\ store = Len(graph.nodes)
                        /\ \A i \in DOMAIN graph.nodes : hnsw[i] = graph.nodes[i].ent
                        /\ "vecs" \notin disk.cut =>
                              /\ store <= Len(disk.vecs)
                              /\ \A i \in DOMAIN graph.nodes : disk.vecs[i] = graph.nodes[i].ent
                        /\ Len(edgeHnsw.eps) + Len(FirstSnapshot.edges) = Len(graph.edges)
                        /\ \A j \in DOMAIN edgeHnsw.eps :
                              <<graph.nodes[edgeHnsw.eps[j][1] + 1].ent,
                                graph.nodes[edgeHnsw.eps[j][2] + 1].ent>> = edgeHnsw.evecs[j]
        BY DEF IndicesAgree
    <2>1. DiskInv /\ MergeInv /\ ServedInv
        BY <1>2 DEF QuietInv, HoldInv
    <2>2. graph.nodes \in Seq(NodeType) /\ graph.edges \in Seq(EdgeType)
        BY <1>2, AllTypes
    <2>3. /\ graph.edges # <<>> /\ Joined(graph.edges, graph.nodes)
          /\ hnsw = EntsOf(graph.nodes) /\ store = Len(graph.nodes)
          /\ edgeHnsw = [evecs |-> TextsOf(graph.edges), eps |-> EndsOf(graph.edges)]
        BY <2>1 DEF ServedInv
    <2>4. /\ Len(hnsw) = Len(graph.nodes)
          /\ \A i \in DOMAIN graph.nodes : hnsw[i] = graph.nodes[i].ent
        BY <2>2, <2>3, EntsProperties
    <2>5. ASSUME "vecs" \notin disk.cut
          PROVE  /\ Len(graph.nodes) <= Len(disk.vecs)
                 /\ \A i \in DOMAIN graph.nodes : disk.vecs[i] = graph.nodes[i].ent
        <3>1. CASE \A m \in Mergers : phase[m] \notin Saved("vecs")
            <4>5. "vecs" \in Files /\ \A m \in Mergers : phase[m] # WritingOf("vecs")
                BY <2>1, <2>5 DEF DiskInv, WholeInv, Files
            <4>1. disk["vecs"] = Snapshot(graph.nodes, graph.edges)["vecs"]
                BY <2>1, <3>1, <4>5 DEF DiskInv, ContentInv
            <4>2. disk.vecs = EntsOf(graph.nodes)
                BY <4>1 DEF Snapshot
            <4>3. Len(graph.nodes) \in Nat
                BY <2>2, LenProperties
            <4> QED
                BY <2>3, <2>4, <4>2, <4>3
        <3>2. ASSUME NEW m \in Mergers, phase[m] \in Saved("vecs")
              PROVE  /\ Len(graph.nodes) <= Len(disk.vecs)
                     /\ \A i \in DOMAIN graph.nodes : disk.vecs[i] = graph.nodes[i].ent
            <4>1. phase[m] \in HasBuilt
                BY <3>2 DEF Saved, NodesSaved, EdgesSaved, VecsSaved
            <4>2. BuiltIs(m) /\ UnderWay = drained[m]
                BY <1>1, <2>1, <4>1, UnderWayIs DEF MergeInv
            <4> DEFINE ns == graph.nodes \o drained[m].nodes
                       es == graph.edges \o drained[m].edges
            <4>3. drained[m].nodes \in Seq(NodeType)
                BY <1>2, <4>2, AllTypes
            <4>4. /\ ns \in Seq(NodeType) /\ Len(graph.nodes) <= Len(ns)
                  /\ \A i \in DOMAIN graph.nodes : i \in DOMAIN ns /\ ns[i] = graph.nodes[i]
                <5>1. \A p, q \in Seq(NodeType) :
                        /\ p \o q \in Seq(NodeType) /\ Len(p) <= Len(p \o q)
                        /\ \A i \in DOMAIN p : i \in DOMAIN (p \o q) /\ (p \o q)[i] = p[i]
                    <6> SUFFICES ASSUME NEW p \in Seq(NodeType), NEW q \in Seq(NodeType)
                                 PROVE  /\ p \o q \in Seq(NodeType) /\ Len(p) <= Len(p \o q)
                                        /\ \A i \in DOMAIN p :
                                              i \in DOMAIN (p \o q) /\ (p \o q)[i] = p[i]
                        BY Zenon
                    <6>1. /\ Len(p) \in Nat /\ Len(q) \in Nat /\ Len(p \o q) = Len(p) + Len(q)
                          /\ p \o q \in Seq(NodeType) /\ DOMAIN p = 1..Len(p)
                          /\ \A i \in 1..Len(p) : i \in DOMAIN (p \o q) /\ (p \o q)[i] = p[i]
                        BY ConcatElements
                    <6>2. \A k, l \in Nat : k <= k + l
                        OBVIOUS
                    <6>3. Len(p) <= Len(p \o q)
                        BY <6>1, <6>2, Zenon
                    <6> QED
                        BY <6>1, <6>3, Zenon
                <5> QED
                    BY <2>2, <4>3, <5>1, Zenon
            <4>5. \A f \in Files : built[m][f] = Snapshot(ns, es)[f]
                BY <4>2 DEF BuiltIs
            <4> HIDE DEF ns, es
            <4>6. built[m].vecs = EntsOf(ns)
                BY <4>5, SnapshotFields
            <4>7. disk["vecs"] = built[m]["vecs"]
                BY <2>1, <3>2 DEF DiskInv, ContentInv, Files
            <4>8. disk.vecs = EntsOf(ns)
                BY <4>6, <4>7
            <4>9. Len(EntsOf(ns)) = Len(ns) /\ \A i \in DOMAIN ns : EntsOf(ns)[i] = ns[i].ent
                BY <4>4, EntsProperties
            <4>10. Len(graph.nodes) <= Len(EntsOf(ns))
                BY <4>4, <4>9
            <4>11. \A i \in DOMAIN graph.nodes : EntsOf(ns)[i] = graph.nodes[i].ent
                BY <4>4, <4>9
            <4> QED
                BY <4>8, <4>10, <4>11, Zenon
        <3> QED
            BY <3>1, <3>2
    <2>6. Len(edgeHnsw.eps) + Len(FirstSnapshot.edges) = Len(graph.edges)
        <3>1. Len(EndsOf(graph.edges)) = Len(graph.edges) - 1
            BY <2>2, <2>3, EdgeFilesTypes
        <3>2. Len(FirstSnapshot.edges) = 1
            BY DEF FirstSnapshot
        <3>3. Len(graph.edges) \in Nat
            BY <2>2, LenProperties
        <3> QED
            BY <2>3, <3>1, <3>2, <3>3
    <2>7. ASSUME NEW j \in DOMAIN edgeHnsw.eps
          PROVE  <<graph.nodes[edgeHnsw.eps[j][1] + 1].ent,
                   graph.nodes[edgeHnsw.eps[j][2] + 1].ent>> = edgeHnsw.evecs[j]
        <3>1. /\ DOMAIN EndsOf(graph.edges) = 1..(Len(graph.edges) - 1)
              /\ Len(graph.edges) \in Nat /\ DOMAIN graph.edges = 1..Len(graph.edges)
            BY <2>2, <2>3, EdgeFilesTypes, LenProperties
        <3>2. j \in 1..(Len(graph.edges) - 1) /\ j + 1 \in DOMAIN graph.edges
            BY <2>3, <2>7, <3>1
        <3> DEFINE e == graph.edges[j + 1]
        <3>3. edgeHnsw.eps[j] = <<e.from, e.to>> /\ edgeHnsw.evecs[j] = <<e.src, e.dst>>
            BY <2>3, <3>2 DEF EndsOf, TextsOf
        <3>4. graph.nodes[e.from + 1].ent = e.src /\ graph.nodes[e.to + 1].ent = e.dst
            BY <2>3, <3>2 DEF Joined, Leads
        <3> HIDE DEF e
        <3> QED
            BY <3>3, <3>4
    <2> QED
        BY <2>3, <2>4, <2>5, <2>6, <2>7
<1> QED
    BY <1>2, QuietInvariant, TypeCorrect, PTL


\* A process that is gone serves nothing.
GoneInv == stage = "exited" => graph = Empty

LEMMA QuietGone ==
    ASSUME Quiet, QuietInv, GoneInv, [Next]_vars
    PROVE  GoneInv'
<1> SUFFICES ASSUME stage' = "exited" PROVE graph' = Empty
    BY DEF GoneInv
<1>1. ASSUME UNCHANGED <<stage, graph>> PROVE graph' = Empty
    BY <1>1 DEF GoneInv
<1>2. CASE UNCHANGED vars \/ Quiescent
    BY <1>1, <1>2 DEF vars, Quiescent, indexVars
<1>3. ASSUME NEW w \in Writers, Begin(w) \/ WriterStep(w) PROVE UNCHANGED <<stage, graph>>
    BY <1>3 DEF Begin, WriterStep, ResolveExisting, ResolveNew, ResolvePanics, ResolveDone,
        WriteNodesWal, AddNodes, WriteEdgesWal, AddEdges, Finish, indexVars
<1>4. ASSUME NEW m \in Mergers, MergeStep(m) \/ MergeFails(m) \/ ForceMerge(m)
      PROVE  UNCHANGED <<stage, graph>>
    <2>1. UNCHANGED stage
        BY <1>4 DEF MergeStep, StartMerge, ForceMerge, Launch, Drain, Build, BuildPanics, MergeFails,
            Open, SaveNodes, SaveEdges, SaveVecs, SaveEdgeVecs, SkipEdgeVecs, SaveEndpoints, Save,
            Truncate, Rebuild, RebuildPanics, Swap
    <2>2. ~ Swap(m)
        BY <2>1 DEF Swap, QuietInv, HoldInv, MergeInv, Up
    <2>3. UNCHANGED graph
        BY <1>4, <2>2 DEF MergeStep, StartMerge, ForceMerge, Launch, Drain, Build, BuildPanics,
            MergeFails, Open, SaveNodes, SaveEdges, SaveVecs, SaveEdgeVecs, SkipEdgeVecs,
            SaveEndpoints, Save, Truncate, Rebuild, RebuildPanics, indexVars
    <2> QED
        BY <2>1, <2>3
<1>5. CASE Exit
    BY <1>5 DEF Exit, Vanish
<1>6. ~ Crash /\ ~ Boot /\ ~ Shutdown
    BY DEF Crash, Boot, Shutdown
<1> QED
    BY <1>1, <1>2, <1>3, <1>4, <1>5, <1>6 DEF Next

\* An edge of the main graph joins the two entities its request named: what two
\* requests in flight can break (by numbering nodes in one order and pushing them
\* in another) holds whenever requests are handled one at a time.
THEOREM QuietEdgesJoinNamedEntities ==
    ASSUME Quiet
    PROVE  Spec => []EdgesJoinNamedEntities
<1>1. Init => GoneInv
    BY DEF Init, GoneInv
<1>2. QuietInv /\ GoneInv /\ [Next]_vars => GoneInv'
    BY QuietGone
<1>3. ASSUME QuietInv, GoneInv PROVE EdgesJoinNamedEntities
    <2>1. CASE stage = "exited"
        BY <1>3, <2>1 DEF GoneInv, Empty, EdgesJoinNamedEntities
    <2>2. CASE stage # "exited"
        <3>1. Joined(graph.edges, graph.nodes)
            BY <1>3, <2>2 DEF QuietInv, WriteInv, HoldInv, StageInv, ServedInv, Up
        <3> QED
            BY <3>1 DEF Joined, Leads, EdgesJoinNamedEntities
    <2> QED
        BY <2>1, <2>2
<1> QED
    BY <1>1, <1>2, <1>3, QuietInvariant, PTL DEF Spec

-----------------------------------------------------------------------------
(***************************************************************************)
(* The refinement.  Content and Served are facts about what is held and    *)
(* what is served; only four actions of the engine change either.          *)
(***************************************************************************)

ContentIs == Content = [known |-> Named(AllNodes), related |-> Said(AllEdges)]
ServedIs  == stage # "exited" => Served = [known |-> Named(graph.nodes), related |-> Said(graph.edges)]

\* What is served is a part of the content, and its relations join its entities.
ServedIsPart ==
    Served.known \subseteq Content.known /\ Served.related \subseteq Content.related
ServedIsWhole == \A r \in Served.related : r[2] \in Served.known /\ r[3] \in Served.known

Views == ContentIs /\ ServedIs /\ ServedIsPart /\ ServedIsWhole

\* Content and Served are what nodes and edges say.
LEMMA WhatIsThere ==
    ASSUME TypeOK, QuietInv
    PROVE  ContentIs /\ ServedIs
<1>1. Content = Facts(AllNodes, AllEdges)
    BY DEF Content, AllNodes, AllEdges
<1>2. Joined(AllEdges, AllNodes)
    BY DEF QuietInv, WriteInv, KeptInv
<1>3. AllNodes \in Seq(NodeType) /\ AllEdges \in Seq(EdgeType)
    BY AllTypes
<1>4. ContentIs
    BY <1>1, <1>2, <1>3, JoinedFacts DEF ContentIs
<1>5. ASSUME stage # "exited"
      PROVE  Served = [known |-> Named(graph.nodes), related |-> Said(graph.edges)]
    <2>1. Served = Facts(graph.nodes, graph.edges)
        BY <1>5 DEF Served
    <2>2. Joined(graph.edges, graph.nodes)
        BY <1>5 DEF QuietInv, WriteInv, HoldInv, StageInv, ServedInv, Up
    <2> QED
        BY <2>1, <2>2, AllTypes, JoinedFacts
<1> QED
    BY <1>4, <1>5 DEF ServedIs

\* What is served is a part of the content.
LEMMA ServedIsContent ==
    ASSUME TypeOK, QuietInv
    PROVE  ServedIsPart
<1> SUFFICES Served.known \subseteq Content.known /\ Served.related \subseteq Content.related
    BY DEF ServedIsPart
<1>1. CASE stage = "exited"
    BY <1>1 DEF Served
<1>2. CASE stage # "exited"
    <2>1. /\ Content.known = Named(AllNodes) /\ Content.related = Said(AllEdges)
          /\ Served.known = Named(graph.nodes) /\ Served.related = Said(graph.edges)
        BY <1>2, WhatIsThere DEF ContentIs, ServedIs
    <2> DEFINE gn == graph.nodes \o UnderWay.nodes
               ge == graph.edges \o UnderWay.edges
    <2>2. AllNodes = gn \o delta.nodes /\ AllEdges = ge \o delta.edges
        BY <1>2 DEF AllNodes, AllEdges
    <2>3. /\ graph.nodes \in Seq(NodeType) /\ graph.edges \in Seq(EdgeType)
          /\ UnderWay.nodes \in Seq(NodeType) /\ UnderWay.edges \in Seq(EdgeType)
          /\ delta.nodes \in Seq(NodeType) /\ delta.edges \in Seq(EdgeType)
          /\ gn \in Seq(NodeType) /\ ge \in Seq(EdgeType)
        BY AllTypes
    <2>4. Named(graph.nodes) \subseteq Named(gn) /\ Said(graph.edges) \subseteq Said(ge)
        BY <2>3, NamedConcat, SaidConcat
    <2> HIDE DEF gn, ge
    <2>5. Named(gn) \subseteq Named(AllNodes) /\ Said(ge) \subseteq Said(AllEdges)
        BY <2>2, <2>3, NamedConcat, SaidConcat
    <2> QED
        BY <2>1, <2>4, <2>5
<1> QED
    BY <1>1, <1>2

\* Relations whose ends lead to the entities they name are between known ones.
LEMMA SaidIsNamed ==
    ASSUME NEW ns \in Seq(NodeType), NEW es \in Seq(EdgeType), Joined(es, ns), NEW r \in Said(es)
    PROVE  r[2] \in Named(ns) /\ r[3] \in Named(ns)
<1>1. PICK j \in DOMAIN es : r = <<es[j].origin, es[j].src, es[j].dst>>
    BY DEF Said
<1>2. Leads(ns, es[j].from, es[j].src) /\ Leads(ns, es[j].to, es[j].dst)
    BY DEF Joined
<1>3. es[j].from \in Nat /\ es[j].to \in Nat
    <2>1. es[j] \in EdgeType
        BY ElementOfSeq, LenProperties
    <2> QED
        BY <2>1 DEF EdgeType
<1>4. ASSUME NEW id \in Nat, NEW e, Leads(ns, id, e) PROVE e \in Named(ns)
    <2>1. id + 1 \in DOMAIN ns /\ ns[id + 1].ent = e
        BY <1>4, LenProperties DEF Leads
    <2> QED
        BY <2>1, Zenon DEF Named
<1>5. es[j].src \in Named(ns) /\ es[j].dst \in Named(ns)
    BY <1>2, <1>3, <1>4
<1>6. r[2] = es[j].src /\ r[3] = es[j].dst
    BY <1>1
<1> QED
    BY <1>5, <1>6

\* Served relations join served entities.
LEMMA ServedIsClosed ==
    ASSUME TypeOK, QuietInv
    PROVE  ServedIsWhole
<1> SUFFICES \A r \in Served.related : r[2] \in Served.known /\ r[3] \in Served.known
    BY DEF ServedIsWhole
<1>1. CASE stage = "exited"
    <2>1. Served.known = Named(AllNodes) /\ Served.related = Said(AllEdges)
        BY <1>1, WhatIsThere DEF ContentIs, Served
    <2>2. Joined(AllEdges, AllNodes)
        BY DEF QuietInv, WriteInv, KeptInv
    <2> QED
        BY <2>1, <2>2, AllTypes, SaidIsNamed
<1>2. CASE stage # "exited"
    <2>1. Served.known = Named(graph.nodes) /\ Served.related = Said(graph.edges)
        BY <1>2, WhatIsThere DEF ServedIs
    <2>2. Joined(graph.edges, graph.nodes)
        BY <1>2 DEF QuietInv, WriteInv, HoldInv, StageInv, ServedInv, Up
    <2> QED
        BY <2>1, <2>2, AllTypes, SaidIsNamed
<1> QED
    BY <1>1, <1>2

\* The views of the engine that the refinement mapping takes.
LEMMA QuietViews == TypeOK /\ QuietInv => Views
BY WhatIsThere, ServedIsContent, ServedIsClosed DEF Views

\* The first facts.
LEMMA PromiseInit ==
    ASSUME TypeOK, QuietInv, Init
    PROVE  Promise!Init
<1>1. stage = "up" /\ disk = FirstSnapshot /\ delta = Empty
      /\ graph.nodes = FirstSnapshot.nodes /\ graph.edges = FirstSnapshot.edges
      /\ pc = [w \in Writers |-> "idle"]
      /\ \A m \in Mergers : phase[m] = "idle"
    BY DEF Init, GraphOf
<1>2. Served = Facts(FirstSnapshot.nodes, FirstSnapshot.edges)
    BY <1>1 DEF Served
<1>3. UnderWay = Empty
    BY <1>1 DEF UnderWay, Merging
<1>4. Content = Served
    <2>1. /\ AllNodes = (graph.nodes \o <<>>) \o <<>>
          /\ AllEdges = (graph.edges \o <<>>) \o <<>>
        BY <1>1, <1>3 DEF AllNodes, AllEdges, Empty
    <2>2. \A S : \A s \in Seq(S) : s \o <<>> = s
        BY ConcatEmptySeq
    <2>3. AllNodes = graph.nodes /\ AllEdges = graph.edges
        <3>1. graph.nodes \o <<>> = graph.nodes /\ graph.edges \o <<>> = graph.edges
            BY <2>2, AllTypes
        <3> QED
            BY <2>1, <3>1
    <2> QED
        BY <1>1, <2>3 DEF Content, Served, AllNodes, AllEdges
<1>5. Progress = [w \in Writers |-> "open"]
    BY <1>1 DEF Progress
<1> QED
    BY <1>2, <1>4, <1>5 DEF Promise!Init

\* A step that neither adds to what is held nor replaces the graph, and after
\* which clients are as far as before.
LEMMA SameFacts ==
    ASSUME AllNodes' = AllNodes, AllEdges' = AllEdges, UNCHANGED graph,
           stage' = "exited" <=> stage = "exited"
    PROVE  Content' = Content /\ Served' = Served
<1>1. Content = Facts(AllNodes, AllEdges) /\ Content' = Facts(AllNodes', AllEdges')
    BY DEF Content, AllNodes, AllEdges
<1>2. Content' = Content
    BY <1>1
<1> QED
    BY <1>2 DEF Served

\* What pushing a request's nodes adds are its entities, neither more nor less.
LEMMA PromiseDescribe ==
    ASSUME TypeOK, QuietInv, Views, Views', NEW w \in Writers, AddNodes(w)
    PROVE  Promise!Describe(w)
<1>1. /\ pc[w] = "pushNodes" /\ w \in InFlight
      /\ pc \in [Writers -> Pcs] /\ pc' = [pc EXCEPT ![w] = "appendEdges"]
      /\ UNCHANGED <<stage, graph>>
    BY DEF AddNodes, InFlight, TypeOK, WriterTypeOK, indexVars
<1>2. stage = "up"
    BY <1>1, Alone DEF QuietInv
<1>3. AllNodes' = AllNodes \o toAdd[w] /\ AllEdges' = AllEdges
    BY QuietAddNodes
<1>4. /\ Content = [known |-> Named(AllNodes), related |-> Said(AllEdges)]
      /\ Content' = [known |-> Named(AllNodes'), related |-> Said(AllEdges')]
    BY DEF Views, ContentIs
<1>5. toAdd[w] \in Seq(NodeType) /\ AllNodes \in Seq(NodeType)
    BY AllTypes DEF TypeOK, WriterTypeOK
<1>6. Named(AllNodes \o toAdd[w]) = Named(AllNodes) \cup Named(toAdd[w])
    BY <1>5, NamedConcat
<1>7. Named(toAdd[w]) \subseteq Promise!EntitiesOf(w)
    BY <1>1 DEF QuietInv, WriteInv, NumberInv, NumberOf, Numbering
<1>8. Promise!EntitiesOf(w) \subseteq Named(AllNodes \o toAdd[w])
    <2> DEFINE s == AllNodes \o toAdd[w]
    <2>1. s \in Seq(NodeType)
        BY <1>5, ConcatProperties
    <2>2. Resolved(w, s)
        BY <1>1 DEF QuietInv, WriteInv, NumberInv, NumberOf, Numbering
    <2> HIDE DEF s
    <2>3. ids[w] \in Seq(Nat) /\ Len(ids[w]) = Len(Request[w].ents) /\ Request[w].ents \in Seq(Entities)
        BY <1>1, RequestFacts DEF TypeOK, WriterTypeOK
    <2>4. DOMAIN ids[w] = DOMAIN Request[w].ents /\ \A i \in DOMAIN ids[w] : ids[w][i] \in Nat
        BY <2>3, LenProperties, ElementOfSeq
    <2>5. ASSUME NEW i \in DOMAIN Request[w].ents PROVE Request[w].ents[i] \in Named(s)
        <3>1. ids[w][i] \in Nat /\ Leads(s, ids[w][i], Request[w].ents[i])
            BY <2>2, <2>4 DEF Resolved
        <3>2. ids[w][i] + 1 \in DOMAIN s /\ s[ids[w][i] + 1].ent = Request[w].ents[i]
            BY <2>1, <3>1, LenProperties DEF Leads
        <3> QED
            BY <3>2, Zenon DEF Named
    <2> QED
        BY <2>5 DEF s, Promise!EntitiesOf
<1>9. Content' = [Content EXCEPT !.known = @ \cup Promise!EntitiesOf(w)]
    <2>1. Named(AllNodes') = Named(AllNodes) \cup Promise!EntitiesOf(w)
        BY <1>3, <1>6, <1>7, <1>8
    <2>2. Content = [known |-> Named(AllNodes), related |-> Said(AllEdges)]
        BY <1>4
    <2>3. Content' = [known |-> Named(AllNodes) \cup Promise!EntitiesOf(w), related |-> Said(AllEdges)]
        BY <1>3, <1>4, <2>1
    <2> DEFINE K == Named(AllNodes)
               R == Said(AllEdges)
               E == Promise!EntitiesOf(w)
               C == Content
               D == Content'
    <2>4. C = [known |-> K, related |-> R] /\ D = [known |-> K \cup E, related |-> R]
        BY <2>2, <2>3
    <2> HIDE DEF K, R, E, C, D
    <2>5. D = [C EXCEPT !.known = @ \cup E]
        BY <2>4
    <2> QED
        BY <2>5 DEF C, D, E
<1>10. Served' = Served
    BY <1>1, <1>2 DEF Served
<1>11. Progress[w] = "open" /\ Progress' = [Progress EXCEPT ![w] = "described"]
    BY <1>1 DEF Progress
<1> QED
    BY <1>9, <1>10, <1>11 DEF Promise!Describe, Promise!Advance

\* What pushing its edges adds are its relations.
LEMMA PromiseRelate ==
    ASSUME TypeOK, QuietInv, Views, Views', NEW w \in Writers, AddEdges(w)
    PROVE  Promise!Relate(w)
<1>1. /\ pc[w] = "pushEdges" /\ w \in InFlight
      /\ pc \in [Writers -> Pcs] /\ pc' = [pc EXCEPT ![w] = "finish"]
      /\ UNCHANGED <<stage, graph>>
    BY DEF AddEdges, InFlight, TypeOK, WriterTypeOK, indexVars
<1>2. stage = "up"
    BY <1>1, Alone DEF QuietInv
<1>3. AllEdges' = AllEdges \o EdgesOf(w) /\ AllNodes' = AllNodes
    BY QuietAddEdges
<1>4. /\ Content = [known |-> Named(AllNodes), related |-> Said(AllEdges)]
      /\ Content' = [known |-> Named(AllNodes'), related |-> Said(AllEdges')]
    BY DEF Views, ContentIs
<1>5. EdgesOf(w) \in Seq(EdgeType) /\ AllEdges \in Seq(EdgeType)
    <2>1. Len(ids[w]) = Len(Request[w].ents)
        BY <1>1 DEF TypeOK, WriterTypeOK
    <2> QED
        BY <2>1, AllTypes, EdgesOfProperties DEF TypeOK
<1>6. Said(AllEdges \o EdgesOf(w)) = Said(AllEdges) \cup Said(EdgesOf(w))
    BY <1>5, SaidConcat
<1>7. Said(EdgesOf(w)) = Promise!RelationsOf(w)
    <2>1. DOMAIN EdgesOf(w) = DOMAIN Request[w].rels
        BY DEF EdgesOf
    <2>2. ASSUME NEW j \in DOMAIN Request[w].rels
          PROVE  <<EdgesOf(w)[j].origin, EdgesOf(w)[j].src, EdgesOf(w)[j].dst>> =
                 <<<<w, j>>, Request[w].ents[Request[w].rels[j][1]],
                   Request[w].ents[Request[w].rels[j][2]]>>
        BY DEF EdgesOf
    <2> DEFINE F(j) == <<EdgesOf(w)[j].origin, EdgesOf(w)[j].src, EdgesOf(w)[j].dst>>
               G(j) == <<<<w, j>>, Request[w].ents[Request[w].rels[j][1]],
                         Request[w].ents[Request[w].rels[j][2]]>>
    <2>3. Said(EdgesOf(w)) = {F(j) : j \in DOMAIN Request[w].rels}
        BY <2>1, Zenon DEF Said
    <2>4. Promise!RelationsOf(w) = {G(j) : j \in DOMAIN Request[w].rels}
        BY Zenon DEF Promise!RelationsOf
    <2>5. \A j \in DOMAIN Request[w].rels : F(j) = G(j)
        BY <2>2
    <2> HIDE DEF F, G
    <2> QED
        BY <2>3, <2>4, <2>5
<1>8. Content' = [Content EXCEPT !.related = @ \cup Promise!RelationsOf(w)]
    <2>1. Said(AllEdges') = Said(AllEdges) \cup Promise!RelationsOf(w)
        BY <1>3, <1>6, <1>7
    <2>2. Content = [known |-> Named(AllNodes), related |-> Said(AllEdges)]
        BY <1>4
    <2>3. Content' = [known |-> Named(AllNodes), related |-> Said(AllEdges) \cup Promise!RelationsOf(w)]
        BY <1>3, <1>4, <2>1
    <2> DEFINE K == Named(AllNodes)
               R == Said(AllEdges)
               E == Promise!RelationsOf(w)
               C == Content
               D == Content'
    <2>4. C = [known |-> K, related |-> R] /\ D = [known |-> K, related |-> R \cup E]
        BY <2>2, <2>3
    <2> HIDE DEF K, R, E, C, D
    <2>5. D = [C EXCEPT !.related = @ \cup E]
        BY <2>4
    <2> QED
        BY <2>5 DEF C, D, E
<1>9. Served' = Served
    BY <1>1, <1>2 DEF Served
<1>10. Progress[w] = "described" /\ Progress' = [Progress EXCEPT ![w] = "related"]
    BY <1>1 DEF Progress
<1> QED
    BY <1>8, <1>9, <1>10 DEF Promise!Relate, Promise!Advance

\* The other steps of a handler change nothing but, at its end, who is answered.
LEMMA PromiseOfWriter ==
    ASSUME Quiet, TypeOK, QuietInv, Views, Views',
           NEW w \in Writers, Begin(w) \/ WriterStep(w)
    PROVE  [Promise!Next]_(Promise!vars)
<1>1. pc \in [Writers -> Pcs]
    BY DEF TypeOK, WriterTypeOK
<1>2. ASSUME Content' = Content, Served' = Served, Progress' = Progress
      PROVE  UNCHANGED Promise!vars
    BY <1>2 DEF Promise!vars
<1>3. CASE Begin(w) \/ ResolveExisting(w) \/ ResolveNew(w) \/ ResolveDone(w) \/ WriteNodesWal(w)
           \/ WriteEdgesWal(w) \/ Finish(w)
    <2>1. UNCHANGED <<stage, graph, delta, disk, phase, drained>>
        BY <1>3 DEF Begin, ResolveExisting, ResolveNew, ResolveDone, WriteNodesWal, WriteEdgesWal,
                    Finish, indexVars, mergeVars
    <2>2. Content' = Content /\ Served' = Served
        BY <2>1, SameHeld, SameFacts
    <2>3. CASE Begin(w) \/ ResolveExisting(w) \/ ResolveNew(w) \/ ResolveDone(w) \/ WriteNodesWal(w)
               \/ WriteEdgesWal(w)
        <3>1. Progress' = Progress
            BY <1>1, <2>3 DEF Begin, ResolveExisting, ResolveNew, ResolveDone, WriteNodesWal,
                              WriteEdgesWal, Resolving, Progress
        <3> QED
            BY <1>2, <2>2, <3>1
    <2>4. CASE Finish(w)
        <3>1. Progress[w] = "related" /\ Progress' = [Progress EXCEPT ![w] = "answered"]
            BY <1>1, <2>4 DEF Finish, Progress
        <3>2. Promise!Answer(w)
            BY <2>2, <3>1 DEF Promise!Answer, Promise!Advance
        <3> QED
            BY <3>2 DEF Promise!Next
    <2> QED
        BY <1>3, <2>3, <2>4
<1>4. CASE AddNodes(w)
    BY <1>4, PromiseDescribe DEF Promise!Next
<1>5. CASE AddEdges(w)
    BY <1>5, PromiseRelate DEF Promise!Next
<1> QED
    BY <1>3, <1>4, <1>5, NoMatchBeyond DEF WriterStep

\* A swap publishes what the merge drained; the other steps of a merge move what
\* is held from one place to another.
LEMMA PromiseOfMerge ==
    ASSUME Quiet, TypeOK, QuietInv, Views, Views', NEW m \in Mergers,
           MergeStep(m) \/ MergeFails(m) \/ ForceMerge(m)
    PROVE  [Promise!Next]_(Promise!vars)
<1>1. AllNodes' = AllNodes /\ AllEdges' = AllEdges
    BY QuietMergeStep
<1>2. UNCHANGED <<stage, pc>>
    BY DEF MergeStep, StartMerge, ForceMerge, Launch, Drain, Build, BuildPanics, MergeFails,
        Open, SaveNodes, SaveEdges, SaveVecs, SaveEdgeVecs, SkipEdgeVecs, SaveEndpoints, Save,
        Truncate, Rebuild, RebuildPanics, Swap, writeVars
<1>3. Progress' = Progress
    BY <1>2 DEF Progress
<1>4. CASE ~ Swap(m)
    <2>1. UNCHANGED graph
        BY <1>4 DEF MergeStep, StartMerge, ForceMerge, Launch, Drain, Build, BuildPanics, MergeFails,
            Open, SaveNodes, SaveEdges, SaveVecs, SaveEdgeVecs, SkipEdgeVecs, SaveEndpoints, Save,
            Truncate, Rebuild, RebuildPanics, indexVars
    <2>2. Content' = Content /\ Served' = Served
        BY <1>1, <1>2, <2>1, SameFacts
    <2> QED
        BY <1>3, <2>2 DEF Promise!vars
<1>5. CASE Swap(m)
    <2>1. phase[m] = "swap" /\ SerialMerges
        BY <1>5 DEF Swap, Quiet
    <2>2. stage # "exited" /\ stage' # "exited"
        BY <1>2, <2>1 DEF QuietInv, HoldInv, MergeInv, Up
    <2>3. /\ graph'.nodes = graph.nodes \o drained[m].nodes
          /\ graph'.edges = graph.edges \o drained[m].edges
        BY <1>5, <2>1, QuietSwap
    <2>4. Content' = Content
        BY <1>1, <2>2 DEF Content, AllNodes, AllEdges
    <2>5. /\ Served.known = Named(graph.nodes) /\ Served.related = Said(graph.edges)
          /\ Served'.known = Named(graph'.nodes) /\ Served'.related = Said(graph'.edges)
        BY <2>2 DEF Views, ServedIs
    <2>6. Served.known \subseteq Served'.known /\ Served.related \subseteq Served'.related
        <3>1. /\ graph.nodes \in Seq(NodeType) /\ drained[m].nodes \in Seq(NodeType)
              /\ graph.edges \in Seq(EdgeType) /\ drained[m].edges \in Seq(EdgeType)
            BY AllTypes DEF TypeOK, MergerTypeOK, GraphType
        <3>2. /\ Named(graph'.nodes) = Named(graph.nodes) \cup Named(drained[m].nodes)
              /\ Said(graph'.edges) = Said(graph.edges) \cup Said(drained[m].edges)
            BY <2>3, <3>1, NamedConcat, SaidConcat
        <3> QED
            BY <2>5, <3>2
    <2>7. Served'.known \subseteq Content'.known /\ Served'.related \subseteq Content'.related
        BY DEF Views, ServedIsPart
    <2>8. \A r \in Served'.related : r[2] \in Served'.known /\ r[3] \in Served'.known
        BY DEF Views, ServedIsWhole
    <2>9. Promise!Publish
        BY <1>3, <2>4, <2>6, <2>7, <2>8 DEF Promise!Publish
    <2> QED
        BY <2>9 DEF Promise!Next
<1> QED
    BY <1>4, <1>5

\* The exit publishes what the files hold, which is everything.
LEMMA PromiseOfExit ==
    ASSUME Quiet, TypeOK, QuietInv, Views, Views', Exit
    PROVE  Promise!Publish
<1>1. /\ stage = "closing" /\ stage' = "exited"
      /\ pc' = [w \in Writers |-> IF w \in InFlight THEN "failed" ELSE pc[w]]
    BY DEF Exit, Vanish
<1>2. AllNodes' = AllNodes /\ AllEdges' = AllEdges
    BY QuietExit DEF Quiet
<1>3. /\ Content = Facts(AllNodes, AllEdges) /\ Content' = Facts(AllNodes', AllEdges')
      /\ Served' = Content'
    BY <1>1 DEF Content, Served, AllNodes, AllEdges
<1>4. Content' = Content
    BY <1>2, <1>3
<1>5. InFlight = {}
    BY <1>1 DEF QuietInv, WriteInv, StageInv
<1>6. Progress' = Progress
    <2>1. pc' = pc
        BY <1>1, <1>5 DEF TypeOK, WriterTypeOK
    <2> QED
        BY <2>1 DEF Progress
<1>7. Served.known \subseteq Content.known /\ Served.related \subseteq Content.related
    BY DEF Views, ServedIsPart
<1>8. \A r \in Served'.related : r[2] \in Served'.known /\ r[3] \in Served'.known
    BY DEF Views, ServedIsWhole
<1> QED
    BY <1>3, <1>4, <1>6, <1>7, <1>8 DEF Promise!Publish

\* Every step of the engine is one of the promise, or none.
LEMMA PromiseStep ==
    ASSUME Quiet, TypeOK, QuietInv, Views, Views', [Next]_vars
    PROVE  [Promise!Next]_(Promise!vars)
<1>1. CASE UNCHANGED vars \/ Quiescent
    <2>1. UNCHANGED <<stage, graph, delta, disk, phase, drained, pc>>
        BY <1>1 DEF Quiescent, vars, indexVars, mergeVars, writeVars
    <2>2. Content' = Content /\ Served' = Served
        BY <2>1, SameHeld, SameFacts
    <2>3. Progress' = Progress
        BY <2>1 DEF Progress
    <2> QED
        BY <2>2, <2>3 DEF Promise!vars
<1>2. CASE Shutdown
    <2>1. AllNodes' = AllNodes /\ AllEdges' = AllEdges
        BY <1>2, QuietShutdown DEF Quiet
    <2>2. stage = "up" /\ stage' = "closing" /\ UNCHANGED <<graph, pc>>
        BY <1>2 DEF Shutdown, Launch, indexVars, writeVars
    <2>3. Content' = Content /\ Served' = Served
        BY <2>1, <2>2, SameFacts
    <2>4. Progress' = Progress
        BY <2>2 DEF Progress
    <2> QED
        BY <2>3, <2>4 DEF Promise!vars
<1>3. CASE Exit
    BY <1>3, PromiseOfExit DEF Promise!Next
<1>4. ~ Crash
    BY DEF Crash, Fault, Quiet
<1>5. ~ Boot
    BY DEF Boot, QuietInv, WriteInv, StageInv
<1> QED
    BY <1>1, <1>2, <1>3, <1>4, <1>5, PromiseOfWriter, PromiseOfMerge DEF Next

\* When requests are handled one at a time, merges do not overlap and nothing
\* but the WAL fails, the engine is the knowledge graph it promises: each
\* request adds its entities and then its relations, each between the two
\* entities it named, nothing is taken back, and queries see a part that grows.
THEOREM QuietIsKnowledgeGraph ==
    ASSUME Quiet
    PROVE  Spec => Promise!Spec
<1>1. TypeOK /\ QuietInv /\ Init => Promise!Init
    BY PromiseInit
<1>2. TypeOK /\ QuietInv /\ Views /\ Views' /\ [Next]_vars => [Promise!Next]_(Promise!vars)
    BY PromiseStep
<1> QED
    BY <1>1, <1>2, QuietViews, QuietInvariant, TypeCorrect, PTL DEF Spec, Promise!Spec

-----------------------------------------------------------------------------
(***************************************************************************)
(* Whole files load, with any number of requests in flight, when merges do *)
(* not overlap and nothing but the WAL and the reading of a snapshot fails.*)
(* Requests that overlap may leave edges that lead to the wrong node or to *)
(* none.  The build lets no edge pass whose end is no node, and a merge    *)
(* that has begun to write also swaps, so that the graph in memory never   *)
(* falls behind the files.                                                 *)
(***************************************************************************)
Lone ==
    /\ SerialMerges
    /\ FaultKinds \subseteq {"wal", "read"}

NodesOpened == NodesSaved \cup {"writeNodes"}
EdgesOpened == EdgesSaved \cup {"writeEdges"}

\* The files of the edge embeddings can be read, and are of one length.
PairsLoad ==
    /\ disk.linked \/ disk.evecs = <<>>
    /\ Len(disk.evecs) = Len(disk.eps)

\* So are those a merge has built, and its edges lead to its nodes.
BuiltLoads(m) ==
    /\ EndsInRange(built[m].edges, Len(built[m].nodes))
    /\ Len(built[m].evecs) = Len(built[m].eps)
    /\ built[m].evecs = <<>> => disk.evecs = <<>>

\* Before a merge opens a file, that file fits the graph in memory.
FilesInv ==
    /\ (\A m \in Mergers : phase[m] \notin NodesOpened) => Len(disk.nodes) = Len(graph.nodes)
    /\ (\A m \in Mergers : phase[m] \notin EdgesOpened) => EndsInRange(disk.edges, Len(graph.nodes))
    /\ (\A m \in Mergers : phase[m] \notin {"writeEvecs", "eps", "writeEps"}) => PairsLoad
    /\ \A m \in Mergers : phase[m] \in {"eps", "writeEps"} => disk.evecs = built[m].evecs
    /\ \A m \in Mergers : phase[m] = "writeEps" => disk.linked
    /\ \A m \in Mergers : phase[m] \in HasBuilt => BuiltLoads(m)

LoadInv ==
    /\ stage \in {"up", "closing", "exited"}
    /\ stage = "exited" => EndsInRange(disk.edges, Len(disk.nodes))
    /\ WholeInv
    /\ Up => EndsInRange(graph.edges, Len(graph.nodes)) /\ FilesInv

\* Which phases the two files of the graph are open in, or written.
LEMMA OpenedPhases ==
    /\ NodesOpened \subseteq HasBuilt /\ EdgesOpened \subseteq NodesSaved
    /\ \A p \in BeforeFiles : p \notin HasBuilt /\ p \notin Files
    /\ \A f \in Files : WritingOf(f) \in NodesOpened
    /\ \A f \in Files : f # "nodes" => f \in NodesSaved /\ WritingOf(f) \in EdgesOpened
    /\ AfterFiles \subseteq EdgesSaved
BY DEF NodesOpened, EdgesOpened, NodesSaved, EdgesSaved, HasBuilt, Files, WritePhases, WritingOf,
       BeforeFiles, AfterFiles

\* The first snapshot loads.
LEMMA LoadInit == Init => LoadInv
<1> SUFFICES ASSUME Init PROVE LoadInv
    OBVIOUS
<1>1. /\ stage = "up" /\ disk = FirstSnapshot /\ graph = GraphOf(FirstSnapshot)
      /\ \A m \in Mergers : phase[m] = "idle"
    BY DEF Init
<1>2. /\ disk.cut = {} /\ disk.mixed = {} /\ disk.evecs = <<>> /\ disk.eps = <<>>
      /\ disk.nodes = graph.nodes /\ disk.edges = graph.edges
    BY <1>1 DEF FirstSnapshot, GraphOf
<1>3. EndsInRange(graph.edges, Len(graph.nodes))
    <2>1. graph.nodes \in Seq(NodeType) /\ Len(graph.nodes) \in Nat /\ graph.nodes # <<>>
        <3>1. graph.nodes \in Seq(NodeType)
            BY <1>1, <1>2, FirstSnapshotType DEF SnapshotType
        <3>2. 1 \in DOMAIN SeedEnts
            BY BoundsAssumption, LenProperties, EmptySeq
        <3>3. 1 \in DOMAIN graph.nodes
            BY <1>1, <3>2 DEF FirstSnapshot, GraphOf
        <3> QED
            BY <3>1, <3>3
    <2>2. 0 < Len(graph.nodes)
        BY <2>1, EmptySeq
    <2>3. DOMAIN graph.edges = {1} /\ graph.edges[1].from = 0 /\ graph.edges[1].to = 0
        BY <1>1 DEF FirstSnapshot, GraphOf
    <2> QED
        BY <2>2, <2>3 DEF EndsInRange
<1>4. WholeInv
    <2>1. \A f \in Files : "idle" # WritingOf(f)
        BY SavedPhases DEF BeforeFiles
    <2> QED
        BY <1>1, <1>2, <2>1 DEF WholeInv
<1>5. FilesInv
    BY <1>1, <1>2, <1>3, OpenedPhases DEF FilesInv, PairsLoad, BeforeFiles
<1> QED
    BY <1>1, <1>3, <1>4, <1>5 DEF LoadInv

\* A merge that has not come to the files, or has left them to the swap of what
\* it wrote, does not change them.
LEMMA LoadIdle ==
    ASSUME SerialMerges, LoadInv, Up, Up', stage' \in {"up", "closing"},
           UNCHANGED <<graph, disk>>, NEW m \in Mergers,
           phase[m] \in BeforeFiles, phase'[m] \in BeforeFiles
    PROVE  LoadInv'
<1>1. \A n \in Mergers : n = m
    BY DEF SerialMerges
<1>2. \A f \in Files : phase[m] # WritingOf(f) /\ phase'[m] # WritingOf(f)
    BY SavedPhases
<1>3. WholeInv'
    BY <1>1, <1>2 DEF LoadInv, WholeInv
<1>4. /\ phase[m] \notin HasBuilt /\ phase'[m] \notin HasBuilt
      /\ phase[m] \notin {"writeEvecs", "eps", "writeEps"}
      /\ phase'[m] \notin {"writeEvecs", "eps", "writeEps"}
    BY OpenedPhases DEF BeforeFiles
<1>5. phase[m] \notin NodesOpened /\ phase[m] \notin EdgesOpened
    BY <1>4, OpenedPhases DEF NodesSaved
<1>6. /\ Len(disk.nodes) = Len(graph.nodes) /\ EndsInRange(disk.edges, Len(graph.nodes))
      /\ PairsLoad /\ EndsInRange(graph.edges, Len(graph.nodes))
    BY <1>1, <1>4, <1>5 DEF LoadInv, FilesInv
<1>7. PairsLoad'
    BY <1>6 DEF PairsLoad
<1>8. FilesInv'
    BY <1>1, <1>4, <1>6, <1>7 DEF FilesInv
<1> QED
    BY <1>3, <1>6, <1>8 DEF LoadInv, Up

\* The two lists of edge embeddings that a merge makes are as long as each other.
LEMMA MergedPairs ==
    ASSUME TypeOK, PairsLoad, "evecs" \notin disk.cut, NEW m \in Mergers
    PROVE  /\ Len(Merged(m).evecs) = Len(Merged(m).eps)
           /\ Merged(m).evecs = <<>> => disk.evecs = <<>>
<1> DEFINE d   == drained[m]
           new == RemappedEdges(Len(base[m].nodes), d)
           old == EdgeFiles(disk)
           xs  == [j \in DOMAIN new |-> <<new[j].src, new[j].dst>>]
           ps  == [j \in DOMAIN new |-> <<new[j].from, new[j].to>>]
<1>1. /\ old.evecs \in Seq(Entities \X Entities) /\ old.eps \in Seq(Nat \X Nat)
      /\ old.evecs = disk.evecs /\ Len(old.evecs) = Len(old.eps)
    <2>1. /\ disk.evecs \in Seq(Entities \X Entities) /\ disk.eps \in Seq(Nat \X Nat)
          /\ disk.linked \/ disk.evecs = <<>>
          /\ Len(disk.evecs) = Len(disk.eps)
        BY DEF TypeOK, SnapshotType, PairsLoad
    <2>2. CASE EdgeFilesExist(disk)
        <3>1. old = [evecs |-> disk.evecs, eps |-> disk.eps]
            BY <2>2 DEF EdgeFiles
        <3> HIDE DEF old
        <3> QED
            BY <2>1, <3>1
    <2>3. CASE ~ EdgeFilesExist(disk)
        <3>1. disk.evecs = <<>>
            BY <2>1, <2>3 DEF EdgeFilesExist
        <3>2. old = [evecs |-> <<>>, eps |-> <<>>]
            BY <2>3 DEF EdgeFiles, EmptyEdgeIndex
        <3> HIDE DEF old
        <3> QED
            BY <3>1, <3>2
    <2> QED
        BY <2>2, <2>3
<1>2. new \in Seq(EdgeType) /\ DOMAIN new = 1..Len(new) /\ Len(new) \in Nat
    <2>1. base[m].nodes \in Seq(NodeType) /\ drained[m] \in GraphType
        BY DEF TypeOK, MergerTypeOK, GraphType
    <2>2. Len(base[m].nodes) \in Nat /\ drained[m].nodes \in Seq(NodeType)
          /\ drained[m].edges \in Seq(EdgeType)
        BY <2>1 DEF GraphType
    <2>3. new \in Seq(EdgeType)
        BY <2>1, <2>2, RemappedEdgesProperties
    <2> HIDE DEF new
    <2> QED
        BY <2>3, LenProperties
<1>3. Merged(m).evecs = old.evecs \o xs /\ Merged(m).eps = old.eps \o ps
    BY DEF Merged
<1> HIDE DEF old, new, d
<1>4. /\ xs \in Seq(Entities \X Entities) /\ ps \in Seq(Nat \X Nat)
      /\ Len(xs) = Len(new) /\ Len(ps) = Len(new)
    <2>1. \A j \in 1..Len(new) : new[j] \in EdgeType
        BY <1>2
    <2>2. xs \in [1..Len(new) -> Entities \X Entities] /\ ps \in [1..Len(new) -> Nat \X Nat]
        BY <1>2, <2>1 DEF EdgeType
    <2> HIDE DEF xs, ps
    <2> QED
        BY <1>2, <2>2, DefinedSeq
<1> HIDE DEF xs, ps
<1>5. /\ Len(old.evecs \o xs) = Len(old.evecs) + Len(xs)
      /\ Len(old.eps \o ps) = Len(old.eps) + Len(ps)
    <2>1. \A S : \A s, t \in Seq(S) : Len(s \o t) = Len(s) + Len(t)
        BY ConcatProperties
    <2>2. Len(old.evecs \o xs) = Len(old.evecs) + Len(xs)
        BY ONLY <1>1, <1>4, <2>1, Zenon
    <2>3. Len(old.eps \o ps) = Len(old.eps) + Len(ps)
        BY ONLY <1>1, <1>4, <2>1, Zenon
    <2> QED
        BY <2>2, <2>3
<1>6. old.evecs \o xs = <<>> => old.evecs = <<>>
    BY <1>1, <1>4, ConcatEqualIffEmpty
<1> QED
    BY <1>1, <1>3, <1>4, <1>5, <1>6, Zenon

\* The build succeeds only when each edge leads to a node.
LEMMA LoadBuild ==
    ASSUME TypeOK, SerialMerges, LoadInv, SerialInv, NEW m \in Mergers, Build(m)
    PROVE  LoadInv'
<1>1. /\ phase[m] = "build" /\ phase'[m] = "nodes" /\ built'[m] = Merged(m)
      /\ VectorsReadable(disk)
      /\ EndsInRange(Merged(m).edges, Len(Merged(m).nodes))
      /\ UNCHANGED <<stage, graph, disk>>
    BY DEF Build, TypeOK, MergerTypeOK, indexVars
<1>2. Up /\ Up' /\ \A n \in Mergers : n = m
    BY <1>1 DEF SerialInv, MergersInv, SerialMerges, Up
<1>3. WholeInv /\ FilesInv /\ EndsInRange(graph.edges, Len(graph.nodes))
    BY <1>2 DEF LoadInv
<1>4. PairsLoad /\ Len(disk.nodes) = Len(graph.nodes) /\ EndsInRange(disk.edges, Len(graph.nodes))
    <2>1. phase[m] \notin NodesOpened /\ phase[m] \notin EdgesOpened
        BY <1>1, OpenedPhases DEF BeforeFiles, NodesSaved
    <2> QED
        BY <1>1, <1>2, <1>3, <2>1 DEF FilesInv
<1>5. \A f \in Files : phase[m] # WritingOf(f) /\ phase'[m] # WritingOf(f)
    BY <1>1, SavedPhases DEF BeforeFiles, Files
<1>6. WholeInv'
    BY <1>1, <1>2, <1>3, <1>5 DEF WholeInv
<1>7. BuiltLoads(m)'
    <2>1. "evecs" \notin disk.cut
        BY <1>2, <1>3, <1>5 DEF WholeInv, Files
    <2>2. /\ Len(Merged(m).evecs) = Len(Merged(m).eps)
          /\ Merged(m).evecs = <<>> => disk.evecs = <<>>
        BY <1>4, <2>1, MergedPairs
    <2> QED
        BY <1>1, <2>2 DEF BuiltLoads
<1>8. PairsLoad'
    BY <1>1, <1>4 DEF PairsLoad
<1>9. FilesInv'
    BY <1>1, <1>2, <1>4, <1>7, <1>8 DEF FilesInv
<1> QED
    BY <1>1, <1>2, <1>3, <1>6, <1>9 DEF LoadInv

\* A file that is opened is in nobody's way until it is written.
LEMMA LoadOpen ==
    ASSUME TypeOK, SerialMerges, LoadInv, SerialInv, NEW m \in Mergers, NEW file \in Files,
           Open(m, file)
    PROVE  LoadInv'
<1>1. /\ phase[m] = file /\ phase'[m] = WritingOf(file) /\ (\A n \in Mergers : n = m)
      /\ file = "evecs" => built[m].evecs # <<>>
      /\ UNCHANGED <<stage, graph, built>>
    BY DEF Open, TypeOK, MergerTypeOK, SerialMerges, indexVars
<1>2. Up /\ Up'
    BY <1>1 DEF SerialInv, MergersInv, Up, Files
<1>3. WholeInv /\ FilesInv /\ EndsInRange(graph.edges, Len(graph.nodes)) /\ BuiltLoads(m)
    BY <1>1, <1>2, SavingPhases DEF LoadInv, FilesInv
<1>4. /\ disk'.cut = disk.cut \cup {file} /\ disk'.mixed \subseteq disk.mixed
      /\ disk'.linked = (disk.linked \/ file = "eps")
      /\ file # "edges" => disk'.edges = disk.edges
      /\ file # "evecs" => disk'.evecs = disk.evecs
      /\ file # "eps"   => disk'.eps = disk.eps
    <2>1. ~ OthersWrite(m, file)
        BY <1>1 DEF OthersWrite
    <2> QED
        BY <2>1, OpenLeaves DEF TypeOK
<1>5. WholeInv'
    <2>1. ASSUME NEW f \in Files
          PROVE  f \in disk'.cut <=> phase'[m] = WritingOf(f)
        <3>1. f \notin disk.cut
            BY <1>1, <1>3, SavedPhases DEF WholeInv
        <3>2. f # file => WritingOf(file) # WritingOf(f)
            BY SavedPhases
        <3> QED
            BY <1>1, <1>4, <3>1, <3>2
    <2>2. disk'.mixed = {}
        BY <1>3, <1>4 DEF WholeInv
    <2> QED
        BY <1>1, <2>1, <2>2 DEF WholeInv
<1>6. FilesInv'
    <2>1. phase'[m] \in NodesOpened
        BY <1>1, OpenedPhases
    <2>2. phase'[m] \notin EdgesOpened => EndsInRange(disk'.edges, Len(graph.nodes))
        <3>1. file # "nodes" => phase'[m] \in EdgesOpened
            BY <1>1, OpenedPhases
        <3>2. "nodes" \notin EdgesOpened
            BY DEF EdgesOpened, EdgesSaved, NodesSaved
        <3> QED
            BY <1>1, <1>3, <1>4, <3>1, <3>2 DEF FilesInv
    <2>3. phase'[m] \notin {"writeEvecs", "eps", "writeEps"} => PairsLoad'
        <3>1. CASE file \in {"evecs", "eps"}
            BY <1>1, <3>1 DEF WritingOf
        <3>2. CASE file \notin {"evecs", "eps"}
            <4>1. PairsLoad
                BY <1>1, <1>3, <3>2 DEF FilesInv, Files
            <4> QED
                BY <1>4, <3>2, <4>1 DEF PairsLoad
        <3> QED
            BY <3>1, <3>2
    <2>4. phase'[m] \in {"eps", "writeEps"} => disk'.evecs = built[m].evecs
        <3>1. phase'[m] \in {"eps", "writeEps"} => file = "eps"
            BY <1>1 DEF WritingOf, Files
        <3> QED
            BY <1>1, <1>3, <1>4, <3>1 DEF FilesInv
    <2>5. phase'[m] = "writeEps" => disk'.linked
        BY <1>1, <1>4 DEF WritingOf, Files
    <2>6. BuiltLoads(m)'
        BY <1>1, <1>3, <1>4 DEF BuiltLoads
    <2> QED
        BY <1>1, <2>1, <2>2, <2>3, <2>4, <2>5, <2>6 DEF FilesInv
<1>7. stage' \in {"up", "closing"}
    BY <1>1, <1>2 DEF Up
<1>8. EndsInRange(graph'.edges, Len(graph'.nodes))
    BY <1>1, <1>3
<1> QED
    BY ONLY <1>5, <1>6, <1>7, <1>8 DEF LoadInv

\* The phase that follows the writing of a file.
After(file) ==
    CASE file = "nodes" -> "edges"
      [] file = "edges" -> "vecs"
      [] file = "vecs"  -> "evecs"
      [] file = "evecs" -> "eps"
      [] file = "eps"   -> "truncate"

\* A file that is written fits the others.
LEMMA LoadSave ==
    ASSUME TypeOK, SerialMerges, LoadInv, SerialInv, NEW m \in Mergers, NEW file \in Files,
           Save(m, file, After(file))
    PROVE  LoadInv'
<1>1. /\ phase[m] = WritingOf(file) /\ phase'[m] = After(file) /\ (\A n \in Mergers : n = m)
      /\ UNCHANGED <<stage, graph, built>>
    BY DEF Save, TypeOK, MergerTypeOK, SerialMerges, indexVars
<1>2. Up /\ Up'
    BY <1>1 DEF SerialInv, MergersInv, Up, Files, WritingOf
<1>3. /\ WholeInv /\ FilesInv /\ EndsInRange(graph.edges, Len(graph.nodes)) /\ BuiltLoads(m)
      /\ built[m] \in SnapshotType
    BY <1>1, <1>2, SavingPhases DEF LoadInv, FilesInv, TypeOK, MergerTypeOK
<1>4. /\ disk'.mixed = {} /\ disk'.linked = disk.linked /\ disk'.cut = disk.cut \ {file}
      /\ file # "edges" => disk'.edges = disk.edges
      /\ file # "evecs" => disk'.evecs = disk.evecs
      /\ file # "eps"   => disk'.eps = disk.eps
      /\ file = "evecs" => disk'.evecs = built[m].evecs
      /\ file = "eps"   => disk'.eps = built[m].eps
    <2>1. /\ disk'.mixed \subseteq disk.mixed /\ disk'.linked = disk.linked
          /\ file # "edges" => disk'.edges = disk.edges
          /\ file # "evecs" => disk'.evecs = disk.evecs
          /\ file # "eps"   => disk'.eps = disk.eps
          /\ disk' = [disk EXCEPT ![file] = built[m][file], !.cut = @ \ {file}]
        BY <1>3, SaveLeaves DEF TypeOK, WholeInv
    <2>2. /\ disk'.cut = disk.cut \ {file}
          /\ file = "evecs" => disk'.evecs = built[m].evecs
          /\ file = "eps"   => disk'.eps = built[m].eps
        BY <2>1 DEF TypeOK, SnapshotType, Files
    <2> QED
        BY <1>3, <2>1, <2>2 DEF WholeInv
<1>5. WholeInv'
    <2>1. ASSUME NEW f \in Files PROVE f \notin disk'.cut /\ phase'[m] # WritingOf(f)
        <3>1. f # file => f \notin disk.cut
            BY <1>1, <1>3, SavedPhases DEF WholeInv
        <3>2. After(file) # WritingOf(f)
            BY DEF After, WritingOf, Files
        <3> QED
            BY <1>1, <1>4, <3>1, <3>2
    <2> QED
        BY <1>1, <1>4, <2>1 DEF WholeInv
<1>6. FilesInv'
    <2>1. phase'[m] \in NodesOpened
        BY <1>1 DEF After, Files, NodesOpened, NodesSaved, HasBuilt
    <2>2. phase'[m] \notin EdgesOpened => EndsInRange(disk'.edges, Len(graph.nodes))
        <3>1. file # "nodes" => phase'[m] \in EdgesOpened
            BY <1>1 DEF After, Files, EdgesOpened, EdgesSaved, NodesSaved, HasBuilt
        <3>2. WritingOf("nodes") \notin EdgesOpened
            BY DEF WritingOf, EdgesOpened, EdgesSaved, NodesSaved, HasBuilt, Files, WritePhases
        <3> QED
            BY <1>1, <1>3, <1>4, <3>1, <3>2 DEF FilesInv
    <2>3. phase'[m] \notin {"writeEvecs", "eps", "writeEps"} => PairsLoad'
        <3>1. CASE file = "evecs"
            BY <1>1, <3>1 DEF After
        <3>2. CASE file \notin {"evecs", "eps"}
            <4>1. PairsLoad
                BY <1>1, <1>3, <3>2 DEF FilesInv, Files, WritingOf
            <4> QED
                BY <1>4, <3>2, <4>1 DEF PairsLoad
        <3>3. CASE file = "eps"
            <4>1. phase[m] = "writeEps"
                BY <1>1, <3>3 DEF WritingOf
            <4>2. disk.linked /\ disk.evecs = built[m].evecs
                BY <1>1, <1>3, <4>1 DEF FilesInv
            <4> QED
                BY <1>3, <1>4, <3>3, <4>2 DEF PairsLoad, BuiltLoads
        <3> QED
            BY <3>1, <3>2, <3>3
    <2>4. phase'[m] \in {"eps", "writeEps"} => disk'.evecs = built[m].evecs
        BY <1>1, <1>4 DEF After, Files
    <2>5. phase'[m] # "writeEps"
        BY <1>1 DEF After, Files
    <2>6. BuiltLoads(m)'
        BY <1>1, <1>3, <1>4 DEF BuiltLoads
    <2> QED
        BY <1>1, <2>1, <2>2, <2>3, <2>4, <2>5, <2>6 DEF FilesInv
<1>7. stage' \in {"up", "closing"}
    BY <1>1, <1>2 DEF Up
<1>8. EndsInRange(graph'.edges, Len(graph'.nodes))
    BY <1>1, <1>3
<1> QED
    BY ONLY <1>5, <1>6, <1>7, <1>8 DEF LoadInv

\* The other steps between build and swap write no file of the snapshot.
LEMMA LoadMoves ==
    ASSUME TypeOK, SerialMerges, LoadInv, SerialInv, NEW m \in Mergers,
           SkipEdgeVecs(m) \/ Truncate(m) \/ Rebuild(m)
    PROVE  LoadInv'
<1>1. /\ UNCHANGED <<stage, graph, built, disk>> /\ (\A n \in Mergers : n = m)
      /\ \/ phase[m] = "evecs" /\ built[m].evecs = <<>> /\ phase'[m] = "eps"
         \/ phase[m] \in AfterFiles /\ phase'[m] \in AfterFiles
    BY DEF SkipEdgeVecs, Truncate, Rebuild, TypeOK, MergerTypeOK, SerialMerges, indexVars, AfterFiles
<1>2. /\ phase[m] \in HasBuilt /\ phase[m] \in EdgesSaved
      /\ phase'[m] \in EdgesSaved /\ phase'[m] \in NodesOpened /\ phase'[m] \in EdgesOpened
    BY <1>1 DEF HasBuilt, NodesSaved, EdgesSaved, NodesOpened, EdgesOpened, AfterFiles, Files
<1>3. Up /\ Up'
    BY <1>1 DEF SerialInv, MergersInv, Up, AfterFiles
<1>4. WholeInv /\ FilesInv /\ EndsInRange(graph.edges, Len(graph.nodes)) /\ BuiltLoads(m) /\ PairsLoad
    BY <1>1, <1>2, <1>3 DEF LoadInv, FilesInv, AfterFiles
<1>5. WholeInv'
    <2>1. \A f \in Files : phase[m] # WritingOf(f) /\ phase'[m] # WritingOf(f)
        BY <1>1, SavedPhases DEF Files
    <2> QED
        BY <1>1, <1>4, <2>1 DEF WholeInv
<1>6. FilesInv'
    <2>1. BuiltLoads(m)' /\ PairsLoad'
        BY <1>1, <1>4 DEF BuiltLoads, PairsLoad
    <2>2. phase'[m] # "writeEps" /\ (phase'[m] = "eps" => disk'.evecs = built'[m].evecs)
        BY <1>1, <1>4 DEF BuiltLoads, AfterFiles
    <2> QED
        BY <1>1, <1>2, <2>1, <2>2 DEF FilesInv
<1> QED
    BY <1>1, <1>3, <1>4, <1>5, <1>6 DEF LoadInv

\* The graph that is swapped in is the one in the files.
LEMMA LoadSwap ==
    ASSUME TypeOK, SerialMerges, LoadInv, SerialInv, NEW m \in Mergers, Swap(m)
    PROVE  LoadInv'
<1>1. /\ phase[m] = "swap" /\ phase'[m] = "idle" /\ (\A n \in Mergers : n = m)
      /\ graph' = GraphOf(built[m]) /\ UNCHANGED <<stage, disk>>
    BY DEF Swap, EndTask, TypeOK, MergerTypeOK, SerialMerges
<1>2. /\ Up /\ Up' /\ disk.nodes = built[m].nodes /\ disk.edges = built[m].edges
    BY <1>1 DEF SerialInv, MergersInv, Up, HasBuilt, NodesSaved, EdgesSaved
<1>3. WholeInv /\ PairsLoad /\ BuiltLoads(m)
    BY <1>1, <1>2 DEF LoadInv, FilesInv, HasBuilt
<1>4. graph'.nodes = disk'.nodes /\ graph'.edges = disk'.edges
    BY <1>1, <1>2 DEF GraphOf
<1>5. EndsInRange(graph'.edges, Len(graph'.nodes))
    BY <1>1, <1>2, <1>3, <1>4 DEF BuiltLoads
<1>6. WholeInv'
    <2>1. \A f \in Files : phase[m] # WritingOf(f) /\ phase'[m] # WritingOf(f)
        BY <1>1, SavedPhases DEF BeforeFiles, AfterFiles
    <2> QED
        BY <1>1, <1>3, <2>1 DEF WholeInv
<1>7. FilesInv'
    <2>1. PairsLoad'
        BY <1>1, <1>3 DEF PairsLoad
    <2>2. phase'[m] \notin HasBuilt
        BY <1>1, OpenedPhases DEF BeforeFiles
    <2> QED
        BY <1>1, <1>4, <1>5, <2>1, <2>2 DEF FilesInv
<1> QED
    BY <1>1, <1>2, <1>5, <1>6, <1>7 DEF LoadInv

\* The steps of a merge: the rebuild does not panic, and nothing fails after the
\* build.
LEMMA LoadMergeStep ==
    ASSUME Lone, TypeOK, LoadInv, SerialInv, NEW m \in Mergers,
           MergeStep(m) \/ MergeFails(m) \/ ForceMerge(m)
    PROVE  LoadInv'
<1>1. SerialMerges
    BY DEF Lone
<1>2. CASE StartMerge(m) \/ ForceMerge(m) \/ Drain(m) \/ BuildPanics(m)
    <2>1. /\ Up /\ UNCHANGED <<stage, graph, disk>>
          /\ phase[m] \in BeforeFiles /\ phase'[m] \in BeforeFiles
        BY <1>2 DEF StartMerge, ForceMerge, Launch, Drain, BuildPanics, EndTask, BeforeFiles, TypeOK,
            MergerTypeOK, indexVars, Up, SerialInv, MergersInv
    <2>2. Up' /\ stage' \in {"up", "closing"}
        BY <2>1 DEF Up
    <2> QED
        BY <1>1, <2>1, <2>2, LoadIdle
<1>3. CASE MergeFails(m)
    <2>1. \A kind \in {"write", "rebuild", "disconnect"} : ~ Fault(kind)
        BY DEF Fault, Lone
    <2>2. /\ Up /\ UNCHANGED <<stage, graph, disk>>
          /\ phase[m] \in BeforeFiles /\ phase'[m] \in BeforeFiles
        BY <1>3, <2>1 DEF MergeFails, EndTask, BeforeFiles, TypeOK, MergerTypeOK, indexVars,
            SerialInv, MergersInv
    <2>3. Up' /\ stage' \in {"up", "closing"}
        BY <2>2 DEF Up
    <2> QED
        BY <1>1, <2>2, <2>3, LoadIdle
<1>4. CASE \/ SaveNodes(m) \/ SaveEdges(m) \/ SaveVecs(m)
           \/ SaveEdgeVecs(m) \/ SaveEndpoints(m)
    <2>1. \E file \in Files : Save(m, file, After(file))
        BY <1>4 DEF SaveNodes, SaveEdges, SaveVecs, SaveEdgeVecs, SaveEndpoints, Files, After
    <2> QED
        BY <1>1, <2>1, LoadSave
<1>5. ~ RebuildPanics(m)
    <2> SUFFICES ASSUME RebuildPanics(m) PROVE FALSE
        OBVIOUS
    <2>1. phase[m] = "rebuild" /\ (\A n \in Mergers : n = m)
        BY <1>1 DEF RebuildPanics, SerialMerges
    <2>2. Up
        BY <2>1 DEF SerialInv, MergersInv
    <2>3. Len(built[m].evecs) = Len(built[m].eps)
        BY <2>1, <2>2 DEF LoadInv, FilesInv, BuiltLoads, HasBuilt
    <2>4. "vecs" \notin disk.cut
        <3>1. "vecs" \in Files /\ phase[m] # WritingOf("vecs")
            BY <2>1, SavedPhases DEF AfterFiles, Files
        <3> QED
            BY <2>1, <3>1 DEF LoadInv, WholeInv
    <2> QED
        BY <2>3, <2>4 DEF RebuildPanics
<1>6. ASSUME NEW file \in Files, Open(m, file) PROVE LoadInv'
    BY <1>1, <1>6, LoadOpen
<1> QED
    BY <1>1, <1>2, <1>3, <1>4, <1>5, <1>6, LoadBuild, LoadMoves, LoadSwap DEF MergeStep

\* When the process exits, no merge has begun to write that has not written all.
LEMMA LoadExit ==
    ASSUME TypeOK, SerialMerges, LoadInv, SerialInv, Exit
    PROVE  LoadInv'
<1>1. /\ stage = "closing" /\ stage' = "exited" /\ Up /\ ~ Up' /\ UNCHANGED disk
      /\ \A m \in Mergers : phase[m] \in {"idle", "rebuild", "swap"} /\ phase'[m] = "idle"
    BY DEF Exit, Vanish, Up
<1>2. WholeInv'
    <2>1. \A f \in Files : \A p \in {"idle", "rebuild", "swap"} : p # WritingOf(f)
        BY SavedPhases DEF BeforeFiles, AfterFiles
    <2> QED
        BY <1>1, <2>1 DEF LoadInv, WholeInv
<1>3. FilesInv
    BY <1>1 DEF LoadInv
<1>4. EndsInRange(disk.edges, Len(disk.nodes))
    <2>1. CASE \A m \in Mergers : phase[m] = "idle"
        <3>1. "idle" \notin NodesOpened /\ "idle" \notin EdgesOpened
            BY OpenedPhases DEF BeforeFiles, NodesSaved
        <3>2. Len(disk.nodes) = Len(graph.nodes) /\ EndsInRange(disk.edges, Len(graph.nodes))
            BY <1>3, <2>1, <3>1 DEF FilesInv
        <3> QED
            BY <3>2
    <2>2. ASSUME NEW m \in Mergers, phase[m] \in {"rebuild", "swap"}
          PROVE  EndsInRange(disk.edges, Len(disk.nodes))
        <3>1. disk.nodes = built[m].nodes /\ disk.edges = built[m].edges
            BY <2>2 DEF SerialInv, MergersInv, HasBuilt, NodesSaved, EdgesSaved
        <3>2. BuiltLoads(m)
            BY <1>3, <2>2 DEF FilesInv, HasBuilt
        <3> QED
            BY <3>1, <3>2 DEF BuiltLoads
    <2> QED
        BY <1>1, <2>1, <2>2
<1> QED
    BY <1>1, <1>2, <1>4 DEF LoadInv

\* LoadInv is inductive.
LEMMA LoadStep ==
    ASSUME Lone, TypeOK, LoadInv, SerialInv, [Next]_vars
    PROVE  LoadInv'
<1>1. SerialMerges
    BY DEF Lone
<1>2. ASSUME UNCHANGED <<stage, graph, disk, phase, built>> PROVE LoadInv'
    BY <1>2 DEF LoadInv, WholeInv, FilesInv, PairsLoad, BuiltLoads, Up
<1>3. CASE UNCHANGED vars \/ Quiescent
    BY <1>2, <1>3 DEF vars, Quiescent, indexVars, mergeVars
<1>4. ASSUME NEW w \in Writers, Begin(w) \/ WriterStep(w) PROVE LoadInv'
    BY <1>2, <1>4 DEF Begin, WriterStep, ResolveExisting, ResolveNew, ResolvePanics, ResolveDone,
        WriteNodesWal, AddNodes, WriteEdgesWal, AddEdges, Finish, indexVars, mergeVars
<1>5. ~ Crash /\ ~ Boot
    BY DEF Crash, Fault, Lone, Boot, LoadInv
<1>6. CASE Shutdown
    <2>1. stage = "up" /\ stage' = "closing" /\ Up /\ Up'
        BY <1>6 DEF Shutdown, Up
    <2>2. CASE DeltaSize > 0
        <3>1. PICK m \in Mergers : Launch(m, "main")
            BY <1>6, <2>2 DEF Shutdown
        <3>2. /\ UNCHANGED <<graph, disk>>
              /\ phase[m] \in BeforeFiles /\ phase'[m] \in BeforeFiles
            BY <3>1 DEF Launch, BeforeFiles, TypeOK, MergerTypeOK, indexVars
        <3> QED
            BY <1>1, <2>1, <3>2, LoadIdle
    <2>3. CASE ~ (DeltaSize > 0)
        <3>1. UNCHANGED <<graph, disk, phase, built>>
            BY <1>6, <2>3 DEF Shutdown, indexVars, mergeVars
        <3> QED
            BY <2>1, <3>1 DEF LoadInv, WholeInv, FilesInv, PairsLoad, BuiltLoads
    <2> QED
        BY <2>2, <2>3
<1> QED
    BY <1>1, <1>3, <1>4, <1>5, <1>6, LoadMergeStep, LoadExit DEF Next

\* Whatever IDs concurrent requests leave in the edges, a snapshot of which every
\* file is whole can be loaded, between any two files of a merge and after an
\* exit, as long as merges do not overlap and none fails once it has begun to
\* write.  While a file is being rewritten, and after a crash in that time, it
\* cannot (CrashKeepsGraph).
THEOREM LoneWholeFilesLoad ==
    ASSUME Lone
    PROVE  Spec => [](WholeFilesLoad /\ (disk.cut = {} => SnapshotLoads))
<1>1. SerialMerges
    BY DEF Lone
<1>2. ASSUME TypeOK, SerialInv, LoadInv PROVE WholeFilesLoad /\ (disk.cut = {} => SnapshotLoads)
    <2> SUFFICES ASSUME disk.cut = {} PROVE EndsInRange(disk.edges, Len(disk.nodes))
        BY DEF WholeFilesLoad, SnapshotLoads, VectorsReadable
    <2>1. CASE stage = "exited"
        BY <1>2, <2>1 DEF LoadInv
    <2>2. CASE stage # "exited"
        <3>1. Up /\ FilesInv /\ EndsInRange(graph.edges, Len(graph.nodes))
            BY <1>2, <2>2 DEF LoadInv, Up
        <3>2. CASE \A m \in Mergers : phase[m] \notin NodesOpened
            <4>1. \A m \in Mergers : phase[m] \notin EdgesOpened
                BY <3>2, OpenedPhases DEF NodesOpened
            <4>2. Len(disk.nodes) = Len(graph.nodes) /\ EndsInRange(disk.edges, Len(graph.nodes))
                BY <3>1, <3>2, <4>1 DEF FilesInv
            <4> QED
                BY <4>2
        <3>3. ASSUME NEW m \in Mergers, phase[m] \in NodesOpened
              PROVE  EndsInRange(disk.edges, Len(disk.nodes))
            <4>1. phase[m] \notin WritePhases
                <5>1. \A f \in Files : phase[m] # WritingOf(f)
                    BY <1>2 DEF LoadInv, WholeInv
                <5> QED
                    BY <5>1 DEF Files, WritingOf, WritePhases
            <4>2. phase[m] \in NodesSaved
                BY <3>3, <4>1 DEF NodesOpened, WritePhases
            <4>3. /\ disk.nodes = built[m].nodes /\ Extends(graph.nodes, built[m].nodes)
                  /\ phase[m] \in EdgesSaved => disk.edges = built[m].edges
                  /\ BuiltLoads(m)
                BY <1>2, <3>1, <3>3, <4>2, OpenedPhases DEF SerialInv, MergersInv, FilesInv
            <4>4. CASE phase[m] \in EdgesSaved
                BY <4>3, <4>4 DEF BuiltLoads
            <4>5. CASE phase[m] \notin EdgesSaved
                <5>1. \A n \in Mergers : phase[n] \notin EdgesOpened
                    BY <1>1, <4>1, <4>5 DEF SerialMerges, EdgesOpened, WritePhases
                <5>2. EndsInRange(disk.edges, Len(graph.nodes))
                    BY <3>1, <5>1 DEF FilesInv
                <5>6. /\ graph.nodes \in Seq(NodeType) /\ built[m].nodes \in Seq(NodeType)
                      /\ disk.edges \in Seq(EdgeType)
                    <6>1. graph \in GraphType /\ built[m] \in SnapshotType /\ disk \in SnapshotType
                        BY <1>2 DEF TypeOK, IndexTypeOK, MergerTypeOK
                    <6> QED
                        BY ONLY <6>1 DEF GraphType, SnapshotType
                <5>3. Len(graph.nodes) \in Nat /\ Len(built[m].nodes) \in Nat /\ disk.edges \in Seq(EdgeType)
                    BY ONLY <5>6, LenProperties
                <5>4. Len(graph.nodes) <= Len(disk.nodes)
                    BY <4>3 DEF Extends
                <5>5. \A j \in DOMAIN disk.edges : disk.edges[j].from \in Nat /\ disk.edges[j].to \in Nat
                    <6>1. \A j \in DOMAIN disk.edges : disk.edges[j] \in EdgeType
                        BY ONLY <5>3, ElementOfSeq, LenProperties
                    <6> QED
                        BY ONLY <6>1 DEF EdgeType
                <5> QED
                    BY <4>3, <5>2, <5>3, <5>4, <5>5 DEF EndsInRange
            <4> QED
                BY <4>4, <4>5
        <3> QED
            BY <3>2, <3>3
    <2> QED
        BY <2>1, <2>2
<1>3. TypeOK /\ SerialInv /\ LoadInv /\ [Next]_vars => LoadInv'
    BY LoadStep
<1> QED
    BY <1>1, <1>2, <1>3, LoadInit, SerialInvariant, PTL DEF Spec

=============================================================================
