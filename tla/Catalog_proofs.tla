----------------------------- MODULE Catalog_proofs -----------------------------
(***************************************************************************)
(* Theorems about Catalog, for any snapshots, names, types of edges and    *)
(* bounds.                                                                 *)
(***************************************************************************)
EXTENDS Catalog, CsrGraph_proofs

\* Last picks the greatest of a set of positions.
LEMMA LastProperties ==
    ASSUME NEW n \in Nat, NEW S, S \subseteq 1..n, S # {}
    PROVE  Last(S) \in S /\ \A j \in S : j <= Last(S)
<1> DEFINE T == {n - i : i \in S}
<1>1. \A i \in S : i \in Nat /\ n - i \in Nat
    OBVIOUS
<1>2. T \subseteq Nat
    BY <1>1
<1>3. T # {}
    BY Zenon
<1>4. PICK x \in T : \A y \in T : x <= y
    BY <1>2, <1>3, LeastNat
<1>5. PICK i \in S : x = n - i
    OBVIOUS
<1>6. ASSUME NEW j \in S PROVE j <= i
    <2>1. n - j \in T
        OBVIOUS
    <2>2. x <= n - j
        BY <1>4, <2>1
    <2> QED
        BY <1>1, <1>5, <2>2
<1> QED
    BY <1>6 DEF Last

(***************************************************************************)
(* The graphs of Catalog as those of CsrGraph.                             *)
(***************************************************************************)
LEMMA EdgeTypeIs == EdgeType = EdgeSet(Names, [type : EdgeTypes, weight : Nat, dim : Dims])
BY DEF EdgeType, EdgeSet

LEMMA SourcesType ==
    ASSUME NEW es \in Seq(EdgeType)
    PROVE  /\ Sources(es) \in Seq(Nat) /\ Len(Sources(es)) = Len(es)
           /\ \A k \in 1..Len(es) : Sources(es)[k] = es[k].from
BY EdgeTypeIs, SourcesOfEdges

LEMMA AllEdgesOfBuild ==
    ASSUME NEW ns \in Seq(NodeType), NEW es \in Seq(EdgeType), EndsInRange(es, Len(ns))
    PROVE  AllEdges(Build(ns, es)) = Packed(es, Sources(es))
<1>1. Len(ns) \in Nat /\ Inside(es, Len(ns))
    BY DEF EndsInRange, Inside
<1> QED
    BY <1>1, EdgeTypeIs, BuiltIsPacked

LEMMA BuiltItems ==
    ASSUME NEW ns \in Seq(NodeType), NEW es \in Seq(EdgeType), EndsInRange(es, Len(ns))
    PROVE  \A e : e \in Items(AllEdges(Build(ns, es))) <=> e \in Items(es)
<1>1. Len(ns) \in Nat /\ Inside(es, Len(ns))
    BY DEF EndsInRange, Inside
<1> QED
    BY <1>1, EdgeTypeIs, BuiltSame

(***************************************************************************)
(* The inductive invariant.                                                *)
(***************************************************************************)

\* A graph that was built from edges between its nodes, with IDs that are places.
IsGraph(g) ==
    \E ns \in Seq(NodeType), es \in Seq(EdgeType) :
        /\ g = Build(ns, es)
        /\ EndsInRange(es, Len(ns))
        /\ \A i \in DOMAIN ns : ns[i].id = i - 1

\* The ID was handed out, for this name.
Leads(id, name) == id + 1 \in 1..Len(issued) /\ issued[id + 1] = name

NamesNodes(nodes) == \A i \in 1..Len(nodes) : Leads(nodes[i].id, nodes[i].ent)

NamesEnds(es) == \A e \in Items(es) : Leads(e.from, e.src) /\ Leads(e.to, e.dst)

FileType ==
    [nodes : Seq(Names),
     edges : Seq([from : Names \cup {NoName}, to : Names \cup {NoName}, type : EdgeTypes])]

ImportType ==
    [phase : {"idle", "nodes", "edges"}, payload : FileType, next : Nat \ {0},
     ids : Seq(Names \X Nat), runs : Nat]

VectorsType == [nodes : Seq(Dims), edges : Seq(Dims), short : SUBSET {"nodes", "edges"}]

StoreInv ==
    /\ delta \in GraphType /\ wal \in GraphType /\ drained \in GraphType
    /\ walTorn = FALSE
    /\ issued \in Seq(Names)

\* What waits for its node has the next ID; an imported one is the node that the
\* importer has come to.
Awaited(n) ==
    /\ n \in NodeType /\ n.id = Len(issued)
    /\ n.origin = "none" => /\ NodesLeft /\ n.ent = NextName
                            /\ NameToId(import.ids, n.ent) = {}

PendingInv ==
    \/ pending = {} /\ nextNodeId = Len(issued)
    \/ nextNodeId = Len(issued) + 1 /\ \E n \in pending : pending = {n} /\ Awaited(n)

ShapeInv ==
    /\ IsGraph(graph)
    /\ vectors \in VectorsType
    /\ merging \in BOOLEAN /\ failed \in BOOLEAN
    /\ read = [active |-> read.active, graph |-> read.graph, quiet |-> read.quiet]
    /\ read.active \in BOOLEAN /\ read.quiet \in BOOLEAN /\ IsGraph(read.graph)
    /\ file \in FileType
    /\ import \in ImportType

\* What has an ID has it by the name the ID was handed out for, and edges join the
\* nodes that their callers named.
NameInv ==
    /\ NamesNodes(graph.nodes) /\ NamesNodes(drained.nodes) /\ NamesNodes(delta.nodes)
    /\ NamesEnds(AllEdges(graph)) /\ NamesEnds(drained.edges) /\ NamesEnds(delta.edges)
    /\ \A i \in 1..Len(import.ids) : Leads(import.ids[i][2], import.ids[i][1])

Numbered(nodes, start) == \A i \in 1..Len(nodes) : nodes[i].id = (start + i) - 1

\* IDs tell buffered nodes from each other and from those of the graph; and until
\* a merge dies, graph, merge and buffer follow each other without a gap.
PlaceInv ==
    /\ ~ merging => drained = Empty
    /\ failed <=> vectors.short # {}
    /\ \A i, j \in 1..Len(delta.nodes) : delta.nodes[i].id = delta.nodes[j].id => i = j
    /\ \A i \in 1..Len(delta.nodes) : delta.nodes[i].id >= Len(graph.nodes)
    /\ Len(graph.nodes) <= Len(issued)
    /\ ~ failed =>
          /\ Len(graph.nodes) + Len(drained.nodes) + Len(delta.nodes) = Len(issued)
          /\ Numbered(drained.nodes, Len(graph.nodes))
          /\ Numbered(delta.nodes, Len(graph.nodes) + Len(drained.nodes))
          /\ EndsInRange(drained.edges, Len(graph.nodes) + Len(drained.nodes))

Extends(p, q) == Len(p) <= Len(q) /\ \A i \in 1..Len(p) : q[i] = p[i]

\* The edges of a graph join the nodes that their callers named.
EndsTold(g) ==
    \A e \in Items(AllEdges(g)) :
        g.nodes[e.from + 1].ent = e.src /\ g.nodes[e.to + 1].ent = e.dst

\* Nothing that a reader saw of the graph's nodes is taken back.
ReadInv ==
    read.active =>
        /\ Extends(read.graph.nodes, graph.nodes)
        /\ EndsTold(read.graph)
        /\ read.quiet => read.graph = graph /\ ~ merging

AllFull(d) ==
    /\ \A n \in Items(d.nodes) : n.origin = "full"
    /\ \A e \in Items(d.edges) : e.origin.dim = "full"

\* Without an import all vectors have one length, and no merge dies.
FullInv ==
    import.runs = 0 =>
        /\ ~ failed
        /\ import.phase = "idle"
        /\ AllFull(delta) /\ AllFull(drained)
        /\ Items(vectors.nodes) \subseteq {"full"} /\ Items(vectors.edges) \subseteq {"full"}

CatalogInv == StoreInv /\ PendingInv /\ ShapeInv /\ NameInv /\ PlaceInv /\ ReadInv /\ FullInv

\* The regime of the theorems: the node of an ID is pushed before the next ID is
\* handed out.  (Requests that overlap break what they say.)
OneAtATime == MaxPending = 1

\* What is read back from a graph.
LEMMA GraphFacts ==
    ASSUME NEW g, IsGraph(g)
    PROVE  /\ g.nodes \in Seq(NodeType)
           /\ AllEdges(g) \in Seq(EdgeType)
           /\ EndsInRange(AllEdges(g), Len(g.nodes))
           /\ \A i \in 1..Len(g.nodes) : g.nodes[i].id = i - 1
<1>1. PICK ns \in Seq(NodeType), es \in Seq(EdgeType) :
          /\ g = Build(ns, es) /\ EndsInRange(es, Len(ns))
          /\ \A i \in DOMAIN ns : ns[i].id = i - 1
    BY DEF IsGraph
<1>2. g.nodes = ns
    BY <1>1, BuildFields
<1>3. AllEdges(g) \in Seq(EdgeType) /\ Len(AllEdges(g)) = Len(es)
        /\ \A p \in 1..Len(es) : \E j \in 1..Len(es) : AllEdges(g)[p] = es[j]
    <2>1. AllEdges(g) = Packed(es, Sources(es))
        BY <1>1, AllEdgesOfBuild
    <2>2. Sources(es) \in Seq(Nat) /\ Len(Sources(es)) = Len(es)
        BY SourcesType
    <2>3. /\ Packed(es, Sources(es)) \in Seq(EdgeType) /\ Len(Packed(es, Sources(es))) = Len(es)
          /\ \A p \in 1..Len(es) : \E j \in 1..Len(es) :
                Placed(Sources(es), j) = p /\ Packed(es, Sources(es))[p] = es[j]
        BY <2>2, PackedProperties
    <2> QED
        BY <2>1, <2>3
<1>4. DOMAIN es = 1..Len(es) /\ DOMAIN AllEdges(g) = 1..Len(es)
    BY <1>3
<1>5. EndsInRange(AllEdges(g), Len(ns))
    <2>1. \A j \in DOMAIN es : es[j].from < Len(ns) /\ es[j].to < Len(ns)
        BY <1>1 DEF EndsInRange
    <2> QED
        BY ONLY <1>3, <1>4, <2>1 DEF EndsInRange
<1> QED
    BY <1>1, <1>2, <1>3, <1>5

(***************************************************************************)
(* The first states.                                                       *)
(***************************************************************************)
LEMMA EmptyType ==
    /\ Empty \in GraphType /\ Empty.nodes = <<>> /\ Empty.edges = <<>>
    /\ Len(Empty.nodes) = 0 /\ Len(Empty.edges) = 0
    /\ Items(Empty.nodes) = {} /\ Items(Empty.edges) = {}
BY DEF Empty, GraphType, Items

LEMMA NoGraphIsGraph == IsGraph(NoGraph) /\ NoGraph.nodes = <<>> /\ AllEdges(NoGraph) = <<>>
<1>1. <<>> \in Seq(NodeType) /\ <<>> \in Seq(EdgeType) /\ EndsInRange(<<>>, Len(<<>>))
        /\ \A i \in DOMAIN <<>> : <<>>[i].id = i - 1
    BY DEF EndsInRange
<1> DEFINE s == <<>>
<1>2. s \in Seq(NodeType) /\ s \in Seq(EdgeType) /\ EndsInRange(s, Len(s))
        /\ \A i \in DOMAIN s : s[i].id = i - 1
    BY <1>1
<1>3. NoGraph = Build(s, s)
    BY DEF NoGraph
<1>4. Len(s) = 0 /\ s = <<>>
    OBVIOUS
<1> HIDE DEF s
<1>5. IsGraph(NoGraph)
    BY <1>2, <1>3 DEF IsGraph
<1>6. NoGraph.nodes = s
    BY <1>3, BuildFields
<1>7. AllEdges(NoGraph) = s
    <2>1. AllEdges(NoGraph) = Packed(s, Sources(s))
        BY <1>2, <1>3, AllEdgesOfBuild
    <2>2. Sources(s) \in Seq(Nat) /\ Len(Sources(s)) = Len(s)
        BY <1>2, SourcesType
    <2>3. Packed(s, Sources(s)) \in Seq(EdgeType) /\ Len(Packed(s, Sources(s))) = Len(s)
        BY <1>2, <2>2, PackedProperties
    <2>4. Packed(s, Sources(s)) = <<>>
        BY <1>4, <2>3, EmptySeq
    <2> QED
        BY <1>4, <2>1, <2>4
<1> QED
    BY <1>4, <1>5, <1>6, <1>7

LEMMA NoFileType == NoFile \in FileType
BY DEF NoFile, FileType

LEMMA NotImportingType ==
    /\ NotImporting \in ImportType /\ NotImporting.runs = 0 /\ NotImporting.phase = "idle"
    /\ NotImporting.ids = <<>>
BY NoFileType DEF NotImporting, ImportType

LEMMA CatalogInit == Init => CatalogInv
<1> SUFFICES ASSUME Init PROVE CatalogInv
    OBVIOUS
<1>1. PICK s \in Snapshots :
          /\ graph = Build(s.nodes, s.edges)
          /\ vectors = [NoVectors EXCEPT !.nodes = [i \in DOMAIN s.nodes |-> s.nodes[i].origin]]
          /\ issued = [i \in DOMAIN s.nodes |-> s.nodes[i].ent]
          /\ nextNodeId = Len(s.nodes) /\ pending = {}
    BY DEF Init
<1> DEFINE ns == s.nodes
           es == s.edges
<1>2. /\ s \in GraphType
      /\ \A i \in DOMAIN ns : ns[i].id = i - 1 /\ ns[i].origin = "full"
      /\ \A k \in DOMAIN es : \E i, j \in DOMAIN ns :
            /\ es[k].from = i - 1 /\ es[k].src = ns[i].ent
            /\ es[k].to = j - 1 /\ es[k].dst = ns[j].ent
    BY <1>1, CatalogAssumption
<1>3. ns \in Seq(NodeType) /\ es \in Seq(EdgeType)
    BY <1>2 DEF GraphType
<1>4. /\ DOMAIN ns = 1..Len(ns) /\ DOMAIN es = 1..Len(es) /\ Len(ns) \in Nat
      /\ \A i \in 1..Len(ns) : ns[i] \in NodeType
    BY <1>3
<1>5. /\ delta = Empty /\ wal = Empty /\ walTorn = FALSE
      /\ merging = FALSE /\ drained = Empty /\ failed = FALSE
      /\ read = NotReading /\ file = NoFile /\ import = NotImporting
    BY DEF Init
<1> HIDE DEF ns, es
<1>6. graph = Build(ns, es) /\ nextNodeId = Len(ns) /\ issued = [i \in 1..Len(ns) |-> ns[i].ent]
    BY <1>1, <1>4 DEF ns, es
<1>7. issued \in Seq(Names) /\ Len(issued) = Len(ns) /\ \A i \in 1..Len(ns) : issued[i] = ns[i].ent
    <2>1. \A i \in 1..Len(ns) : ns[i].ent \in Names
        BY <1>4 DEF NodeType
    <2>2. issued \in [1..Len(ns) -> Names]
        BY <1>6, <2>1
    <2>3. issued \in Seq(Names) /\ Len(issued) = Len(ns)
        BY <1>4, <2>2, DefinedSeq
    <2> QED
        BY <1>6, <2>3
<1>8. EndsInRange(es, Len(ns))
    <2>1. ASSUME NEW k \in DOMAIN es PROVE es[k].from < Len(ns) /\ es[k].to < Len(ns)
        <3>1. PICK i, j \in DOMAIN ns : es[k].from = i - 1 /\ es[k].to = j - 1
            BY <1>2 DEF ns, es
        <3> QED
            BY <1>4, <3>1
    <2> QED
        BY <2>1 DEF EndsInRange
<1>9. \A i \in DOMAIN ns : ns[i].id = i - 1
    BY <1>2 DEF ns
<1>10. IsGraph(graph)
    BY <1>3, <1>6, <1>8, <1>9 DEF IsGraph
<1>11. graph.nodes = ns
    BY <1>6, BuildFields
<1>12. \A e : e \in Items(AllEdges(graph)) => e \in Items(es)
    BY <1>3, <1>6, <1>8, BuiltItems
<1>13. StoreInv
    BY <1>5, <1>6, <1>7, EmptyType DEF StoreInv
<1>23. PendingInv
    BY <1>1, <1>6, <1>7 DEF PendingInv
<1>14. /\ vectors \in VectorsType /\ vectors.short = {}
       /\ Items(vectors.nodes) \subseteq {"full"} /\ Items(vectors.edges) \subseteq {"full"}
    <2> DEFINE dims == [i \in DOMAIN s.nodes |-> s.nodes[i].origin]
    <2>1. dims \in [1..Len(ns) -> {"full"}] /\ DOMAIN dims = 1..Len(ns)
        BY <1>2, <1>4 DEF ns
    <2>2. vectors = [nodes |-> dims, edges |-> <<>>, short |-> {}]
        BY <1>1 DEF NoVectors
    <2> HIDE DEF dims
    <2>3. dims \in Seq({"full"})
        BY <1>4, <2>1, DefinedSeq
    <2>4. dims \in Seq(Dims)
        BY <2>3, SeqMonotonic DEF Dims
    <2>5. Items(dims) \subseteq {"full"}
        BY <2>1 DEF Items
    <2>6. <<>> \in Seq(Dims) /\ Items(<<>>) = {}
        BY DEF Items
    <2> QED
        BY <2>2, <2>4, <2>5, <2>6 DEF VectorsType
<1>15. read = [active |-> FALSE, graph |-> NoGraph, quiet |-> FALSE]
    BY <1>5 DEF NotReading
<1>16. ShapeInv
    <2>1. read.active = FALSE /\ read.quiet = FALSE /\ read.graph = NoGraph
        BY ONLY <1>15
    <2>2. read = [active |-> read.active, graph |-> read.graph, quiet |-> read.quiet]
        BY ONLY <1>15, <2>1
    <2>3. IsGraph(read.graph)
        BY ONLY <2>1, NoGraphIsGraph
    <2>4. read.active \in BOOLEAN /\ read.quiet \in BOOLEAN
        BY ONLY <2>1
    <2>5. merging \in BOOLEAN /\ failed \in BOOLEAN /\ file \in FileType /\ import \in ImportType
        BY <1>5, NoFileType, NotImportingType
    <2> QED
        BY <1>10, <1>14, <2>2, <2>3, <2>4, <2>5 DEF ShapeInv
<1>17. NamesNodes(graph.nodes)
    <2>1. ASSUME NEW i \in 1..Len(ns) PROVE Leads(ns[i].id, ns[i].ent)
        <3>1. ns[i].id = i - 1 /\ (i - 1) + 1 = i
            BY <1>4, <1>9
        <3> QED
            BY <1>7, <3>1 DEF Leads
    <2> QED
        BY <1>11, <2>1 DEF NamesNodes
<1>18. NamesEnds(AllEdges(graph))
    <2>1. ASSUME NEW e \in Items(AllEdges(graph))
          PROVE  Leads(e.from, e.src) /\ Leads(e.to, e.dst)
        <3>1. PICK k \in DOMAIN es : e = es[k]
            BY <1>12 DEF Items
        <3>2. PICK i, j \in DOMAIN ns : e.from = i - 1 /\ e.src = ns[i].ent
                                        /\ e.to = j - 1 /\ e.dst = ns[j].ent
            BY <1>2, <3>1 DEF ns, es
        <3>3. (i - 1) + 1 = i /\ (j - 1) + 1 = j /\ i \in 1..Len(ns) /\ j \in 1..Len(ns)
            BY <1>4
        <3> QED
            BY <1>7, <3>2, <3>3 DEF Leads
    <2> QED
        BY <2>1 DEF NamesEnds
<1>19. NameInv
    BY <1>5, <1>17, <1>18, EmptyType, NotImportingType DEF NameInv, NamesNodes, NamesEnds
<1>20. PlaceInv
    <2>1. Len(delta.nodes) = 0 /\ Len(drained.nodes) = 0 /\ DOMAIN drained.edges = {}
        BY <1>5, EmptyType
    <2> QED
        BY <1>4, <1>5, <1>7, <1>11, <1>14, <2>1 DEF PlaceInv, Numbered, EndsInRange
<1>21. ReadInv
    BY <1>15 DEF ReadInv
<1>22. FullInv
    BY <1>5, <1>14, EmptyType, NotImportingType DEF FullInv, AllFull
<1> QED
    BY <1>13, <1>16, <1>19, <1>20, <1>21, <1>22, <1>23 DEF CatalogInv

(***************************************************************************)
(* One step of the store: a node that is created, an edge that is added.   *)
(***************************************************************************)
LEMMA InvTypes ==
    ASSUME CatalogInv
    PROVE  /\ graph.nodes \in Seq(NodeType) /\ Len(graph.nodes) \in Nat
           /\ drained.nodes \in Seq(NodeType) /\ Len(drained.nodes) \in Nat
           /\ delta.nodes \in Seq(NodeType) /\ Len(delta.nodes) \in Nat
           /\ AllEdges(graph) \in Seq(EdgeType)
           /\ drained.edges \in Seq(EdgeType) /\ delta.edges \in Seq(EdgeType)
           /\ delta = [nodes |-> delta.nodes, edges |-> delta.edges]
           /\ \A i \in 1..Len(graph.nodes) : graph.nodes[i].id = i - 1
           /\ EndsInRange(AllEdges(graph), Len(graph.nodes))
<1>1. delta \in GraphType /\ drained \in GraphType /\ IsGraph(graph)
    BY DEF CatalogInv, StoreInv, ShapeInv
<1>2. /\ drained.nodes \in Seq(NodeType) /\ delta.nodes \in Seq(NodeType)
      /\ drained.edges \in Seq(EdgeType) /\ delta.edges \in Seq(EdgeType)
      /\ delta = [nodes |-> delta.nodes, edges |-> delta.edges]
    BY <1>1 DEF GraphType
<1>3. /\ graph.nodes \in Seq(NodeType) /\ AllEdges(graph) \in Seq(EdgeType)
      /\ EndsInRange(AllEdges(graph), Len(graph.nodes))
      /\ \A i \in 1..Len(graph.nodes) : graph.nodes[i].id = i - 1
    BY <1>1, GraphFacts
<1>4. Len(graph.nodes) \in Nat /\ Len(drained.nodes) \in Nat /\ Len(delta.nodes) \in Nat
    BY <1>2, <1>3
<1> QED
    BY <1>2, <1>3, <1>4

\* Steps that leave what waits alone, and the importer where its node is awaited.
LEMMA PendingKept ==
    ASSUME CatalogInv, nextNodeId' = nextNodeId, pending' = pending, issued' = issued,
           import' = import \/ ~ NodesLeft \/ \A n \in pending : n.origin # "none"
    PROVE  PendingInv'
<1>1. CASE pending = {} /\ nextNodeId = Len(issued)
    BY <1>1 DEF PendingInv
<1>2. CASE nextNodeId = Len(issued) + 1 /\ \E n \in pending : pending = {n} /\ Awaited(n)
    <2>1. PICK n \in pending : pending = {n} /\ Awaited(n)
        BY <1>2
    <2>2. CASE import' = import
        <3>1. Awaited(n)'
            BY <2>1, <2>2 DEF Awaited, NodesLeft, NextName
        <3> QED
            BY <1>2, <2>1, <3>1 DEF PendingInv
    <2>3. CASE n.origin # "none"
        <3>1. Awaited(n)'
            BY <2>1, <2>3 DEF Awaited
        <3> QED
            BY <1>2, <2>1, <3>1 DEF PendingInv
    <2>4. CASE ~ NodesLeft
        BY <2>1, <2>3, <2>4 DEF Awaited
    <2> QED
        BY <2>2, <2>3, <2>4
<1> QED
    BY <1>1, <1>2 DEF CatalogInv, PendingInv

\* What a push finds and what it leaves.
LEMMA PushEffect ==
    ASSUME CatalogInv, NEW n \in pending, Push(n)
    PROVE  /\ pending = {n} /\ pending' = {} /\ Awaited(n) /\ n.id \in Nat /\ n.ent \in Names
           /\ nextNodeId = Len(issued) + 1 /\ nextNodeId' = nextNodeId
           /\ delta' = [nodes |-> delta.nodes \o <<n>>, edges |-> delta.edges]
           /\ wal' \in GraphType /\ walTorn' = FALSE
           /\ issued' \in Seq(Names) /\ Len(issued) \in Nat /\ Len(issued') = Len(issued) + 1
           /\ \A i \in 1..Len(issued) : issued'[i] = issued[i]
           /\ issued'[Len(issued) + 1] = n.ent
<1>1. issued \in Seq(Names) /\ Len(issued) \in Nat /\ wal \in GraphType /\ walTorn = FALSE
    BY DEF CatalogInv, StoreInv
<1>9. pending = {n} /\ Awaited(n) /\ nextNodeId = Len(issued) + 1
    BY DEF CatalogInv, PendingInv
<1>2. n \in NodeType /\ n.id = Len(issued)
    BY <1>9 DEF Awaited
<1>10. n.id \in Nat /\ n.ent \in Names
    BY <1>2 DEF NodeType
<1>3. /\ issued' = [k \in DOMAIN issued \cup {n.id + 1} |->
                       IF k = n.id + 1 THEN n.ent ELSE issued[k]]
      /\ nextNodeId' = nextNodeId /\ pending' = pending \ {n}
    BY DEF Push
<1>4. delta' = [delta EXCEPT !.nodes = @ \o <<n>>]
    BY DEF Push, AddNode, PushNodes
<1>5. wal' = [wal EXCEPT !.nodes = @ \o <<n>>] /\ walTorn' = FALSE
    BY <1>1 DEF Push, AddNode, AppendNodes, Readable
<1>6. delta' = [nodes |-> delta.nodes \o <<n>>, edges |-> delta.edges]
    BY <1>4, InvTypes
<1>7. wal' \in GraphType
    <2>1. wal.nodes \in Seq(NodeType) /\ wal.edges \in Seq(EdgeType)
            /\ wal = [nodes |-> wal.nodes, edges |-> wal.edges]
        BY <1>1 DEF GraphType
    <2>2. wal.nodes \o <<n>> \in Seq(NodeType)
        BY <1>2, <2>1, PushItems
    <2>3. wal' = [nodes |-> wal.nodes \o <<n>>, edges |-> wal.edges]
        BY <1>5, <2>1
    <2> QED
        BY <2>1, <2>2, <2>3 DEF GraphType
<1>8. /\ issued' \in Seq(Names) /\ Len(issued') = Len(issued) + 1
      /\ \A i \in 1..Len(issued) : issued'[i] = issued[i]
      /\ issued'[Len(issued) + 1] = n.ent
    <2>1. PICK l \in Nat : l = Len(issued)
        BY <1>1
    <2>2. DOMAIN issued = 1..l /\ \A i \in 1..l : issued[i] \in Names
        BY <1>1, <2>1
    <2>3. 1..l \cup {l + 1} = 1..(l + 1) /\ l + 1 \in Nat /\ l + 1 \notin 1..l
        BY ONLY l \in Nat
    <2>4. issued' = [k \in 1..(l + 1) |-> IF k = l + 1 THEN n.ent ELSE issued[k]]
        BY <1>2, <1>3, <2>1, <2>2, <2>3
    <2>5. issued' \in [1..(l + 1) -> Names]
        BY <1>10, <2>2, <2>3, <2>4
    <2>6. issued' \in Seq(Names) /\ Len(issued') = l + 1
        BY <2>3, <2>5, DefinedSeq
    <2>7. issued'[l + 1] = n.ent /\ \A i \in 1..l : issued'[i] = issued[i]
        BY ONLY <2>3, <2>4, l \in Nat
    <2> QED
        BY <2>1, <2>6, <2>7
<1>11. pending' = {}
    BY <1>3, <1>9
<1> QED
    BY <1>1, <1>3, <1>5, <1>6, <1>7, <1>8, <1>9, <1>10, <1>11

\* What the actions that add to the store leave alone.
Frame == UNCHANGED <<indexVars, mergeVars, read, file>>

LEMMA PushStep ==
    ASSUME CatalogInv, NEW n \in pending, Push(n), Frame,
           import' \in ImportType, import'.runs = import.runs, import'.phase = import.phase,
           \A i \in 1..Len(import'.ids) :
              \/ i \in 1..Len(import.ids) /\ import'.ids[i] = import.ids[i]
              \/ import'.ids[i] = <<n.ent, n.id>>
    PROVE  CatalogInv'
<1> DEFINE ns == delta.nodes \o <<n>>
<1>0. /\ Awaited(n) /\ nextNodeId = Len(issued) + 1 /\ nextNodeId' = nextNodeId /\ pending' = {}
      /\ delta' = [nodes |-> ns, edges |-> delta.edges]
      /\ wal' \in GraphType /\ walTorn' = FALSE
      /\ issued' \in Seq(Names) /\ Len(issued) \in Nat /\ Len(issued') = Len(issued) + 1
      /\ \A i \in 1..Len(issued) : issued'[i] = issued[i]
      /\ issued'[Len(issued) + 1] = n.ent
    BY PushEffect
<1>2. n \in NodeType /\ n.id = Len(issued)
    BY <1>0 DEF Awaited
<1>1. /\ n \in NodeType
      /\ delta' = [nodes |-> ns, edges |-> delta.edges]
      /\ wal' \in GraphType /\ walTorn' = FALSE
      /\ issued' \in Seq(Names) /\ Len(issued) \in Nat /\ Len(issued') = Len(issued) + 1
      /\ \A i \in 1..Len(issued) : issued'[i] = issued[i]
      /\ issued'[Len(issued) + 1] = n.ent
    BY <1>0, <1>2
<1>15. import.runs = 0 => n.origin = "full"
    <2>1. n.origin \in {"full", "none"}
        BY <1>2 DEF NodeType, Dims
    <2>2. n.origin = "none" => import.phase = "nodes"
        BY <1>0 DEF Awaited, NodesLeft
    <2>3. import.runs = 0 => import.phase = "idle"
        BY DEF CatalogInv, FullInv
    <2> QED
        BY <2>1, <2>2, <2>3
<1>16. PendingInv'
    BY <1>0 DEF PendingInv
<1>3. /\ ns \in Seq(NodeType) /\ Len(ns) = Len(delta.nodes) + 1
      /\ \A i \in 1..Len(delta.nodes) : ns[i] = delta.nodes[i]
      /\ ns[Len(delta.nodes) + 1] = n
      /\ \A y : y \in Items(ns) <=> y \in Items(delta.nodes) \/ y = n
    BY <1>1, InvTypes, PushItems
<1> HIDE DEF ns
<1>4. delta'.nodes = ns /\ delta'.edges = delta.edges
    BY <1>1
<1>5. Len(delta.nodes) \in Nat /\ Len(graph.nodes) \in Nat /\ Len(drained.nodes) \in Nat
        /\ delta.edges \in Seq(EdgeType)
    BY InvTypes
<1>6. \A i \in 1..Len(ns) : i \in 1..Len(delta.nodes) \/ i = Len(delta.nodes) + 1
    BY <1>3, <1>5
<1>7. /\ graph' = graph /\ vectors' = vectors /\ merging' = merging /\ drained' = drained
      /\ failed' = failed /\ read' = read /\ file' = file
    BY DEF Frame, indexVars, mergeVars
<1>8. StoreInv'
    <2>1. delta' \in GraphType
        BY <1>1, <1>3, <1>5 DEF GraphType
    <2>2. drained' \in GraphType
        BY <1>7 DEF CatalogInv, StoreInv
    <2> QED
        BY <1>1, <1>2, <2>1, <2>2 DEF StoreInv
<1>9. ShapeInv'
    BY <1>7 DEF CatalogInv, ShapeInv
<1>10. ASSUME NEW id, NEW x, Leads(id, x)
       PROVE  id + 1 \in 1..Len(issued') /\ issued'[id + 1] = x
    BY <1>1, <1>10 DEF Leads
<1>11. NameInv'
    <2>0. /\ \A i \in 1..Len(graph.nodes) : Leads(graph.nodes[i].id, graph.nodes[i].ent)
          /\ \A i \in 1..Len(drained.nodes) : Leads(drained.nodes[i].id, drained.nodes[i].ent)
          /\ \A i \in 1..Len(delta.nodes) : Leads(delta.nodes[i].id, delta.nodes[i].ent)
        BY DEF CatalogInv, NameInv, NamesNodes
    <2>1. NamesNodes(graph.nodes)' /\ NamesNodes(drained.nodes)'
        <3>1. \A i \in 1..Len(graph.nodes) :
                 /\ graph.nodes[i].id + 1 \in 1..Len(issued')
                 /\ issued'[graph.nodes[i].id + 1] = graph.nodes[i].ent
            BY <1>10, <2>0
        <3>2. \A i \in 1..Len(drained.nodes) :
                 /\ drained.nodes[i].id + 1 \in 1..Len(issued')
                 /\ issued'[drained.nodes[i].id + 1] = drained.nodes[i].ent
            BY <1>10, <2>0
        <3> QED
            BY <1>7, <3>1, <3>2 DEF NamesNodes, Leads
    <2>2. NamesNodes(delta.nodes)'
        <3>1. ASSUME NEW i \in 1..Len(ns)
              PROVE  ns[i].id + 1 \in 1..Len(issued') /\ issued'[ns[i].id + 1] = ns[i].ent
            <4>1. CASE i \in 1..Len(delta.nodes)
                <5>1. Leads(delta.nodes[i].id, delta.nodes[i].ent) /\ ns[i] = delta.nodes[i]
                    BY <1>3, <2>0, <4>1
                <5> QED
                    BY <1>10, <5>1
            <4>2. CASE i = Len(delta.nodes) + 1
                <5>1. ns[i] = n
                    BY ONLY <1>3, <4>2
                <5>2. Len(issued) + 1 \in 1..Len(issued')
                    BY <1>1
                <5> QED
                    BY ONLY <1>1, <1>2, <5>1, <5>2
            <4> QED
                BY <1>6, <4>1, <4>2
        <3> QED
            BY <1>4, <3>1 DEF NamesNodes, Leads
    <2>3. NamesEnds(AllEdges(graph))' /\ NamesEnds(drained.edges)'
        <3>1. /\ \A e \in Items(AllEdges(graph)) : Leads(e.from, e.src) /\ Leads(e.to, e.dst)
              /\ \A e \in Items(drained.edges) : Leads(e.from, e.src) /\ Leads(e.to, e.dst)
            BY DEF CatalogInv, NameInv, NamesEnds
        <3>2. \A e \in Items(AllEdges(graph)) :
                 /\ e.from + 1 \in 1..Len(issued') /\ issued'[e.from + 1] = e.src
                 /\ e.to + 1 \in 1..Len(issued') /\ issued'[e.to + 1] = e.dst
            BY ONLY <1>10, <3>1
        <3>3. \A e \in Items(drained.edges) :
                 /\ e.from + 1 \in 1..Len(issued') /\ issued'[e.from + 1] = e.src
                 /\ e.to + 1 \in 1..Len(issued') /\ issued'[e.to + 1] = e.dst
            BY ONLY <1>10, <3>1
        <3> QED
            BY <1>7, <3>2, <3>3 DEF NamesEnds, Leads
    <2>4. NamesEnds(delta.edges)'
        BY <1>1, <1>4 DEF CatalogInv, NameInv, NamesEnds, Leads
    <2>5. \A i \in 1..Len(import'.ids) : Leads(import.ids[i][2], import.ids[i][1])'
        <3>1. ASSUME NEW i \in 1..Len(import'.ids)
              PROVE  /\ import'.ids[i][2] + 1 \in 1..Len(issued')
                     /\ issued'[import'.ids[i][2] + 1] = import'.ids[i][1]
            <4>1. CASE i \in 1..Len(import.ids) /\ import'.ids[i] = import.ids[i]
                BY <1>1, <4>1 DEF CatalogInv, NameInv, Leads
            <4>2. CASE import'.ids[i] = <<n.ent, n.id>>
                <5>1. import'.ids[i][1] = n.ent /\ import'.ids[i][2] = n.id
                    BY <4>2
                <5>2. Len(issued) + 1 \in 1..Len(issued')
                    BY <1>1
                <5> QED
                    BY <1>1, <1>2, <5>1, <5>2
            <4> QED
                BY <4>1, <4>2
        <3> QED
            BY <3>1 DEF Leads
    <2> QED
        BY <2>1, <2>2, <2>3, <2>4, <2>5 DEF NameInv
<1>12. PlaceInv'
    <2>1. \A i \in 1..Len(delta.nodes) : delta.nodes[i].id + 1 \in 1..Len(issued)
                                         /\ delta.nodes[i].id \in Nat
        <3>1. \A i \in 1..Len(delta.nodes) : delta.nodes[i] \in NodeType
            BY InvTypes
        <3> QED
            BY <3>1 DEF CatalogInv, NameInv, NamesNodes, Leads, NodeType
    <2>2. ASSUME NEW i \in 1..Len(ns), NEW j \in 1..Len(ns), ns[i].id = ns[j].id PROVE i = j
        <3>1. CASE i \in 1..Len(delta.nodes) /\ j \in 1..Len(delta.nodes)
            BY <1>3, <2>2, <3>1 DEF CatalogInv, PlaceInv
        <3>2. ASSUME NEW k \in 1..Len(delta.nodes) PROVE ns[k].id # ns[Len(delta.nodes) + 1].id
            <4>1. ns[k].id = delta.nodes[k].id /\ ns[Len(delta.nodes) + 1].id = Len(issued)
                BY <1>2, <1>3
            <4>2. delta.nodes[k].id + 1 \in 1..Len(issued) /\ delta.nodes[k].id \in Nat
                BY <2>1
            <4>3. \A x, l \in Nat : x + 1 \in 1..l => x # l
                OBVIOUS
            <4>4. Len(issued) \in Nat
                BY <1>1
            <4>5. delta.nodes[k].id # Len(issued)
                BY ONLY <4>2, <4>3, <4>4
            <4> QED
                BY ONLY <4>1, <4>5
        <3>3. CASE i = Len(delta.nodes) + 1 \/ j = Len(delta.nodes) + 1
            BY <1>6, <2>2, <3>2, <3>3
        <3> QED
            BY <1>6, <3>1, <3>3
    <2>3. ASSUME NEW i \in 1..Len(ns) PROVE ns[i].id >= Len(graph.nodes)
        <3>1. CASE i \in 1..Len(delta.nodes)
            BY <1>3, <3>1 DEF CatalogInv, PlaceInv
        <3>2. CASE i = Len(delta.nodes) + 1
            BY <1>2, <1>3, <3>2 DEF CatalogInv, PlaceInv
        <3> QED
            BY <1>6, <3>1, <3>2
    <2>4. ASSUME ~ failed
          PROVE  /\ Len(graph.nodes) + Len(drained.nodes) + Len(ns) = Len(issued')
                 /\ Numbered(ns, Len(graph.nodes) + Len(drained.nodes))
        <3>1. /\ Len(graph.nodes) + Len(drained.nodes) + Len(delta.nodes) = Len(issued)
              /\ Numbered(delta.nodes, Len(graph.nodes) + Len(drained.nodes))
            BY <2>4 DEF CatalogInv, PlaceInv
        <3>2. PICK a, b, d \in Nat :
                  a = Len(graph.nodes) /\ b = Len(drained.nodes) /\ d = Len(delta.nodes)
            BY <1>5
        <3>3. a + b + d = Len(issued)
            BY <3>1, <3>2
        <3>4. a + b + Len(ns) = Len(issued')
            <4>1. Len(ns) = d + 1 /\ Len(issued') = Len(issued) + 1
                BY <1>1, <1>3, <3>2
            <4> QED
                BY ONLY <3>3, <4>1
        <3>5. ASSUME NEW i \in 1..Len(ns) PROVE ns[i].id = (a + b + i) - 1
            <4>1. CASE i \in 1..Len(delta.nodes)
                BY <1>3, <3>1, <3>2, <4>1 DEF Numbered
            <4>2. CASE i = Len(delta.nodes) + 1
                <5>1. ns[i].id = Len(issued) /\ i = d + 1
                    BY <1>2, <1>3, <3>2, <4>2
                <5> QED
                    BY ONLY <3>3, <5>1
            <4> QED
                BY <1>6, <4>1, <4>2
        <3> QED
            BY <3>2, <3>4, <3>5 DEF Numbered
    <2>5. Len(graph.nodes) <= Len(issued')
        BY <1>1, <1>5 DEF CatalogInv, PlaceInv
    <2> QED
        BY <1>4, <1>7, <2>2, <2>3, <2>4, <2>5 DEF CatalogInv, PlaceInv, Numbered, EndsInRange
<1>13. ReadInv'
    BY <1>7 DEF CatalogInv, ReadInv, Extends
<1>14. FullInv'
    <2>1. ASSUME import.runs = 0 PROVE \A x \in Items(ns) : x.origin = "full"
        BY <1>3, <1>15, <2>1 DEF CatalogInv, FullInv, AllFull
    <2> QED
        BY <1>4, <1>7, <2>1 DEF CatalogInv, FullInv, AllFull
<1> QED
    BY <1>8, <1>9, <1>11, <1>12, <1>13, <1>14, <1>16 DEF CatalogInv

LEMMA EdgeStep ==
    ASSUME CatalogInv, NEW e \in EdgeType, AddEdge(e), Frame,
           Leads(e.from, e.src), Leads(e.to, e.dst),
           import.runs = 0 => e.origin.dim = "full",
           nextNodeId' = nextNodeId, pending' = pending, issued' = issued,
           import' = import \/ ~ NodesLeft,
           import' \in ImportType, import'.runs = import.runs, import'.phase = import.phase,
           import'.ids = import.ids
    PROVE  CatalogInv'
<1> DEFINE es == delta.edges \o <<e>>
<1>1. /\ delta.edges \in Seq(EdgeType) /\ delta.nodes \in Seq(NodeType)
      /\ delta = [nodes |-> delta.nodes, edges |-> delta.edges]
    BY InvTypes
<1>2. es \in Seq(EdgeType) /\ \A y : y \in Items(es) <=> y \in Items(delta.edges) \/ y = e
    BY <1>1, PushItems
<1>3. delta' = [nodes |-> delta.nodes, edges |-> es]
    <2>1. delta' = [delta EXCEPT !.edges = @ \o <<e>>]
        BY DEF AddEdge, PushEdges
    <2> QED
        BY <1>1, <2>1
<1>4. wal' \in GraphType /\ walTorn' = FALSE
    <2>1. wal \in GraphType /\ walTorn = FALSE
        BY DEF CatalogInv, StoreInv
    <2>2. wal.nodes \in Seq(NodeType) /\ wal.edges \in Seq(EdgeType)
            /\ wal = [nodes |-> wal.nodes, edges |-> wal.edges]
        BY <2>1 DEF GraphType
    <2>3. wal.edges \o <<e>> \in Seq(EdgeType)
        BY <2>2, PushItems
    <2>4. wal' = [wal EXCEPT !.edges = @ \o <<e>>] /\ walTorn' = FALSE
        BY <2>1 DEF AddEdge, AppendEdges, Readable
    <2>5. wal' = [nodes |-> wal.nodes, edges |-> wal.edges \o <<e>>]
        BY <2>2, <2>4
    <2> QED
        BY <2>2, <2>3, <2>4, <2>5 DEF GraphType
<1> HIDE DEF es
<1>5. delta'.nodes = delta.nodes /\ delta'.edges = es
    BY <1>3
<1>6. /\ graph' = graph /\ vectors' = vectors /\ merging' = merging /\ drained' = drained
      /\ failed' = failed /\ read' = read /\ file' = file
    BY DEF Frame, indexVars, mergeVars
<1>7. StoreInv'
    <2>1. delta' \in GraphType
        BY <1>1, <1>2, <1>3 DEF GraphType
    <2> QED
        BY <1>4, <1>6, <2>1 DEF CatalogInv, StoreInv
<1>8. ShapeInv'
    BY <1>6 DEF CatalogInv, ShapeInv
<1>9. NameInv'
    <2>1. \A y \in Items(es) : Leads(y.from, y.src) /\ Leads(y.to, y.dst)
        BY <1>2 DEF CatalogInv, NameInv, NamesEnds
    <2>2. NamesEnds(delta.edges)'
        BY <1>5, <2>1 DEF NamesEnds, Leads
    <2>3. NamesNodes(graph.nodes)' /\ NamesNodes(drained.nodes)' /\ NamesNodes(delta.nodes)'
        BY <1>5, <1>6 DEF CatalogInv, NameInv, NamesNodes, Leads
    <2>4. NamesEnds(AllEdges(graph))' /\ NamesEnds(drained.edges)'
        BY <1>6 DEF CatalogInv, NameInv, NamesEnds, Leads
    <2>5. \A i \in 1..Len(import'.ids) : Leads(import.ids[i][2], import.ids[i][1])'
        BY DEF CatalogInv, NameInv, Leads
    <2> QED
        BY <2>2, <2>3, <2>4, <2>5 DEF NameInv
<1>10. PlaceInv'
    BY <1>5, <1>6 DEF CatalogInv, PlaceInv, Numbered, EndsInRange
<1>11. ReadInv'
    BY <1>6 DEF CatalogInv, ReadInv, Extends
<1>12. FullInv'
    <2>1. ASSUME import.runs = 0 PROVE \A y \in Items(es) : y.origin.dim = "full"
        BY <1>2, <2>1 DEF CatalogInv, FullInv, AllFull
    <2> QED
        BY <1>5, <1>6, <2>1 DEF CatalogInv, FullInv, AllFull
<1>13. PendingInv'
    BY PendingKept
<1> QED
    BY <1>7, <1>8, <1>9, <1>10, <1>11, <1>12, <1>13 DEF CatalogInv

\* Steps that touch no node and no edge.
LEMMA StoreKept ==
    ASSUME CatalogInv, UNCHANGED <<delta, wal, walTorn, issued, indexVars, mergeVars>>,
           import' \in ImportType,
           \A i \in 1..Len(import'.ids) : Leads(import'.ids[i][2], import'.ids[i][1])
    PROVE  StoreInv' /\ NameInv' /\ PlaceInv'
<1>1. /\ delta' = delta /\ wal' = wal /\ walTorn' = walTorn
      /\ issued' = issued /\ graph' = graph /\ vectors' = vectors /\ merging' = merging
      /\ drained' = drained /\ failed' = failed
    BY DEF indexVars, mergeVars
<1>2. StoreInv'
    BY <1>1 DEF CatalogInv, StoreInv
<1>3. NameInv'
    <2>1. NamesNodes(graph.nodes)' /\ NamesNodes(drained.nodes)' /\ NamesNodes(delta.nodes)'
        BY <1>1 DEF CatalogInv, NameInv, NamesNodes, Leads
    <2>2. NamesEnds(AllEdges(graph))' /\ NamesEnds(drained.edges)' /\ NamesEnds(delta.edges)'
        BY <1>1 DEF CatalogInv, NameInv, NamesEnds, Leads
    <2>3. \A i \in 1..Len(import'.ids) : Leads(import.ids[i][2], import.ids[i][1])'
        BY <1>1 DEF Leads
    <2> QED
        BY <2>1, <2>2, <2>3 DEF NameInv
<1>4. PlaceInv'
    BY <1>1 DEF CatalogInv, PlaceInv, Numbered, EndsInRange
<1> QED
    BY <1>2, <1>3, <1>4

\* An ID is handed out when nothing waits.
LEMMA AllocateStep ==
    ASSUME OneAtATime, CatalogInv, NEW name \in Names, NEW dim \in Dims, Allocate(name, dim),
           Frame, import' = import,
           dim = "none" =>
              NodesLeft /\ name = NextName /\ NameToId(import.ids, name) = {}
    PROVE  CatalogInv'
<1>0. PICK n : n = [id |-> nextNodeId, ent |-> name, origin |-> dim]
    OBVIOUS
<1>1. /\ Cardinality(pending) < MaxPending
      /\ nextNodeId' = nextNodeId + 1 /\ pending' = pending \cup {n}
      /\ UNCHANGED <<delta, wal, walTorn, issued>>
    BY <1>0 DEF Allocate, AllocNodeId
<1>2. pending = {} /\ nextNodeId = Len(issued)
    <2>1. ASSUME NEW m, pending = {m} PROVE FALSE
        <3>1. Cardinality(pending) = 1
            BY <2>1, FS_Singleton
        <3> QED
            BY <1>1, <3>1 DEF OneAtATime
    <2> QED
        BY <2>1 DEF CatalogInv, PendingInv
<1>3. issued \in Seq(Names) /\ Len(issued) \in Nat
    BY DEF CatalogInv, StoreInv
<1>4. n \in NodeType /\ n.id = Len(issued) /\ n.ent = name /\ n.origin = dim
    BY <1>0, <1>2, <1>3 DEF NodeType
<1>5. pending' = {n} /\ nextNodeId' = Len(issued) + 1
    BY <1>1, <1>2
<1>6. PendingInv'
    <2>1. Awaited(n)'
        BY <1>1, <1>4 DEF Awaited, NodesLeft, NextName
    <2> QED
        BY <1>1, <1>5, <2>1 DEF PendingInv
<1>7. /\ delta' = delta /\ graph' = graph /\ vectors' = vectors /\ merging' = merging
      /\ drained' = drained /\ failed' = failed /\ read' = read /\ file' = file
      /\ UNCHANGED <<delta, wal, walTorn, issued, indexVars, mergeVars>>
    BY <1>1 DEF Frame, indexVars, mergeVars
<1>8. import' \in ImportType
        /\ \A i \in 1..Len(import'.ids) : Leads(import'.ids[i][2], import'.ids[i][1])
    BY DEF CatalogInv, ShapeInv, NameInv
<1>9. StoreInv' /\ NameInv' /\ PlaceInv'
    BY <1>7, <1>8, StoreKept
<1>10. ShapeInv' /\ ReadInv' /\ FullInv'
    BY <1>7 DEF CatalogInv, ShapeInv, ReadInv, Extends, FullInv, AllFull
<1> QED
    BY <1>6, <1>9, <1>10 DEF CatalogInv

(***************************************************************************)
(* The steps of a merge.                                                   *)
(***************************************************************************)

\* Where drained nodes have the IDs that merge_into gives them, it changes nothing.
LEMMA RemapIsIdentity ==
    ASSUME NEW N \in Nat, NEW ns \in Seq(NodeType), Numbered(ns, N)
    PROVE  \A id \in Nat : RemapId(N, ns, id) = id
<1> SUFFICES ASSUME NEW id \in Nat PROVE RemapId(N, ns, id) = id
    OBVIOUS
<1> DEFINE hits == {i \in DOMAIN ns : ns[i].id = id}
<1>1. DOMAIN ns = 1..Len(ns) /\ Len(ns) \in Nat
    OBVIOUS
<1>2. CASE hits = {}
    BY <1>2 DEF RemapId
<1>3. CASE hits # {}
    <2>1. \A i \in hits : (N + i) - 1 = id /\ i \in 1..Len(ns)
        BY <1>1 DEF Numbered
    <2>2. hits \subseteq 1..Len(ns)
        BY <1>1
    <2>3. Last(hits) \in hits
        <3> HIDE DEF hits
        <3> QED
            BY <1>1, <1>3, <2>2, LastProperties
    <2>4. (N + Last(hits)) - 1 = id
        BY <2>1, <2>3
    <2> QED
        BY <1>3, <2>4 DEF RemapId
<1> QED
    BY <1>2, <1>3

LEMMA MergeAppends ==
    ASSUME NEW base \in Seq(NodeType), NEW d \in GraphType, Numbered(d.nodes, Len(base))
    PROVE  /\ MergedNodes(base, d.nodes) = base \o d.nodes
           /\ RemappedEdges(Len(base), d) = d.edges
<1>1. d.nodes \in Seq(NodeType) /\ d.edges \in Seq(EdgeType) /\ Len(base) \in Nat
    BY DEF GraphType
<1>2. /\ DOMAIN d.nodes = 1..Len(d.nodes) /\ DOMAIN d.edges = 1..Len(d.edges)
      /\ \A i \in 1..Len(d.nodes) : d.nodes[i] \in NodeType
      /\ \A j \in 1..Len(d.edges) : d.edges[j] \in EdgeType
    BY <1>1
<1>3. MergedNodes(base, d.nodes) = base \o d.nodes
    <2> DEFINE ns == d.nodes
               new == [i \in DOMAIN ns |-> [id |-> (Len(base) + i) - 1, ent |-> ns[i].ent,
                                            origin |-> ns[i].origin]]
    <2>1. ASSUME NEW i \in 1..Len(ns)
          PROVE  [id |-> (Len(base) + i) - 1, ent |-> ns[i].ent, origin |-> ns[i].origin] = ns[i]
        <3>1. ns[i] \in NodeType /\ ns[i].id = (Len(base) + i) - 1
            BY <1>2 DEF Numbered
        <3>2. ns[i] = [id |-> ns[i].id, ent |-> ns[i].ent, origin |-> ns[i].origin]
            BY <3>1 DEF NodeType
        <3> QED
            BY <3>1, <3>2
    <2>2. new = [i \in DOMAIN ns |-> ns[i]]
        BY <1>2, <2>1
    <2>3. ns = [i \in DOMAIN ns |-> ns[i]]
        BY <1>1
    <2>4. new = ns
        BY <2>2, <2>3
    <2> QED
        BY <2>4 DEF MergedNodes
<1>4. RemappedEdges(Len(base), d) = d.edges
    <2> DEFINE es == d.edges
               R(id) == RemapId(Len(base), d.nodes, id)
    <2>1. \A id \in Nat : R(id) = id
        BY <1>1, RemapIsIdentity
    <2> HIDE DEF R
    <2>2. ASSUME NEW j \in 1..Len(es)
          PROVE  [from |-> R(es[j].from), to |-> R(es[j].to), src |-> es[j].src,
                  dst |-> es[j].dst, origin |-> es[j].origin] = es[j]
        <3>1. es[j] \in EdgeType
            BY <1>2
        <3>2. es[j] = [from |-> es[j].from, to |-> es[j].to, src |-> es[j].src,
                       dst |-> es[j].dst, origin |-> es[j].origin]
                /\ es[j].from \in Nat /\ es[j].to \in Nat
            BY <3>1 DEF EdgeType
        <3> QED
            BY <2>1, <3>2
    <2>3. RemappedEdges(Len(base), d) = [j \in DOMAIN es |->
              [from |-> R(es[j].from), to |-> R(es[j].to), src |-> es[j].src,
               dst |-> es[j].dst, origin |-> es[j].origin]]
        BY DEF RemappedEdges, R
    <2>4. RemappedEdges(Len(base), d) = [j \in DOMAIN es |-> es[j]]
        BY <1>2, <2>2, <2>3
    <2>5. es = [j \in DOMAIN es |-> es[j]]
        BY <1>1
    <2> QED
        BY <2>4, <2>5
<1> QED
    BY <1>3, <1>4

LEMMA DrainStep ==
    ASSUME CatalogInv, Drain
    PROVE  CatalogInv'
<1>1. /\ ~ merging /\ merging' = TRUE /\ drained' = delta /\ delta' = Empty
      /\ read' = [read EXCEPT !.quiet = FALSE]
      /\ wal' = wal /\ walTorn' = walTorn /\ nextNodeId' = nextNodeId /\ pending' = pending
      /\ issued' = issued /\ graph' = graph /\ vectors' = vectors /\ failed' = failed
      /\ file' = file /\ import' = import
    BY DEF Drain, DrainDelta, indexVars
<1>2. drained = Empty
    BY <1>1 DEF CatalogInv, PlaceInv
<1>3. read' = [active |-> read.active, graph |-> read.graph, quiet |-> FALSE]
    <2>1. read = [active |-> read.active, graph |-> read.graph, quiet |-> read.quiet]
        BY DEF CatalogInv, ShapeInv
    <2> QED
        BY <1>1, <2>1
<1>4. read'.active = read.active /\ read'.graph = read.graph /\ read'.quiet = FALSE
    BY <1>3
<1>5. StoreInv'
    BY <1>1, EmptyType DEF CatalogInv, StoreInv
<1>6. ShapeInv'
    <2>1. IsGraph(read.graph) /\ read.active \in BOOLEAN /\ IsGraph(graph) /\ vectors \in VectorsType
            /\ failed \in BOOLEAN /\ file \in FileType /\ import \in ImportType
        BY DEF CatalogInv, ShapeInv
    <2> QED
        BY <1>1, <1>3, <1>4, <2>1 DEF ShapeInv
<1>7. NameInv'
    <2>1. NamesNodes(graph.nodes)' /\ NamesNodes(drained.nodes)' /\ NamesNodes(delta.nodes)'
        BY <1>1, EmptyType DEF CatalogInv, NameInv, NamesNodes, Leads
    <2>2. NamesEnds(AllEdges(graph))' /\ NamesEnds(drained.edges)' /\ NamesEnds(delta.edges)'
        BY <1>1, EmptyType DEF CatalogInv, NameInv, NamesEnds, Leads
    <2>3. \A i \in 1..Len(import'.ids) : Leads(import.ids[i][2], import.ids[i][1])'
        BY <1>1 DEF CatalogInv, NameInv, Leads
    <2> QED
        BY <2>1, <2>2, <2>3 DEF NameInv
<1>8. PlaceInv'
    <2>1. /\ failed <=> vectors.short # {}
          /\ Len(graph.nodes) <= Len(issued)
        BY DEF CatalogInv, PlaceInv
    <2>2. ASSUME ~ failed
          PROVE  /\ Len(graph.nodes) + Len(delta.nodes) + Len(Empty.nodes) = Len(issued)
                 /\ Numbered(delta.nodes, Len(graph.nodes))
                 /\ EndsInRange(delta.edges, Len(graph.nodes) + Len(delta.nodes))
        <3>1. /\ Len(graph.nodes) + Len(Empty.nodes) + Len(delta.nodes) = Len(issued)
              /\ Numbered(delta.nodes, Len(graph.nodes) + Len(Empty.nodes))
            BY <1>2, <2>2 DEF CatalogInv, PlaceInv
        <3>2. Len(Empty.nodes) = 0 /\ Len(graph.nodes) \in Nat /\ Len(delta.nodes) \in Nat
            BY EmptyType, InvTypes
        <3>3. Len(graph.nodes) + 0 = Len(graph.nodes)
            BY <3>2
        <3>4. Len(graph.nodes) + Len(delta.nodes) = Len(issued)
            BY <3>1, <3>2, <3>3
        <3>5. Len(graph.nodes) + Len(delta.nodes) + Len(Empty.nodes) = Len(issued)
            <4>1. Len(issued) + 0 = Len(issued)
                BY DEF CatalogInv, StoreInv
            <4>2. Len(graph.nodes) + Len(delta.nodes) + Len(Empty.nodes) = Len(issued) + 0
                BY <3>2, <3>4, Zenon
            <4> QED
                BY <4>1, <4>2, Zenon
        <3>6. ASSUME NEW k \in DOMAIN delta.edges
              PROVE  /\ delta.edges[k].from < Len(graph.nodes) + Len(delta.nodes)
                     /\ delta.edges[k].to < Len(graph.nodes) + Len(delta.nodes)
            <4>1. delta.edges[k] \in EdgeType /\ delta.edges[k] \in Items(delta.edges)
                BY InvTypes DEF Items
            <4>2. /\ delta.edges[k].from \in Nat /\ delta.edges[k].from + 1 \in 1..Len(issued)
                  /\ delta.edges[k].to \in Nat /\ delta.edges[k].to + 1 \in 1..Len(issued)
                BY <4>1 DEF CatalogInv, NameInv, NamesEnds, Leads, EdgeType
            <4>3. Len(issued) \in Nat
                BY DEF CatalogInv, StoreInv
            <4>4. \A x, l \in Nat : x + 1 \in 1..l => x < l
                OBVIOUS
            <4>5. delta.edges[k].from < Len(issued) /\ delta.edges[k].to < Len(issued)
                BY ONLY <4>2, <4>3, <4>4
            <4> QED
                BY <3>4, <4>5
        <3> QED
            BY <3>1, <3>2, <3>3, <3>5, <3>6 DEF EndsInRange
    <2>3. \A i \in 1..Len(delta'.nodes) : FALSE
        BY <1>1, EmptyType
    <2> QED
        BY <1>1, <2>1, <2>2, <2>3 DEF PlaceInv, Numbered, EndsInRange
<1>9. ReadInv'
    BY <1>1, <1>4 DEF CatalogInv, ReadInv, Extends
<1>10. FullInv'
    BY <1>1, EmptyType DEF CatalogInv, FullInv, AllFull
<1>11. PendingInv'
    BY <1>1, PendingKept
<1> QED
    BY <1>5, <1>6, <1>7, <1>8, <1>9, <1>10, <1>11 DEF CatalogInv

\* What a merge builds: the nodes and edges of the graph and what was drained.
LEMMA MergeBuilds ==
    ASSUME CatalogInv, ~ failed
    PROVE  LET ns == graph.nodes \o drained.nodes
               es == AllEdges(graph) \o drained.edges
           IN  /\ ns \in Seq(NodeType) /\ es \in Seq(EdgeType)
               /\ EndsInRange(es, Len(ns))
               /\ MergedGraph = Build(ns, es)
<1> DEFINE base == graph.nodes
           ns == base \o drained.nodes
           es == AllEdges(graph) \o drained.edges
           N == Len(base)
           D == Len(drained.nodes)
<1>1. /\ base \in Seq(NodeType) /\ N \in Nat
      /\ drained.nodes \in Seq(NodeType) /\ D \in Nat
      /\ AllEdges(graph) \in Seq(EdgeType) /\ drained.edges \in Seq(EdgeType)
      /\ \A i \in 1..N : base[i].id = i - 1
      /\ EndsInRange(AllEdges(graph), N)
    BY InvTypes
<1>2. drained \in GraphType
    BY DEF CatalogInv, StoreInv
<1>3. Numbered(drained.nodes, N) /\ EndsInRange(drained.edges, N + D)
    BY DEF CatalogInv, PlaceInv
<1>4. MergedNodes(base, drained.nodes) = ns /\ RemappedEdges(N, drained) = drained.edges
    BY <1>1, <1>2, <1>3, MergeAppends
<1>5. MergedGraph = Build(ns, es)
    BY <1>4 DEF MergedGraph, NumNodes
<1> HIDE DEF base
<1>6. /\ ns \in Seq(NodeType) /\ Len(ns) = N + D
      /\ \A i \in 1..N : ns[i] = base[i]
      /\ \A i \in 1..D : ns[N + i] = drained.nodes[i]
    BY <1>1, ConcatItems
<1>7. /\ es \in Seq(EdgeType) /\ Len(es) = Len(AllEdges(graph)) + Len(drained.edges)
      /\ \A k \in 1..Len(AllEdges(graph)) : es[k] = AllEdges(graph)[k]
      /\ \A k \in 1..Len(drained.edges) : es[Len(AllEdges(graph)) + k] = drained.edges[k]
      /\ \A e : e \in Items(es) <=> e \in Items(AllEdges(graph)) \/ e \in Items(drained.edges)
    BY <1>1, ConcatItems
<1> HIDE DEF ns, es
<1>8. EndsInRange(es, Len(ns))
    <2>1. ASSUME NEW e \in Items(es) PROVE e.from < N + D /\ e.to < N + D
        <3>1. CASE e \in Items(AllEdges(graph))
            <4>1. PICK k \in DOMAIN AllEdges(graph) : e = AllEdges(graph)[k]
                BY <3>1 DEF Items
            <4>2. e.from < N /\ e.to < N
                BY <1>1, <4>1 DEF EndsInRange
            <4>3. e \in EdgeType
                BY <1>1, <4>1
            <4>4. e.from \in Nat /\ e.to \in Nat
                BY <4>3 DEF EdgeType
            <4> HIDE DEF N, D
            <4> QED
                BY <1>1, <4>2, <4>4
        <3>2. CASE e \in Items(drained.edges)
            <4>1. PICK k \in DOMAIN drained.edges : e = drained.edges[k]
                BY <3>2 DEF Items
            <4> QED
                BY <1>3, <4>1 DEF EndsInRange
        <3> QED
            BY <1>7, <3>1, <3>2
    <2>2. ASSUME NEW k \in DOMAIN es PROVE es[k].from < N + D /\ es[k].to < N + D
        <3>1. es[k] \in Items(es)
            BY DEF Items
        <3> QED
            BY <2>1, <3>1
    <2> QED
        BY <1>6, <2>2 DEF EndsInRange
<1> QED
    BY <1>5, <1>6, <1>7, <1>8 DEF base, ns, es

\* What a merge swaps in.
LEMMA SwappedGraph ==
    ASSUME CatalogInv, ~ failed
    PROVE  /\ IsGraph(MergedGraph)
           /\ MergedGraph.nodes = graph.nodes \o drained.nodes
           /\ Len(MergedGraph.nodes) = Len(graph.nodes) + Len(drained.nodes)
           /\ \A i \in 1..Len(graph.nodes) : MergedGraph.nodes[i] = graph.nodes[i]
           /\ \A i \in 1..Len(drained.nodes) :
                 MergedGraph.nodes[Len(graph.nodes) + i] = drained.nodes[i]
           /\ \A e \in Items(AllEdges(MergedGraph)) :
                 e \in Items(AllEdges(graph)) \/ e \in Items(drained.edges)
<1> DEFINE base == graph.nodes
           ns == base \o drained.nodes
           es == AllEdges(graph) \o drained.edges
           N == Len(base)
           D == Len(drained.nodes)
<1>1. /\ base \in Seq(NodeType) /\ N \in Nat
      /\ drained.nodes \in Seq(NodeType) /\ D \in Nat
      /\ AllEdges(graph) \in Seq(EdgeType) /\ drained.edges \in Seq(EdgeType)
      /\ \A i \in 1..N : base[i].id = i - 1
    BY InvTypes
<1>2. Numbered(drained.nodes, N)
    BY DEF CatalogInv, PlaceInv
<1>3. /\ ns \in Seq(NodeType) /\ es \in Seq(EdgeType)
      /\ EndsInRange(es, Len(ns)) /\ MergedGraph = Build(ns, es)
    BY MergeBuilds
<1> HIDE DEF base
<1>4. /\ ns \in Seq(NodeType) /\ Len(ns) = N + D
      /\ \A i \in 1..N : ns[i] = base[i]
      /\ \A i \in 1..D : ns[N + i] = drained.nodes[i]
    BY <1>1, ConcatItems
<1>5. \A e : e \in Items(es) <=> e \in Items(AllEdges(graph)) \/ e \in Items(drained.edges)
    BY <1>1, ConcatItems
<1> HIDE DEF ns, es
<1>6. ASSUME NEW i \in 1..(N + D) PROVE ns[i].id = i - 1
    <2>1. CASE i \in 1..N
        BY <1>1, <1>4, <2>1
    <2>2. CASE i \notin 1..N
        <3> HIDE DEF N, D
        <3>1. i - N \in 1..D /\ N + (i - N) = i
            BY <1>1, <2>2
        <3>2. ns[i] = drained.nodes[i - N]
            BY <1>4, <3>1
        <3>3. drained.nodes[i - N].id = (N + (i - N)) - 1
            BY <1>2, <3>1 DEF Numbered, D
        <3> QED
            BY <3>1, <3>2, <3>3
    <2> QED
        BY <2>1, <2>2
<1>7. DOMAIN ns = 1..(N + D)
    BY <1>4
<1>8. IsGraph(MergedGraph)
    BY <1>3, <1>4, <1>6, <1>7 DEF IsGraph
<1>9. MergedGraph.nodes = ns
    BY <1>3, BuildFields
<1>10. \A e : e \in Items(AllEdges(MergedGraph)) => e \in Items(es)
    BY <1>3, BuiltItems
<1> QED
    BY <1>4, <1>5, <1>8, <1>9, <1>10 DEF base, ns

\* The lengths of the vectors that a merge writes.
LEMMA MergedDims ==
    ASSUME CatalogInv
    PROVE  /\ NodeDims \in Seq(Dims) /\ EdgeDims \in Seq(Dims)
           /\ \A x : x \in Items(NodeDims) =>
                 x \in Items(vectors.nodes) \/ \E n \in Items(drained.nodes) : x = n.origin
           /\ \A x : x \in Items(EdgeDims) =>
                 x \in Items(vectors.edges) \/ \E e \in Items(drained.edges) : x = e.origin.dim
<1> DEFINE D == Len(drained.nodes)
<1>0. /\ drained.nodes \in Seq(NodeType) /\ D \in Nat
      /\ drained.edges \in Seq(EdgeType)
    BY InvTypes
<1> DEFINE nd == [i \in DOMAIN drained.nodes |-> drained.nodes[i].origin]
           ed == [j \in DOMAIN drained.edges |-> drained.edges[j].origin.dim]
<1>1. vectors.nodes \in Seq(Dims) /\ vectors.edges \in Seq(Dims)
    BY DEF CatalogInv, ShapeInv, VectorsType
<1>2. /\ DOMAIN drained.nodes = 1..D /\ DOMAIN drained.edges = 1..Len(drained.edges)
      /\ \A i \in 1..D : drained.nodes[i] \in NodeType
      /\ \A j \in 1..Len(drained.edges) : drained.edges[j] \in EdgeType
      /\ Len(drained.edges) \in Nat
    BY <1>0
<1>3. nd \in [1..D -> Dims]
    BY <1>2 DEF NodeType
<1>4. ed \in [1..Len(drained.edges) -> Dims]
    BY <1>2 DEF EdgeType
<1>5. \A x \in Items(nd) : \E n \in Items(drained.nodes) : x = n.origin
    BY DEF Items
<1>6. \A x \in Items(ed) : \E e \in Items(drained.edges) : x = e.origin.dim
    BY DEF Items
<1>7. NodeDims = vectors.nodes \o nd /\ EdgeDims = vectors.edges \o ed
    BY DEF NodeDims, EdgeDims
<1> HIDE DEF nd, ed
<1>8. nd \in Seq(Dims) /\ ed \in Seq(Dims)
    BY <1>0, <1>2, <1>3, <1>4, DefinedSeq
<1>9. /\ vectors.nodes \o nd \in Seq(Dims)
      /\ \A x : x \in Items(vectors.nodes \o nd) <=> x \in Items(vectors.nodes) \/ x \in Items(nd)
    BY <1>1, <1>8, ConcatItems
<1>10. /\ vectors.edges \o ed \in Seq(Dims)
       /\ \A x : x \in Items(vectors.edges \o ed) <=> x \in Items(vectors.edges) \/ x \in Items(ed)
    BY <1>1, <1>8, ConcatItems
<1> QED
    BY <1>5, <1>6, <1>7, <1>9, <1>10

LEMMA MergeSwapsStep ==
    ASSUME CatalogInv, MergeSwaps
    PROVE  CatalogInv'
<1> DEFINE N == Len(graph.nodes)
           D == Len(drained.nodes)
<1>1. /\ merging /\ FilesOpen
      /\ graph' = MergedGraph
      /\ vectors' = [vectors EXCEPT !.nodes = NodeDims,
                                    !.edges = IF EdgeVectorsKept THEN @ ELSE EdgeDims]
      /\ wal' = Empty /\ walTorn' = FALSE /\ merging' = FALSE /\ drained' = Empty
      /\ delta' = delta /\ nextNodeId' = nextNodeId /\ pending' = pending /\ issued' = issued
      /\ failed' = failed /\ read' = read /\ file' = file /\ import' = import
    BY DEF MergeSwaps, AllWritten, NodesWritten, TruncateWal, EndMerge
<1>2. failed = FALSE
    BY <1>1 DEF FilesOpen, CatalogInv, PlaceInv, ShapeInv
<1>3. /\ IsGraph(MergedGraph)
      /\ Len(MergedGraph.nodes) = N + D
      /\ \A i \in 1..N : MergedGraph.nodes[i] = graph.nodes[i]
      /\ \A i \in 1..D : MergedGraph.nodes[N + i] = drained.nodes[i]
      /\ \A e \in Items(AllEdges(MergedGraph)) :
            e \in Items(AllEdges(graph)) \/ e \in Items(drained.edges)
    BY <1>2, SwappedGraph
<1>4. /\ graph.nodes \in Seq(NodeType) /\ N \in Nat
      /\ drained.nodes \in Seq(NodeType) /\ D \in Nat
      /\ drained.edges \in Seq(EdgeType)
      /\ Len(delta.nodes) \in Nat
    BY InvTypes
<1>5. StoreInv'
    BY <1>1, EmptyType DEF CatalogInv, StoreInv
<1>6. /\ NodeDims \in Seq(Dims) /\ EdgeDims \in Seq(Dims)
      /\ \A x : x \in Items(NodeDims) =>
            x \in Items(vectors.nodes) \/ \E n \in Items(drained.nodes) : x = n.origin
      /\ \A x : x \in Items(EdgeDims) =>
            x \in Items(vectors.edges) \/ \E e \in Items(drained.edges) : x = e.origin.dim
    BY MergedDims
<1>7. /\ vectors' \in VectorsType /\ vectors'.short = vectors.short
      /\ vectors'.nodes = NodeDims
      /\ vectors'.edges = vectors.edges \/ vectors'.edges = EdgeDims
    <2>1. vectors \in VectorsType
        BY DEF CatalogInv, ShapeInv
    <2>2. CASE EdgeVectorsKept
        <3>1. vectors' = [nodes |-> NodeDims, edges |-> vectors.edges, short |-> vectors.short]
            BY <1>1, <2>1, <2>2 DEF VectorsType
        <3> QED
            BY <1>6, <2>1, <3>1 DEF VectorsType
    <2>3. CASE ~ EdgeVectorsKept
        <3>1. vectors' = [nodes |-> NodeDims, edges |-> EdgeDims, short |-> vectors.short]
            BY <1>1, <2>1, <2>3 DEF VectorsType
        <3> QED
            BY <1>6, <2>1, <3>1 DEF VectorsType
    <2> QED
        BY <2>2, <2>3
<1>8. ShapeInv'
    <2>1. IsGraph(graph')
        BY <1>1, <1>3
    <2> QED
        BY <1>1, <1>7, <2>1 DEF CatalogInv, ShapeInv
<1>9. NameInv'
    <2> DEFINE G == MergedGraph
    <2> HIDE DEF G
    <2>1. ASSUME NEW i \in 1..(N + D) PROVE Leads(G.nodes[i].id, G.nodes[i].ent)
        <3>1. CASE i \in 1..N
            BY <1>3, <3>1 DEF CatalogInv, NameInv, NamesNodes, G
        <3>2. CASE i \notin 1..N
            <4>1. i - N \in 1..D /\ N + (i - N) = i
                <5> HIDE DEF N, D
                <5> QED
                    BY <1>4, <3>2
            <4>2. G.nodes[i] = drained.nodes[i - N]
                BY <1>3, <4>1 DEF G
            <4>3. Leads(drained.nodes[i - N].id, drained.nodes[i - N].ent)
                BY <4>1 DEF CatalogInv, NameInv, NamesNodes
            <4> QED
                BY <4>2, <4>3
        <3> QED
            BY <3>1, <3>2
    <2>2. NamesNodes(graph.nodes)'
        <3>1. graph' = G /\ Len(G.nodes) = N + D
            BY <1>1, <1>3 DEF G
        <3>2. \A i \in 1..Len(G.nodes) : Leads(G.nodes[i].id, G.nodes[i].ent)
            BY <2>1, <3>1
        <3> QED
            BY <1>1, <3>1, <3>2 DEF NamesNodes, Leads
    <2>3. NamesNodes(drained.nodes)' /\ NamesNodes(delta.nodes)'
        BY <1>1, EmptyType DEF CatalogInv, NameInv, NamesNodes, Leads
    <2>4. NamesEnds(AllEdges(graph))'
        <3>1. \A e \in Items(AllEdges(G)) : Leads(e.from, e.src) /\ Leads(e.to, e.dst)
            BY <1>3 DEF CatalogInv, NameInv, NamesEnds, G
        <3>2. graph' = G
            BY <1>1 DEF G
        <3> QED
            BY <1>1, <3>1, <3>2 DEF NamesEnds, Leads
    <2>5. NamesEnds(drained.edges)' /\ NamesEnds(delta.edges)'
        BY <1>1, EmptyType DEF CatalogInv, NameInv, NamesEnds, Leads
    <2>6. \A i \in 1..Len(import'.ids) : Leads(import.ids[i][2], import.ids[i][1])'
        BY <1>1 DEF CatalogInv, NameInv, Leads
    <2> QED
        BY <2>2, <2>3, <2>4, <2>5, <2>6 DEF NameInv
<1>10. PlaceInv'
    <2>1. /\ N + D + Len(delta.nodes) = Len(issued)
          /\ Numbered(delta.nodes, N + D)
        BY <1>2 DEF CatalogInv, PlaceInv
    <2>2. Len(graph'.nodes) = N + D /\ Len(drained'.nodes) = 0 /\ DOMAIN drained'.edges = {}
            /\ N + D \in Nat /\ Len(issued) \in Nat
        <3>1. Len(graph'.nodes) = N + D
            BY <1>1, <1>3
        <3>2. drained'.nodes = <<>> /\ drained'.edges = <<>>
            BY <1>1, EmptyType
        <3>3. Len(drained'.nodes) = 0 /\ DOMAIN drained'.edges = {}
            BY ONLY <3>2
        <3>4. N + D \in Nat
            <4> HIDE DEF N, D
            <4> QED
                BY ONLY <1>4
        <3>5. Len(issued) \in Nat
            BY DEF CatalogInv, StoreInv
        <3> QED
            BY ONLY <3>1, <3>3, <3>4, <3>5
    <2>3. PICK m, d, l \in Nat : m = N + D /\ d = Len(delta.nodes) /\ l = Len(issued)
        BY <1>4, <2>2
    <2>4. m + d = l /\ Numbered(delta.nodes, m) /\ Len(graph'.nodes) = m
        BY <2>1, <2>2, <2>3
    <2>5. m <= Len(issued) /\ m + 0 + d = Len(issued) /\ m + 0 = m
        <3>1. m + d = l
            BY <2>4
        <3>2. m <= l /\ m + 0 + d = l /\ m + 0 = m
            BY ONLY <3>1, m \in Nat, d \in Nat, l \in Nat
        <3> QED
            BY <2>3, <3>2
    <2>6. ASSUME NEW i \in 1..Len(delta.nodes) PROVE delta.nodes[i].id >= m
        <3>1. delta.nodes[i].id = (m + i) - 1 /\ i \in 1..d
            BY <2>3, <2>4 DEF Numbered
        <3> QED
            BY ONLY <3>1, m \in Nat, d \in Nat
    <2>7. \A i, j \in 1..Len(delta.nodes) : delta.nodes[i].id = delta.nodes[j].id => i = j
        BY DEF CatalogInv, PlaceInv
    <2>8. failed' <=> vectors'.short # {}
        BY <1>1, <1>7 DEF CatalogInv, PlaceInv
    <2>9. /\ Len(graph'.nodes) + Len(drained'.nodes) + Len(delta'.nodes) = Len(issued')
          /\ Numbered(delta'.nodes, Len(graph'.nodes) + Len(drained'.nodes))
        BY <1>1, <2>2, <2>3, <2>4, <2>5
    <2>10. Numbered(drained'.nodes, Len(graph'.nodes))
              /\ EndsInRange(drained'.edges, Len(graph'.nodes) + Len(drained'.nodes))
        BY <2>2 DEF Numbered, EndsInRange
    <2> QED
        BY <1>1, <2>4, <2>5, <2>6, <2>7, <2>8, <2>9, <2>10 DEF PlaceInv
<1>11. ReadInv'
    <2>1. ASSUME read.active PROVE Extends(read.graph.nodes, graph'.nodes) /\ ~ read.quiet
        <3>1. Extends(read.graph.nodes, graph.nodes) /\ ~ read.quiet
            BY <1>1, <2>1 DEF CatalogInv, ReadInv
        <3>2. read.graph.nodes \in Seq(NodeType)
            BY GraphFacts DEF CatalogInv, ShapeInv
        <3>3. PICK l, n, d \in Nat : l = Len(read.graph.nodes) /\ n = N /\ d = D
            BY <1>4, <3>2
        <3>4. l <= n /\ Len(graph'.nodes) = n + d
            BY <1>1, <1>3, <3>1, <3>3 DEF Extends
        <3>5. l <= n + d /\ \A i \in 1..l : i \in 1..n
            BY ONLY <3>4, l \in Nat, n \in Nat, d \in Nat
        <3> QED
            BY <1>1, <1>3, <3>1, <3>3, <3>4, <3>5 DEF Extends
    <2>2. read.active => EndsTold(read.graph)
        BY DEF CatalogInv, ReadInv
    <2> QED
        BY <1>1, <2>1, <2>2 DEF ReadInv
<1>12. FullInv'
    <2>1. ASSUME import.runs = 0
          PROVE  Items(vectors'.nodes) \subseteq {"full"} /\ Items(vectors'.edges) \subseteq {"full"}
        <3>1. /\ AllFull(drained) /\ Items(vectors.nodes) \subseteq {"full"}
              /\ Items(vectors.edges) \subseteq {"full"}
            BY <2>1 DEF CatalogInv, FullInv
        <3>2. Items(NodeDims) \subseteq {"full"} /\ Items(EdgeDims) \subseteq {"full"}
            BY <1>6, <3>1 DEF AllFull
        <3> QED
            BY <1>7, <3>1, <3>2
    <2> QED
        BY <1>1, <2>1, EmptyType DEF CatalogInv, FullInv, AllFull
<1>13. PendingInv'
    BY <1>1, PendingKept
<1> QED
    BY <1>5, <1>8, <1>9, <1>10, <1>11, <1>12, <1>13 DEF CatalogInv


\* A set of lengths that are all "full" is of one length.
LEMMA FullIsOneLength ==
    ASSUME NEW s, Items(s) \subseteq {"full"}
    PROVE  OneLength(s)
<1>1. IsFiniteSet({"full"}) /\ Cardinality({"full"}) = 1
    BY FS_Singleton
<1>2. Cardinality(Items(s)) <= Cardinality({"full"})
    BY <1>1, FS_Subset
<1> QED
    BY <1>1, <1>2 DEF OneLength

\* Only what was imported makes a merge die.
LEMMA DyingImported ==
    ASSUME CatalogInv, ~ AllWritten
    PROVE  import.runs # 0
<1> SUFFICES ASSUME import.runs = 0 PROVE FALSE
    OBVIOUS
<1>1. /\ ~ failed /\ AllFull(drained)
      /\ Items(vectors.nodes) \subseteq {"full"} /\ Items(vectors.edges) \subseteq {"full"}
    BY DEF CatalogInv, FullInv
<1>2. FilesOpen
    BY <1>1 DEF CatalogInv, PlaceInv, FilesOpen
<1>3. Items(NodeDims) \subseteq {"full"} /\ Items(EdgeDims) \subseteq {"full"}
    BY <1>1, MergedDims DEF AllFull
<1>4. OneLength(NodeDims) /\ OneLength(EdgeDims)
    BY <1>3, FullIsOneLength
<1> QED
    BY <1>2, <1>4 DEF AllWritten, NodesWritten

LEMMA MergeDiesStep ==
    ASSUME CatalogInv, MergeDies
    PROVE  CatalogInv'
<1>1. /\ ~ AllWritten /\ failed' = TRUE /\ merging' = FALSE /\ drained' = Empty
      /\ delta' = delta /\ wal' = wal /\ walTorn' = walTorn /\ nextNodeId' = nextNodeId
      /\ pending' = pending /\ issued' = issued /\ graph' = graph /\ read' = read
      /\ file' = file /\ import' = import
    BY DEF MergeDies, EndMerge, storeVars
<1>2. import.runs # 0
    BY <1>1, DyingImported
<1>3. vectors \in VectorsType
    BY DEF CatalogInv, ShapeInv
<1>4. vectors' \in VectorsType /\ vectors'.short # {}
    <2>1. CASE ~ FilesOpen
        <3>1. vectors' = vectors
            BY <2>1 DEF MergeDies
        <3> QED
            BY <1>3, <2>1, <3>1 DEF FilesOpen
    <2>2. CASE FilesOpen /\ ~ NodesWritten
        <3>1. vectors' = [vectors EXCEPT !.short = @ \cup {"nodes"}]
            BY <2>2 DEF MergeDies
        <3>2. vectors' = [nodes |-> vectors.nodes, edges |-> vectors.edges,
                          short |-> vectors.short \cup {"nodes"}]
            BY <1>3, <3>1 DEF VectorsType
        <3> QED
            BY <1>3, <3>2 DEF VectorsType
    <2>3. CASE NodesWritten
        <3>0. FilesOpen
            BY <2>3 DEF NodesWritten
        <3>1. vectors' = [vectors EXCEPT !.nodes = NodeDims, !.short = @ \cup {"edges"}]
            BY <2>3, <3>0 DEF MergeDies
        <3>2. vectors' = [nodes |-> NodeDims, edges |-> vectors.edges,
                          short |-> vectors.short \cup {"edges"}]
            BY <1>3, <3>1 DEF VectorsType
        <3>3. NodeDims \in Seq(Dims)
            BY MergedDims
        <3> QED
            BY <1>3, <3>2, <3>3 DEF VectorsType
    <2> QED
        BY <2>1, <2>2, <2>3
<1>5. StoreInv'
    BY <1>1, EmptyType DEF CatalogInv, StoreInv
<1>6. ShapeInv'
    BY <1>1, <1>4 DEF CatalogInv, ShapeInv
<1>7. NameInv'
    <2>1. NamesNodes(graph.nodes)' /\ NamesNodes(drained.nodes)' /\ NamesNodes(delta.nodes)'
        BY <1>1, EmptyType DEF CatalogInv, NameInv, NamesNodes, Leads
    <2>2. NamesEnds(AllEdges(graph))' /\ NamesEnds(drained.edges)' /\ NamesEnds(delta.edges)'
        BY <1>1, EmptyType DEF CatalogInv, NameInv, NamesEnds, Leads
    <2>3. \A i \in 1..Len(import'.ids) : Leads(import.ids[i][2], import.ids[i][1])'
        BY <1>1 DEF CatalogInv, NameInv, Leads
    <2> QED
        BY <2>1, <2>2, <2>3 DEF NameInv
<1>8. PlaceInv'
    BY <1>1, <1>4 DEF CatalogInv, PlaceInv
<1>9. ReadInv'
    BY <1>1 DEF CatalogInv, ReadInv, Extends
<1>10. FullInv'
    BY <1>1, <1>2 DEF FullInv
<1>11. PendingInv'
    BY <1>1, PendingKept
<1> QED
    BY <1>5, <1>6, <1>7, <1>8, <1>9, <1>10, <1>11 DEF CatalogInv

(***************************************************************************)
(* The steps of the readers.                                               *)
(***************************************************************************)
LEMMA GraphTold ==
    ASSUME CatalogInv
    PROVE  EndsTold(graph)
<1>1. /\ AllEdges(graph) \in Seq(EdgeType) /\ EndsInRange(AllEdges(graph), Len(graph.nodes))
      /\ \A i \in 1..Len(graph.nodes) : graph.nodes[i].id = i - 1
      /\ Len(graph.nodes) \in Nat
    BY InvTypes
<1>2. NamesNodes(graph.nodes) /\ NamesEnds(AllEdges(graph))
    BY DEF CatalogInv, NameInv
<1>3. ASSUME NEW id \in Nat, id < Len(graph.nodes), NEW name, Leads(id, name)
      PROVE  graph.nodes[id + 1].ent = name
    <2>1. id + 1 \in 1..Len(graph.nodes) /\ (id + 1) - 1 = id
        BY <1>1, <1>3
    <2>2. graph.nodes[id + 1].id = id
        BY <1>1, <2>1
    <2>3. Leads(id, graph.nodes[id + 1].ent)
        BY <1>2, <2>1, <2>2 DEF NamesNodes
    <2> QED
        BY <1>3, <2>3 DEF Leads
<1>4. ASSUME NEW e \in Items(AllEdges(graph))
      PROVE  graph.nodes[e.from + 1].ent = e.src /\ graph.nodes[e.to + 1].ent = e.dst
    <2>1. PICK k \in DOMAIN AllEdges(graph) : e = AllEdges(graph)[k]
        BY DEF Items
    <2>2. e \in EdgeType /\ e.from < Len(graph.nodes) /\ e.to < Len(graph.nodes)
        BY <1>1, <2>1 DEF EndsInRange
    <2>3. e.from \in Nat /\ e.to \in Nat
        BY <2>2 DEF EdgeType
    <2>4. Leads(e.from, e.src) /\ Leads(e.to, e.dst)
        BY <1>2 DEF NamesEnds
    <2> QED
        BY <1>3, <2>2, <2>3, <2>4
<1> QED
    BY <1>4 DEF EndsTold

LEMMA ReadGraphStep ==
    ASSUME CatalogInv, ReadGraph
    PROVE  CatalogInv'
<1>1. /\ read' = [active |-> TRUE, graph |-> graph, quiet |-> ~ merging]
      /\ UNCHANGED <<storeVars, indexVars, mergeVars>> /\ file' = file /\ import' = import
    BY DEF ReadGraph
<1>2. /\ delta' = delta /\ graph' = graph /\ vectors' = vectors /\ merging' = merging
      /\ drained' = drained /\ failed' = failed
      /\ UNCHANGED <<delta, wal, walTorn, nextNodeId, pending, issued, indexVars, mergeVars>>
    BY <1>1 DEF storeVars, indexVars, mergeVars
<1>3. StoreInv' /\ NameInv' /\ PlaceInv' /\ PendingInv'
    BY <1>1, <1>2, StoreKept, PendingKept DEF CatalogInv, ShapeInv, NameInv
<1>4. read'.active = TRUE /\ read'.graph = graph /\ read'.quiet = ~ merging
    BY <1>1, Zenon
<1>5. IsGraph(graph) /\ merging \in BOOLEAN
    BY DEF CatalogInv, ShapeInv
<1>6. ShapeInv'
    <2>1. read' = [active |-> read'.active, graph |-> read'.graph, quiet |-> read'.quiet]
        BY ONLY <1>1, <1>4
    <2>2. read'.active \in BOOLEAN /\ read'.quiet \in BOOLEAN /\ IsGraph(read'.graph)
        BY ONLY <1>4, <1>5
    <2> QED
        BY <1>1, <1>2, <2>1, <2>2 DEF CatalogInv, ShapeInv
<1>7. ReadInv'
    <2>1. Len(graph.nodes) \in Nat
        BY InvTypes
    <2>2. Extends(graph.nodes, graph.nodes) /\ EndsTold(graph)
        BY <2>1, GraphTold DEF Extends
    <2> QED
        BY <1>2, <1>4, <2>2 DEF ReadInv, Extends
<1>8. FullInv'
    BY <1>1, <1>2 DEF CatalogInv, FullInv, AllFull
<1> QED
    BY <1>3, <1>6, <1>7, <1>8 DEF CatalogInv

\* What ends a read, with or without an export.
LEMMA ReadEnds ==
    ASSUME CatalogInv, read' = NotReading, UNCHANGED <<storeVars, indexVars, mergeVars, import>>,
           file' \in FileType
    PROVE  CatalogInv'
<1>1. /\ delta' = delta /\ graph' = graph /\ vectors' = vectors /\ merging' = merging
      /\ drained' = drained /\ failed' = failed /\ import' = import
      /\ UNCHANGED <<delta, wal, walTorn, nextNodeId, pending, issued, indexVars, mergeVars>>
    BY DEF storeVars, indexVars, mergeVars
<1>2. read' = [active |-> FALSE, graph |-> NoGraph, quiet |-> FALSE]
    BY DEF NotReading
<1>3. StoreInv' /\ NameInv' /\ PlaceInv' /\ PendingInv'
    BY <1>1, StoreKept, PendingKept DEF CatalogInv, ShapeInv, NameInv
<1>4. read'.active = FALSE /\ read'.graph = NoGraph /\ read'.quiet = FALSE
    BY ONLY <1>2
<1>5. ShapeInv'
    <2>1. read' = [active |-> read'.active, graph |-> read'.graph, quiet |-> read'.quiet]
        BY ONLY <1>2, <1>4
    <2>2. read'.active \in BOOLEAN /\ read'.quiet \in BOOLEAN /\ IsGraph(read'.graph)
        BY ONLY <1>4, NoGraphIsGraph
    <2> QED
        BY <1>1, <2>1, <2>2 DEF CatalogInv, ShapeInv
<1>6. ReadInv'
    BY <1>4 DEF ReadInv
<1>7. FullInv'
    BY <1>1 DEF CatalogInv, FullInv, AllFull
<1> QED
    BY <1>3, <1>5, <1>6, <1>7 DEF CatalogInv

LEMMA ExportType ==
    ASSUME NEW g, IsGraph(g), NEW d \in GraphType
    PROVE  Export(g, d) \in FileType
<1> DEFINE ns == g.nodes \o d.nodes
           es == AllEdges(g) \o d.edges
           N == Len(g.nodes)
<1>1. /\ g.nodes \in Seq(NodeType) /\ AllEdges(g) \in Seq(EdgeType)
      /\ d.nodes \in Seq(NodeType) /\ d.edges \in Seq(EdgeType)
    BY GraphFacts DEF GraphType
<1>2. ns \in Seq(NodeType) /\ es \in Seq(EdgeType)
    BY <1>1, ConcatProperties
<1>3. ASSUME NEW id \in Nat PROVE ExportedName(g, d, id) \in Names \cup {NoName}
    <2>1. /\ N \in Nat /\ Len(d.nodes) \in Nat
          /\ \A i \in 1..N : g.nodes[i].ent \in Names
          /\ \A i \in 1..Len(d.nodes) : d.nodes[i].ent \in Names
        <3>1. \A n \in NodeType : n.ent \in Names
            BY DEF NodeType
        <3>2. /\ N \in Nat /\ Len(d.nodes) \in Nat
              /\ \A i \in 1..N : g.nodes[i] \in NodeType
              /\ \A i \in 1..Len(d.nodes) : d.nodes[i] \in NodeType
            BY <1>1, ItemsOf
        <3> QED
            BY <3>1, <3>2
    <2> HIDE DEF N
    <2>2. CASE id < N
        <3>1. id + 1 \in 1..N
            BY <2>1, <2>2
        <3> QED
            BY <2>1, <2>2, <3>1 DEF ExportedName, NumNodes, NameOf, N
    <2>3. CASE ~ (id < N) /\ id - N < Len(d.nodes)
        <3>1. (id - N) + 1 \in 1..Len(d.nodes)
            BY <2>1, <2>3
        <3> QED
            BY <2>1, <2>3, <3>1 DEF ExportedName, NumNodes, NameOf, N
    <2>4. CASE ~ (id < N) /\ ~ (id - N < Len(d.nodes))
        BY <2>4 DEF ExportedName, NumNodes, N
    <2> QED
        BY <2>2, <2>3, <2>4
<1> DEFINE names == [i \in DOMAIN ns |-> ns[i].ent]
           ends == [k \in DOMAIN es |-> [from |-> ExportedName(g, d, es[k].from),
                                         to   |-> ExportedName(g, d, es[k].to),
                                         type |-> es[k].origin.type]]
           End == [from : Names \cup {NoName}, to : Names \cup {NoName}, type : EdgeTypes]
<1>4. Export(g, d) = [nodes |-> names, edges |-> ends]
    BY DEF Export
<1> HIDE DEF ns, es
<1>5. names \in Seq(Names)
    <2>1. Len(ns) \in Nat /\ DOMAIN ns = 1..Len(ns) /\ \A i \in 1..Len(ns) : ns[i] \in NodeType
        BY <1>2
    <2>2. names \in [1..Len(ns) -> Names]
        BY <2>1 DEF NodeType
    <2> HIDE DEF names
    <2> QED
        BY <2>1, <2>2, DefinedSeq
<1>6. ends \in Seq(End)
    <2>1. Len(es) \in Nat /\ DOMAIN es = 1..Len(es) /\ \A i \in 1..Len(es) : es[i] \in EdgeType
        BY <1>2
    <2>2. ASSUME NEW k \in 1..Len(es)
          PROVE  [from |-> ExportedName(g, d, es[k].from), to |-> ExportedName(g, d, es[k].to),
                  type |-> es[k].origin.type] \in End
        <3>1. es[k].from \in Nat /\ es[k].to \in Nat /\ es[k].origin.type \in EdgeTypes
            BY <2>1 DEF EdgeType
        <3> QED
            BY <1>3, <3>1
    <2>3. ends \in [1..Len(es) -> End]
        BY <2>1, <2>2
    <2> HIDE DEF ends, End
    <2> QED
        BY <2>1, <2>3, DefinedSeq
<1> HIDE DEF names, ends
<1> QED
    BY <1>4, <1>5, <1>6 DEF FileType

LEMMA ReaderSteps ==
    ASSUME CatalogInv, ReadGraph \/ ReadDelta \/ ExportEnds
    PROVE  CatalogInv'
<1>1. CASE ReadGraph
    BY <1>1, ReadGraphStep
<1>2. CASE ReadDelta
    <2>1. file' \in FileType
        BY <1>2 DEF ReadDelta, CatalogInv, ShapeInv
    <2> QED
        BY <1>2, <2>1, ReadEnds DEF ReadDelta
<1>3. CASE ExportEnds
    <2>1. file' = Export(read.graph, delta)
        BY <1>3 DEF ExportEnds
    <2>2. IsGraph(read.graph) /\ delta \in GraphType
        BY DEF CatalogInv, ShapeInv, StoreInv
    <2>3. file' \in FileType
        BY <2>1, <2>2, ExportType
    <2> QED
        BY <1>3, <2>3, ReadEnds DEF ExportEnds
<1> QED
    BY <1>1, <1>2, <1>3

(***************************************************************************)
(* The steps of the importer.                                              *)
(***************************************************************************)
LEMMA ImportFacts ==
    ASSUME CatalogInv
    PROVE  /\ import = [phase |-> import.phase, payload |-> import.payload, next |-> import.next,
                        ids |-> import.ids, runs |-> import.runs]
           /\ import.phase \in {"idle", "nodes", "edges"} /\ import.payload \in FileType
           /\ import.next \in Nat \ {0} /\ import.ids \in Seq(Names \X Nat) /\ import.runs \in Nat
           /\ \A i \in 1..Len(import.ids) : Leads(import.ids[i][2], import.ids[i][1])
           /\ import.phase # "idle" => import.runs # 0
<1>1. import \in ImportType
    BY DEF CatalogInv, ShapeInv
<1>2. \A i \in 1..Len(import.ids) : Leads(import.ids[i][2], import.ids[i][1])
    BY DEF CatalogInv, NameInv
<1>3. import.phase # "idle" => import.runs # 0
    BY DEF CatalogInv, FullInv
<1> QED
    BY <1>1, <1>2, <1>3 DEF ImportType

\* name_to_id knows a name by an ID that was handed out for it.
LEMMA NameToIdLeads ==
    ASSUME CatalogInv, NEW name, NEW id \in NameToId(import.ids, name)
    PROVE  Leads(id, name) /\ name \in Names /\ id \in Nat
<1> DEFINE ids == import.ids
           hits == {i \in DOMAIN ids : ids[i][1] = name}
<1>1. /\ ids \in Seq(Names \X Nat)
      /\ \A i \in 1..Len(ids) : Leads(ids[i][2], ids[i][1])
    BY ImportFacts
<1>2. hits # {} /\ id = ids[Last(hits)][2]
    BY DEF NameToId
<1> HIDE DEF ids
<1>3. DOMAIN ids = 1..Len(ids) /\ Len(ids) \in Nat
    BY <1>1
<1>4. Last(hits) \in hits
    <2>1. hits \subseteq 1..Len(ids)
        BY <1>3
    <2> HIDE DEF hits
    <2> QED
        BY <1>2, <1>3, <2>1, LastProperties
<1>5. PICK i \in 1..Len(ids) : i = Last(hits) /\ ids[i][1] = name
    BY <1>3, <1>4
<1> HIDE DEF hits
<1>6. ids[i] \in Names \X Nat
    BY <1>1
<1> QED
    BY <1>1, <1>2, <1>5, <1>6

LEMMA ImporterMoves ==
    ASSUME CatalogInv, UNCHANGED <<storeVars, indexVars, mergeVars, read, file>>,
           ~ NodesLeft \/ \A n \in pending : n.origin # "none",
           import' \in ImportType, import'.runs # 0,
           \A i \in 1..Len(import'.ids) : Leads(import'.ids[i][2], import'.ids[i][1])
    PROVE  CatalogInv'
<1>1. /\ delta' = delta /\ graph' = graph /\ vectors' = vectors /\ merging' = merging
      /\ drained' = drained /\ failed' = failed /\ read' = read /\ file' = file
    BY DEF storeVars, indexVars, mergeVars
<1>2. UNCHANGED <<delta, wal, walTorn, nextNodeId, pending, issued, indexVars, mergeVars>>
    BY DEF storeVars
<1>3. StoreInv' /\ NameInv' /\ PlaceInv' /\ PendingInv'
    BY <1>2, StoreKept, PendingKept
<1>4. ShapeInv'
    BY <1>1 DEF CatalogInv, ShapeInv
<1>5. ReadInv'
    BY <1>1 DEF CatalogInv, ReadInv, Extends
<1>6. FullInv'
    BY DEF FullInv
<1> QED
    BY <1>3, <1>4, <1>5, <1>6 DEF CatalogInv

LEMMA ImportStartsStep ==
    ASSUME CatalogInv, ImportStarts
    PROVE  CatalogInv'
<1> DEFINE ids == [i \in DOMAIN graph.nodes |-> <<graph.nodes[i].ent, graph.nodes[i].id>>]
<1>1. /\ import' = [import EXCEPT !.phase = "nodes", !.payload = file, !.runs = @ + 1, !.ids = ids]
      /\ UNCHANGED <<storeVars, indexVars, mergeVars, read, file>>
      /\ ~ NodesLeft
    BY DEF ImportStarts, NodesLeft
<1>2. /\ Len(graph.nodes) \in Nat /\ DOMAIN graph.nodes = 1..Len(graph.nodes)
      /\ \A i \in 1..Len(graph.nodes) : graph.nodes[i] \in NodeType
    BY InvTypes
<1>3. ids \in [1..Len(graph.nodes) -> Names \X Nat]
      /\ \A i \in 1..Len(graph.nodes) : ids[i] = <<graph.nodes[i].ent, graph.nodes[i].id>>
    BY <1>2 DEF NodeType
<1> HIDE DEF ids
<1>4. ids \in Seq(Names \X Nat) /\ Len(ids) = Len(graph.nodes)
    BY <1>2, <1>3, DefinedSeq
<1>5. import' = [phase |-> "nodes", payload |-> file, next |-> import.next, ids |-> ids,
                 runs |-> import.runs + 1]
    BY <1>1, ImportFacts
<1>6. file \in FileType
    BY DEF CatalogInv, ShapeInv
<1>7. import' \in ImportType /\ import'.runs # 0 /\ import'.ids = ids
    BY <1>4, <1>5, <1>6, ImportFacts DEF ImportType
<1>8. \A i \in 1..Len(ids) : Leads(ids[i][2], ids[i][1])
    BY <1>3, <1>4 DEF CatalogInv, NameInv, NamesNodes
<1> QED
    BY <1>1, <1>7, <1>8, ImporterMoves

\* What the import looks up next.
LEMMA PayloadTypes ==
    ASSUME CatalogInv
    PROVE  /\ import.next <= Len(import.payload.nodes) => import.payload.nodes[import.next] \in Names
           /\ import.next <= Len(import.payload.edges) =>
                 import.payload.edges[import.next].type \in EdgeTypes
           /\ Len(import.payload.nodes) \in Nat
<1>1. import.payload \in FileType /\ import.next \in Nat \ {0}
    BY ImportFacts
<1> DEFINE End == [from : Names \cup {NoName}, to : Names \cup {NoName}, type : EdgeTypes]
<1>2. import.payload.nodes \in Seq(Names) /\ import.payload.edges \in Seq(End)
    BY <1>1 DEF FileType
<1>3. \A e \in End : e.type \in EdgeTypes
    OBVIOUS
<1> HIDE DEF End
<1>4. ASSUME import.next <= Len(import.payload.nodes)
      PROVE  import.payload.nodes[import.next] \in Names
    BY <1>1, <1>2, <1>4
<1>5. ASSUME import.next <= Len(import.payload.edges)
      PROVE  import.payload.edges[import.next] \in End
    BY <1>1, <1>2, <1>5
<1>6. Len(import.payload.nodes) \in Nat
    BY <1>2
<1> QED
    BY <1>3, <1>4, <1>5, <1>6

LEMMA ImportSkipsStep ==
    ASSUME CatalogInv, ImportSkips
    PROVE  CatalogInv'
<1>1. /\ NodesLeft /\ NameToId(import.ids, NextName) # {}
      /\ import' = [import EXCEPT !.next = @ + 1]
      /\ UNCHANGED <<storeVars, indexVars, mergeVars, read, file>>
    BY DEF ImportSkips
<1>2. \A n \in pending : n.origin # "none"
    BY <1>1 DEF CatalogInv, PendingInv, Awaited
<1>3. import.runs # 0
    BY <1>1, ImportFacts DEF NodesLeft
<1>4. import' = [phase |-> import.phase, payload |-> import.payload, next |-> import.next + 1,
                 ids |-> import.ids, runs |-> import.runs]
    BY <1>1, ImportFacts
<1>5. import' \in ImportType /\ import'.runs # 0 /\ import'.ids = import.ids
    BY <1>3, <1>4, ImportFacts DEF ImportType
<1> QED
    BY <1>1, <1>2, <1>5, ImportFacts, ImporterMoves

LEMMA ImportAllocatesStep ==
    ASSUME OneAtATime, CatalogInv, ImportAllocates
    PROVE  CatalogInv'
<1>1. /\ NodesLeft /\ NameToId(import.ids, NextName) = {} /\ Allocate(NextName, "none")
      /\ import' = import /\ Frame
    BY DEF ImportAllocates, Frame
<1>2. NextName \in Names /\ "none" \in Dims
    BY <1>1, PayloadTypes DEF NodesLeft, NextName, Dims
<1> QED
    BY <1>1, <1>2, AllocateStep

LEMMA ImportNodeStep ==
    ASSUME CatalogInv, ImportNode
    PROVE  CatalogInv'
<1>1. PICK n \in pending :
          /\ Push(n)
          /\ import' = [import EXCEPT !.next = @ + 1, !.ids = Append(@, <<n.ent, n.id>>)]
    BY DEF ImportNode
<1> DEFINE pair == <<n.ent, n.id>>
<1>2. pair \in Names \X Nat
    BY <1>1, PushEffect
<1>3. import' = [phase |-> import.phase, payload |-> import.payload, next |-> import.next + 1,
                 ids |-> Append(import.ids, pair), runs |-> import.runs]
    BY <1>1, ImportFacts
<1> HIDE DEF pair
<1>4. /\ Append(import.ids, pair) \in Seq(Names \X Nat)
      /\ \A i \in 1..Len(Append(import.ids, pair)) :
            \/ i \in 1..Len(import.ids) /\ Append(import.ids, pair)[i] = import.ids[i]
            \/ Append(import.ids, pair)[i] = pair
    BY <1>2, ImportFacts, AppendProperties
<1>5. /\ import' \in ImportType /\ import'.runs = import.runs /\ import'.phase = import.phase
      /\ import'.ids = Append(import.ids, pair)
    BY <1>3, <1>4, ImportFacts DEF ImportType
<1>6. \A i \in 1..Len(import'.ids) :
          \/ i \in 1..Len(import.ids) /\ import'.ids[i] = import.ids[i]
          \/ import'.ids[i] = <<n.ent, n.id>>
    BY <1>4, <1>5 DEF pair
<1>7. Frame
    BY DEF ImportNode, Frame
<1> QED
    BY <1>1, <1>5, <1>6, <1>7, PushStep

LEMMA ImportEdgeStep ==
    ASSUME CatalogInv, ImportEdge
    PROVE  CatalogInv'
<1> DEFINE e == import.payload.edges[import.next]
           from == NameToId(import.ids, e.from)
           to == NameToId(import.ids, e.to)
<1>1. /\ import.phase = "edges" /\ import.next <= Len(import.payload.edges)
      /\ import' = [import EXCEPT !.next = @ + 1]
      /\ UNCHANGED <<indexVars, mergeVars, read, file>>
    BY DEF ImportEdge
<1>2. e.type \in EdgeTypes /\ import.runs # 0
    BY <1>1, PayloadTypes, ImportFacts
<1>3. import' = [phase |-> import.phase, payload |-> import.payload, next |-> import.next + 1,
                 ids |-> import.ids, runs |-> import.runs]
    BY <1>1, ImportFacts
<1>4. /\ import' \in ImportType /\ import'.runs = import.runs /\ import'.phase = import.phase
      /\ import'.ids = import.ids
    BY <1>3, ImportFacts DEF ImportType
<1>5. CASE from = {} \/ to = {}
    <2>1. UNCHANGED storeVars /\ ~ NodesLeft
        BY <1>1, <1>5 DEF ImportEdge, NodesLeft
    <2> QED
        BY <1>1, <1>2, <1>4, <2>1, ImportFacts, ImporterMoves
<1>6. CASE ~ (from = {} \/ to = {})
    <2> DEFINE New(x, y) == [from |-> x, to |-> y, src |-> e.from, dst |-> e.to,
                             origin |-> [type |-> e.type, weight |-> WeightOf[e.type],
                                         dim |-> "none"]]
    <2>1. PICK x \in from, y \in to : AddEdge(New(x, y))
        BY <1>6 DEF ImportEdge
    <2>2. nextNodeId' = nextNodeId /\ pending' = pending /\ issued' = issued /\ ~ NodesLeft
        BY <1>1, <1>6 DEF ImportEdge, NodesLeft
    <2>3. Leads(x, e.from) /\ e.from \in Names /\ x \in Nat
        BY NameToIdLeads
    <2>4. Leads(y, e.to) /\ e.to \in Names /\ y \in Nat
        BY NameToIdLeads
    <2>5. WeightOf[e.type] \in Nat
        BY <1>2, CatalogAssumption
    <2>6. New(x, y) \in EdgeType
        BY <1>2, <2>3, <2>4, <2>5 DEF EdgeType, Dims
    <2>7. /\ New(x, y).from = x /\ New(x, y).src = e.from
          /\ New(x, y).to = y /\ New(x, y).dst = e.to
        OBVIOUS
    <2>8. Frame
        BY <1>1 DEF Frame
    <2> HIDE DEF New, e
    <2> QED
        BY <1>2, <1>4, <2>1, <2>2, <2>3, <2>4, <2>6, <2>7, <2>8, EdgeStep
<1> QED
    BY <1>5, <1>6

LEMMA ImporterTurns ==
    ASSUME CatalogInv, ImportNodesDone \/ ImportEnds
    PROVE  CatalogInv'
<1>1. UNCHANGED <<storeVars, indexVars, mergeVars, read, file>> /\ import.runs # 0
        /\ ~ NodesLeft
    <2>1. \A m, n \in Nat : m > n => ~ (m <= n)
        OBVIOUS
    <2>2. import.next \in Nat /\ Len(import.payload.nodes) \in Nat
        BY PayloadTypes, ImportFacts DEF FileType
    <2> QED
        BY <2>1, <2>2, ImportFacts DEF ImportNodesDone, ImportEnds, NodesLeft
<1>2. CASE ImportNodesDone
    <2>1. import' = [phase |-> "edges", payload |-> import.payload, next |-> 1,
                     ids |-> import.ids, runs |-> import.runs]
        BY <1>2, ImportFacts DEF ImportNodesDone
    <2>2. import' \in ImportType /\ import'.runs # 0 /\ import'.ids = import.ids
        BY <1>1, <2>1, ImportFacts DEF ImportType
    <2> QED
        BY <1>1, <2>2, ImportFacts, ImporterMoves
<1>3. CASE ImportEnds
    <2>1. import' = [phase |-> "idle", payload |-> import.payload, next |-> 1,
                     ids |-> <<>>, runs |-> import.runs]
        BY <1>3, ImportFacts DEF ImportEnds
    <2>2. import' \in ImportType /\ import'.runs # 0 /\ import'.ids = <<>>
        BY <1>1, <2>1, ImportFacts DEF ImportType
    <2>3. \A i \in 1..Len(import'.ids) : Leads(import'.ids[i][2], import'.ids[i][1])
        BY <2>2
    <2> QED
        BY <1>1, <2>2, <2>3, ImporterMoves
<1> QED
    BY <1>2, <1>3

(***************************************************************************)
(* Ingests and fresh instances.                                            *)
(***************************************************************************)
LEMMA IngestAllocatesStep ==
    ASSUME OneAtATime, CatalogInv, IngestAllocates
    PROVE  CatalogInv'
<1>1. PICK name \in Names : Allocate(name, "full")
    BY DEF IngestAllocates
<1>2. import' = import /\ Frame
    BY DEF IngestAllocates, Frame
<1>3. "full" \in Dims /\ "full" # "none"
    BY DEF Dims
<1> QED
    BY <1>1, <1>2, <1>3, AllocateStep

LEMMA IngestNodeStep ==
    ASSUME CatalogInv, IngestNode
    PROVE  CatalogInv'
<1>1. PICK n \in pending : Push(n)
    BY DEF IngestNode
<1>2. import' = import /\ Frame
    BY DEF IngestNode, Frame
<1>3. import \in ImportType
    BY DEF CatalogInv, ShapeInv
<1>4. \A i \in 1..Len(import'.ids) : i \in 1..Len(import.ids) /\ import'.ids[i] = import.ids[i]
    BY <1>2
<1> QED
    BY <1>1, <1>2, <1>3, <1>4, PushStep

\* An ingest links nodes by the names they have.
LEMMA KnownLeads ==
    ASSUME CatalogInv, NEW x, NEW id \in Known(x)
    PROVE  Leads(id, x) /\ id \in Nat
<1>1. PICK n \in Items(graph.nodes) \cup Items(delta.nodes) : n.ent = x /\ n.id = id
    BY DEF Known
<1>2. graph.nodes \in Seq(NodeType) /\ delta.nodes \in Seq(NodeType)
    BY InvTypes
<1>3. NamesNodes(graph.nodes) /\ NamesNodes(delta.nodes)
    BY DEF CatalogInv, NameInv
<1>4. n \in NodeType /\ Leads(n.id, n.ent)
    <2>1. CASE n \in Items(graph.nodes)
        BY <1>2, <1>3, <2>1, ItemsOf DEF NamesNodes
    <2>2. CASE n \in Items(delta.nodes)
        BY <1>2, <1>3, <2>2, ItemsOf DEF NamesNodes
    <2> QED
        BY <2>1, <2>2
<1> QED
    BY <1>1, <1>4 DEF NodeType

LEMMA IngestEdgeStep ==
    ASSUME CatalogInv, IngestEdge
    PROVE  CatalogInv'
<1> DEFINE New(x, y, t, from, to) ==
        [from |-> from, to |-> to, src |-> x, dst |-> y,
         origin |-> [type |-> t, weight |-> WeightOf[t], dim |-> "full"]]
<1>1. PICK x \in Names, y \in Names, t \in EdgeTypes :
          \E from \in Known(x), to \in Known(y) : AddEdge(New(x, y, t, from, to))
    BY DEF IngestEdge
<1>2. PICK from \in Known(x), to \in Known(y) : AddEdge(New(x, y, t, from, to))
    BY <1>1
<1>3. import' = import /\ Frame /\ nextNodeId' = nextNodeId /\ pending' = pending
        /\ issued' = issued
    BY DEF IngestEdge, Frame
<1>4. import \in ImportType
    BY DEF CatalogInv, ShapeInv
<1>5. Leads(from, x) /\ from \in Nat
    BY KnownLeads
<1>6. Leads(to, y) /\ to \in Nat
    BY KnownLeads
<1>7. WeightOf[t] \in Nat
    BY CatalogAssumption
<1> DEFINE e == New(x, y, t, from, to)
<1>8. e \in EdgeType
    BY <1>5, <1>6, <1>7 DEF EdgeType, Dims
<1>9. e.from = from /\ e.src = x /\ e.to = to /\ e.dst = y /\ e.origin.dim = "full"
    OBVIOUS
<1> HIDE DEF New
<1>10. AddEdge(e)
    BY <1>2
<1> HIDE DEF e
<1> QED
    BY <1>3, <1>4, <1>5, <1>6, <1>8, <1>9, <1>10, EdgeStep

LEMMA FreshInstanceStep ==
    ASSUME CatalogInv, FreshInstance
    PROVE  CatalogInv'
<1>1. /\ ~ merging /\ ~ read.active
      /\ graph' = NoGraph /\ vectors' = NoVectors /\ delta' = Empty
      /\ wal' = Empty /\ walTorn' = FALSE /\ nextNodeId' = 0 /\ pending' = {} /\ issued' = <<>>
      /\ failed' = FALSE /\ import' = NotImporting
      /\ merging' = merging /\ drained' = drained /\ read' = read /\ file' = file
    BY DEF FreshInstance, TruncateWal, InitNodeIds
<1>2. drained = Empty /\ merging = FALSE
    BY <1>1 DEF CatalogInv, PlaceInv, ShapeInv
<1>3. StoreInv'
    <2>1. issued' \in Seq(Names) /\ Len(issued') = 0
        BY <1>1
    <2> QED
        BY <1>1, <1>2, <2>1, EmptyType DEF StoreInv
<1>12. PendingInv'
    <2>1. Len(issued') = 0
        BY <1>1
    <2> QED
        BY <1>1, <2>1 DEF PendingInv
<1>4. vectors' \in VectorsType /\ vectors'.short = {}
        /\ Items(vectors'.nodes) = {} /\ Items(vectors'.edges) = {}
    BY <1>1 DEF VectorsType, NoVectors, Items
<1>5. ShapeInv'
    <2>1. IsGraph(graph')
        BY <1>1, NoGraphIsGraph
    <2>2. import' \in ImportType
        BY <1>1, NotImportingType
    <2> QED
        BY <1>1, <1>4, <2>1, <2>2 DEF CatalogInv, ShapeInv
<1>6. graph'.nodes = <<>> /\ AllEdges(graph') = <<>> /\ drained'.nodes = <<>>
        /\ drained'.edges = <<>> /\ delta'.nodes = <<>> /\ delta'.edges = <<>>
        /\ import'.ids = <<>> /\ import'.runs = 0 /\ import'.phase = "idle"
    BY <1>1, <1>2, NoGraphIsGraph, EmptyType, NotImportingType
<1>7. Len(<<>>) = 0 /\ Items(<<>>) = {} /\ DOMAIN <<>> = {}
    BY DEF Items
<1>8. NameInv'
    <2>1. NamesNodes(graph.nodes)' /\ NamesNodes(drained.nodes)' /\ NamesNodes(delta.nodes)'
        BY <1>6, <1>7 DEF NamesNodes
    <2>2. NamesEnds(AllEdges(graph))' /\ NamesEnds(drained.edges)' /\ NamesEnds(delta.edges)'
        BY <1>6, <1>7 DEF NamesEnds
    <2>3. \A i \in 1..Len(import'.ids) : Leads(import.ids[i][2], import.ids[i][1])'
        BY <1>6, <1>7
    <2> QED
        BY <2>1, <2>2, <2>3 DEF NameInv
<1>9. PlaceInv'
    BY <1>1, <1>2, <1>4, <1>6, <1>7 DEF PlaceInv, Numbered, EndsInRange
<1>10. ReadInv'
    BY <1>1 DEF ReadInv
<1>11. FullInv'
    BY <1>1, <1>4, <1>6, <1>7 DEF FullInv, AllFull
<1> QED
    BY <1>3, <1>5, <1>8, <1>9, <1>10, <1>11, <1>12 DEF CatalogInv

LEMMA CatalogStutter ==
    ASSUME CatalogInv, UNCHANGED vars
    PROVE  CatalogInv'
<1>1. /\ delta' = delta /\ wal' = wal /\ walTorn' = walTorn /\ nextNodeId' = nextNodeId
      /\ pending' = pending /\ issued' = issued /\ graph' = graph /\ vectors' = vectors
      /\ merging' = merging /\ drained' = drained /\ failed' = failed /\ read' = read
      /\ file' = file /\ import' = import
      /\ UNCHANGED <<delta, wal, walTorn, nextNodeId, pending, issued, indexVars, mergeVars>>
    BY DEF vars, storeVars, indexVars, mergeVars
<1>2. StoreInv' /\ NameInv' /\ PlaceInv' /\ PendingInv'
    BY <1>1, ImportFacts, StoreKept, PendingKept DEF CatalogInv, ShapeInv
<1>3. ShapeInv' /\ ReadInv' /\ FullInv'
    BY <1>1 DEF CatalogInv, ShapeInv, ReadInv, Extends, FullInv, AllFull
<1> QED
    BY <1>2, <1>3 DEF CatalogInv

LEMMA CatalogStep ==
    ASSUME OneAtATime
    PROVE  CatalogInv /\ [Next]_vars => CatalogInv'
<1> SUFFICES ASSUME CatalogInv, [Next]_vars PROVE CatalogInv'
    OBVIOUS
<1>0. CASE IngestAllocates
    BY <1>0, IngestAllocatesStep
<1>1. CASE IngestNode
    BY <1>1, IngestNodeStep
<1>2. CASE IngestEdge
    BY <1>2, IngestEdgeStep
<1>3. CASE Drain
    BY <1>3, DrainStep
<1>4. CASE MergeSwaps
    BY <1>4, MergeSwapsStep
<1>5. CASE MergeDies
    BY <1>5, MergeDiesStep
<1>6. CASE ReadGraph \/ ReadDelta \/ ExportEnds
    BY <1>6, ReaderSteps
<1>7. CASE ImportStarts
    BY <1>7, ImportStartsStep
<1>8. CASE ImportNode
    BY <1>8, ImportNodeStep
<1>13. CASE ImportSkips
    BY <1>13, ImportSkipsStep
<1>14. CASE ImportAllocates
    BY <1>14, ImportAllocatesStep
<1>9. CASE ImportEdge
    BY <1>9, ImportEdgeStep
<1>10. CASE ImportNodesDone \/ ImportEnds
    BY <1>10, ImporterTurns
<1>11. CASE FreshInstance
    BY <1>11, FreshInstanceStep
<1>12. CASE UNCHANGED vars
    BY <1>12, CatalogStutter
<1> QED
    BY <1>0, <1>1, <1>2, <1>3, <1>4, <1>5, <1>6, <1>7, <1>8, <1>9, <1>10, <1>11, <1>12, <1>13,
       <1>14 DEF Next

LEMMA CatalogInvariant ==
    ASSUME OneAtATime
    PROVE  Spec => []CatalogInv
<1>1. CatalogInv /\ [Next]_vars => CatalogInv'
    BY CatalogStep
<1> QED
    BY <1>1, CatalogInit, PTL DEF Spec

(***************************************************************************)
(* The theorems.                                                           *)
(***************************************************************************)

\* The buffer, the log, the drained batch, the packed graph, the lengths of the
\* vectors and the importer keep their types, and a node's ID is its index
\* (run_merge, apply_import and the handlers that write to the store).
THEOREM TypesHold ==
    ASSUME OneAtATime
    PROVE  Spec => []TypeOK
<1>1. CatalogInv => TypeOK
    <2> SUFFICES ASSUME CatalogInv PROVE TypeOK
        OBVIOUS
    <2>1. /\ delta \in GraphType /\ wal \in GraphType /\ drained \in GraphType
          /\ issued \in Seq(Names)
        BY DEF CatalogInv, StoreInv
    <2>2. /\ graph.nodes \in Seq(NodeType) /\ AllEdges(graph) \in Seq(EdgeType)
          /\ DOMAIN graph.nodes = 1..Len(graph.nodes)
          /\ \A i \in 1..Len(graph.nodes) : graph.nodes[i].id = i - 1
        BY InvTypes
    <2>3. [nodes |-> graph.nodes, edges |-> AllEdges(graph)] \in GraphType
        BY <2>2 DEF GraphType
    <2>4. vectors \in VectorsType /\ import \in ImportType
        BY DEF CatalogInv, ShapeInv
    <2>5. import.phase \in {"idle", "nodes", "edges"}
        BY ImportFacts
    <2>6. PICK l \in Nat : l = Len(issued) /\ DOMAIN issued = 1..l
        BY <2>1
    <2>7. /\ pending \subseteq NodeType /\ Cardinality(pending) <= MaxPending
          /\ DOMAIN issued \cup {n.id + 1 : n \in pending} = 1..nextNodeId
        <3>1. CASE pending = {} /\ nextNodeId = Len(issued)
            <4>1. Cardinality(pending) = 0 /\ {n.id + 1 : n \in pending} = {}
                BY <3>1, FS_EmptySet
            <4> QED
                BY <2>6, <3>1, <4>1 DEF OneAtATime
        <3>2. CASE nextNodeId = Len(issued) + 1 /\ \E n \in pending : pending = {n} /\ Awaited(n)
            <4>1. PICK n \in pending : pending = {n} /\ n \in NodeType /\ n.id = l
                BY <2>6, <3>2 DEF Awaited
            <4>2. Cardinality(pending) = 1
                BY <4>1, FS_Singleton
            <4>3. {m.id + 1 : m \in pending} = {l + 1}
                BY <4>1
            <4>4. 1..l \cup {l + 1} = 1..(l + 1)
                BY ONLY l \in Nat
            <4> QED
                BY <2>6, <3>2, <4>1, <4>2, <4>3, <4>4 DEF OneAtATime
        <3> QED
            BY <3>1, <3>2 DEF CatalogInv, PendingInv
    <2>8. \A k \in DOMAIN issued : issued[k] \in Names
        BY <2>1
    <2> QED
        BY <2>1, <2>2, <2>3, <2>4, <2>5, <2>7, <2>8 DEF TypeOK, VectorsType
<1> QED
    BY <1>1, CatalogInvariant, PTL

\* Between merges, a handed-out ID is the place of its node in the graph or,
\* behind it, in the buffer, and that node has the name it was handed out for.
LEMMA FoundByPlace ==
    ASSUME CatalogInv, ~ failed, ~ merging, NEW id \in Nat, id < Len(issued)
    PROVE  \/ /\ id < Len(graph.nodes) /\ id + 1 \in 1..Len(graph.nodes)
              /\ graph.nodes[id + 1].ent = issued[id + 1]
           \/ /\ ~ (id < Len(graph.nodes)) /\ id - Len(graph.nodes) < Len(delta.nodes)
              /\ (id - Len(graph.nodes)) + 1 \in 1..Len(delta.nodes)
              /\ delta.nodes[(id - Len(graph.nodes)) + 1].id = id
              /\ delta.nodes[(id - Len(graph.nodes)) + 1].ent = issued[id + 1]
<1>1. PICK n, d \in Nat : n = Len(graph.nodes) /\ d = Len(delta.nodes)
    BY InvTypes
<1>2. n + d = Len(issued) /\ Numbered(delta.nodes, n)
    <2>1. drained = Empty
        BY DEF CatalogInv, PlaceInv
    <2>2. Len(drained.nodes) = 0
        BY <2>1, EmptyType
    <2>3. /\ Len(graph.nodes) + Len(drained.nodes) + Len(delta.nodes) = Len(issued)
          /\ Numbered(delta.nodes, Len(graph.nodes) + Len(drained.nodes))
        BY DEF CatalogInv, PlaceInv
    <2>4. (n + 0) + d = Len(issued) /\ Numbered(delta.nodes, n + 0)
        BY <1>1, <2>2, <2>3, Zenon
    <2>5. n + 0 = n
        OBVIOUS
    <2> QED
        BY <2>4, <2>5
<1>3. NamesNodes(graph.nodes) /\ NamesNodes(delta.nodes)
    BY DEF CatalogInv, NameInv
<1>4. CASE id < n
    <2>1. id + 1 \in 1..n /\ (id + 1) - 1 = id
        BY <1>4
    <2>2. graph.nodes[id + 1].id = id
        BY <1>1, <2>1, InvTypes
    <2> QED
        BY <1>1, <1>3, <1>4, <2>1, <2>2 DEF NamesNodes, Leads
<1>5. CASE ~ (id < n)
    <2>1. id - n < d /\ (id - n) + 1 \in 1..d /\ (n + ((id - n) + 1)) - 1 = id
        BY <1>2, <1>5
    <2>2. delta.nodes[(id - n) + 1].id = id
        BY <1>1, <1>2, <2>1 DEF Numbered
    <2> QED
        BY <1>1, <1>3, <1>5, <2>1, <2>2 DEF NamesNodes, Leads
<1> QED
    BY <1>4, <1>5

\* Where the node of a pushed ID is, while a merge may hold it.
LEMMA HeldByPlace ==
    ASSUME CatalogInv, ~ failed, NEW id \in Nat, id < Len(issued)
    PROVE  LET n == Len(graph.nodes)
               m == Len(drained.nodes)
           IN  \/ id < n /\ graph.nodes[id + 1].ent = issued[id + 1]
               \/ /\ ~ (id < n) /\ \A x \in Items(delta.nodes) : x.id # id
                  /\ \E x \in Items(drained.nodes) : x.id = id
               \/ /\ ~ (id < n) /\ \E x \in Items(delta.nodes) : x.id = id
                  /\ \A x \in Items(delta.nodes) : x.id = id => x.ent = issued[id + 1]
<1>1. PICK n, m, d \in Nat :
          n = Len(graph.nodes) /\ m = Len(drained.nodes) /\ d = Len(delta.nodes)
    BY InvTypes
<1>2. n + m + d = Len(issued) /\ Numbered(drained.nodes, n) /\ Numbered(delta.nodes, n + m)
    BY <1>1 DEF CatalogInv, PlaceInv
<1>3. /\ \A i \in 1..n : Leads(graph.nodes[i].id, graph.nodes[i].ent) /\ graph.nodes[i].id = i - 1
      /\ \A i \in 1..d : Leads(delta.nodes[i].id, delta.nodes[i].ent)
    BY <1>1, InvTypes DEF CatalogInv, NameInv, NamesNodes
<1>4. /\ delta.nodes \in Seq(NodeType) /\ drained.nodes \in Seq(NodeType)
      /\ \A i \in 1..m : drained.nodes[i].id = (n + i) - 1
      /\ \A i \in 1..d : delta.nodes[i].id = (n + m + i) - 1
    BY <1>1, <1>2, InvTypes DEF Numbered
<1>5. /\ \A x \in Items(delta.nodes) : \E i \in 1..d : x = delta.nodes[i]
      /\ \A i \in 1..d : delta.nodes[i] \in Items(delta.nodes)
      /\ \A i \in 1..m : drained.nodes[i] \in Items(drained.nodes)
    BY <1>1, <1>4, ItemsOf
<1>6. CASE id < n
    <2>1. id + 1 \in 1..n /\ (id + 1) - 1 = id
        BY <1>6
    <2> QED
        BY <1>1, <1>3, <1>6, <2>1 DEF Leads
<1>7. CASE ~ (id < n) /\ id < n + m
    <2>1. \A i \in 1..d : (n + m + i) - 1 # id
        BY ONLY <1>7, n \in Nat, m \in Nat, d \in Nat, id \in Nat
    <2>2. (id - n) + 1 \in 1..m /\ (n + ((id - n) + 1)) - 1 = id
        BY ONLY <1>7, n \in Nat, m \in Nat, id \in Nat
    <2>3. \A x \in Items(delta.nodes) : x.id # id
        <3>1. \A i \in 1..d : delta.nodes[i].id # id
            BY ONLY <1>4, <2>1
        <3> QED
            BY ONLY <1>5, <3>1
    <2>4. \E x \in Items(drained.nodes) : x.id = id
        BY <1>4, <1>5, <2>2
    <2> QED
        BY <1>1, <1>7, <2>3, <2>4
<1>8. CASE ~ (id < n + m)
    <2>1. /\ (id - (n + m)) + 1 \in 1..d /\ (n + m + ((id - (n + m)) + 1)) - 1 = id /\ ~ (id < n)
        BY ONLY <1>2, <1>8, id < Len(issued), n \in Nat, m \in Nat, d \in Nat, id \in Nat
    <2>2. \E x \in Items(delta.nodes) : x.id = id
        BY <1>4, <1>5, <2>1
    <2>3. \A x \in Items(delta.nodes) : x.id = id => x.ent = issued[id + 1]
        <3>1. \A i \in 1..d : delta.nodes[i].id = id => delta.nodes[i].ent = issued[id + 1]
            BY ONLY <1>3 DEF Leads
        <3> QED
            BY ONLY <1>5, <3>1
    <2> QED
        BY <1>1, <2>1, <2>2, <2>3
<1> QED
    BY <1>6, <1>7, <1>8

\* GET /nodes/:id answers for every ID whose node was pushed with that node, or with
\* none while a merge holds it, as long as nothing was imported (get_node;
\* merge_into renumbers nothing).
THEOREM NodesKeepTheirIds ==
    ASSUME OneAtATime
    PROVE  Spec => []IdsKeepTheirNodes
<1>1. CatalogInv => IdsKeepTheirNodes
    <2> SUFFICES ASSUME CatalogInv, import.runs = 0, NEW k \in DOMAIN issued
                 PROVE  LET found == {n.ent : n \in Get(k - 1, graph, delta)}
                        IN  \/ found = {issued[k]}
                            \/ found = {} /\ \E n \in Items(drained.nodes) : n.id = k - 1
        BY DEF IdsKeepTheirNodes
    <2>1. ~ failed
        BY DEF CatalogInv, FullInv
    <2>2. PICK id \in Nat : id = k - 1 /\ id < Len(issued) /\ id + 1 = k
        <3>1. issued \in Seq(Names)
            BY DEF CatalogInv, StoreInv
        <3>2. k \in 1..Len(issued) /\ Len(issued) \in Nat
            BY <3>1
        <3>3. k - 1 \in Nat /\ k - 1 < Len(issued) /\ (k - 1) + 1 = k
            BY ONLY <3>2
        <3> QED
            BY <3>3
    <2>3. \/ id < Len(graph.nodes) /\ graph.nodes[id + 1].ent = issued[k]
          \/ /\ ~ (id < Len(graph.nodes)) /\ \A x \in Items(delta.nodes) : x.id # id
             /\ \E x \in Items(drained.nodes) : x.id = id
          \/ /\ ~ (id < Len(graph.nodes)) /\ \E x \in Items(delta.nodes) : x.id = id
             /\ \A x \in Items(delta.nodes) : x.id = id => x.ent = issued[k]
        BY <2>1, <2>2, HeldByPlace
    <2>4. Get(id, graph, delta) = IF id < Len(graph.nodes) THEN {graph.nodes[id + 1]}
                                  ELSE {n \in Items(delta.nodes) : n.id = id}
        BY DEF Get, NumNodes
    <2> QED
        BY ONLY <2>2, <2>3, <2>4
<1> QED
    BY <1>1, CatalogInvariant, PTL

\* An export holds the nodes that its reader met and the edges of the main graph
\* with the ends that their callers named, whatever merges cross it; without a merge
\* those of the buffer as well (collect_export_data resolves IDs by position).
THEOREM ExportsAreExact ==
    ASSUME OneAtATime
    PROVE  Spec => []ExportExact
<1>1. CatalogInv => ExportExact
    <2> SUFFICES ASSUME CatalogInv, read.active PROVE ExportExact
        BY DEF ExportExact
    <2> DEFINE main == AllEdges(read.graph)
               es == main \o delta.edges
               f == Export(read.graph, delta)
    <2>1. IsGraph(read.graph) /\ EndsTold(read.graph)
        BY DEF CatalogInv, ShapeInv, ReadInv
    <2>2. /\ main \in Seq(EdgeType) /\ EndsInRange(main, Len(read.graph.nodes))
          /\ delta.edges \in Seq(EdgeType)
        BY <2>1, GraphFacts, InvTypes
    <2>3. f.nodes = EntsOf(read.graph.nodes \o delta.nodes)
        BY DEF Export, EntsOf
    <2>4. f.edges = [k \in DOMAIN es |-> [from |-> ExportedName(read.graph, delta, es[k].from),
                                          to   |-> ExportedName(read.graph, delta, es[k].to),
                                          type |-> es[k].origin.type]]
        BY DEF Export
    <2> HIDE DEF f, main
    <2>5. /\ es \in Seq(EdgeType) /\ Len(es) = Len(main) + Len(delta.edges)
          /\ \A k \in 1..Len(main) : es[k] = main[k]
          /\ \A e : e \in Items(es) <=> e \in Items(main) \/ e \in Items(delta.edges)
        BY <2>2, ConcatItems
    <2>6. DOMAIN main \subseteq DOMAIN es /\ \A k \in DOMAIN main : es[k] = main[k]
        <3>1. DOMAIN main = 1..Len(main) /\ DOMAIN es = 1..Len(es) /\ Len(main) \in Nat
              /\ Len(delta.edges) \in Nat
            BY <2>2, <2>5
        <3> QED
            BY <2>5, <3>1
    <2> HIDE DEF es
    <2>7. ASSUME NEW k \in DOMAIN es,
                 ExportedName(read.graph, delta, es[k].from) = es[k].src,
                 ExportedName(read.graph, delta, es[k].to) = es[k].dst
          PROVE  ExportedEdge(k) = Said(es)[k]
        <3>1. f.edges[k] = [from |-> es[k].src, to |-> es[k].dst, type |-> es[k].origin.type]
            BY <2>4, <2>7
        <3>2. Said(es)[k] = [src |-> es[k].src, dst |-> es[k].dst, type |-> es[k].origin.type]
            BY DEF Said
        <3> QED
            BY <3>1, <3>2 DEF ExportedEdge, f
    <2>8. ASSUME NEW k \in DOMAIN main PROVE ExportedEdge(k) = Said(es)[k]
        <3>1. main[k] \in Items(main) /\ main[k] \in EdgeType
            BY <2>2 DEF Items
        <3>2. main[k].from \in Nat /\ main[k].to \in Nat
            BY <3>1 DEF EdgeType
        <3>3. main[k].from < Len(read.graph.nodes) /\ main[k].to < Len(read.graph.nodes)
            BY <2>2 DEF EndsInRange
        <3>4. /\ read.graph.nodes[main[k].from + 1].ent = main[k].src
              /\ read.graph.nodes[main[k].to + 1].ent = main[k].dst
            BY <2>1, <3>1 DEF EndsTold, main
        <3>5. /\ ExportedName(read.graph, delta, main[k].from) = main[k].src
              /\ ExportedName(read.graph, delta, main[k].to) = main[k].dst
            BY <3>3, <3>4 DEF ExportedName, NumNodes, NameOf
        <3> QED
            BY <2>6, <2>7, <3>5
    <2>9. ASSUME Quiet PROVE read.graph = graph /\ \A k \in DOMAIN es : ExportedEdge(k) = Said(es)[k]
        <3>1. read.graph = graph /\ ~ merging /\ ~ failed
            BY <2>9 DEF Quiet, CatalogInv, ReadInv
        <3>2. ASSUME NEW id \in Nat, NEW name, Leads(id, name)
              PROVE  ExportedName(graph, delta, id) = name
            <4>1. id < Len(issued) /\ issued[id + 1] = name
                <5>1. id + 1 \in 1..Len(issued) /\ Len(issued) \in Nat
                    BY <3>2 DEF Leads, CatalogInv, StoreInv
                <5> QED
                    BY <3>2, <5>1 DEF Leads
            <4>2. \/ /\ id < Len(graph.nodes)
                     /\ graph.nodes[id + 1].ent = issued[id + 1]
                  \/ /\ ~ (id < Len(graph.nodes)) /\ id - Len(graph.nodes) < Len(delta.nodes)
                     /\ delta.nodes[(id - Len(graph.nodes)) + 1].ent = issued[id + 1]
                BY <3>1, <4>1, FoundByPlace
            <4> QED
                BY <4>1, <4>2 DEF ExportedName, NumNodes, NameOf
        <3>3. ASSUME NEW k \in DOMAIN es PROVE ExportedEdge(k) = Said(es)[k]
            <4>1. es[k] \in EdgeType /\ es[k] \in Items(es)
                BY <2>5 DEF Items
            <4>2. Leads(es[k].from, es[k].src) /\ Leads(es[k].to, es[k].dst)
                BY <2>5, <3>1, <4>1 DEF CatalogInv, NameInv, NamesEnds, main
            <4>3. es[k].from \in Nat /\ es[k].to \in Nat
                BY <4>1 DEF EdgeType
            <4> QED
                BY <2>7, <3>1, <3>2, <4>2, <4>3
        <3> QED
            BY <3>1, <3>3
    <2>10. DOMAIN Said(es) = DOMAIN es
        BY DEF Said
    <2> QED
        BY <2>3, <2>8, <2>9, <2>10 DEF ExportExact, f, es, main
<1> QED
    BY <1>1, CatalogInvariant, PTL

\* The elements at all places are the sequence.
LEMMA AtEverywhere ==
    ASSUME NEW S, NEW s \in Seq(S)
    PROVE  At(s, DOMAIN s) = s
<1>1. DOMAIN s = 1..Len(s) /\ Len(s) \in Nat
    OBVIOUS
<1> DEFINE n == Len(s)
           upTo(i) == {j \in DOMAIN s : j <= i}
<1> HIDE DEF n
<1>2. Cardinality(DOMAIN s) = n
    BY <1>1, FirstFew DEF n
<1>3. ASSUME NEW i \in 1..n PROVE Cardinality(upTo(i)) = i
    <2>1. upTo(i) = 1..i
        BY <1>1, <1>3 DEF n
    <2>2. i \in Nat /\ 1 <= i /\ Cardinality(1..i) = i
        BY <1>3, FirstFew
    <2> QED
        BY <2>1, <2>2
<1> HIDE DEF upTo
<1>4. ASSUME NEW k \in 1..n PROVE (CHOOSE i \in DOMAIN s : Cardinality(upTo(i)) = k) = k
    <2>1. DOMAIN s = 1..n
        BY <1>1 DEF n
    <2>2. k \in DOMAIN s /\ Cardinality(upTo(k)) = k
        BY <1>3, <2>1
    <2>3. \A i \in DOMAIN s : Cardinality(upTo(i)) = k => i = k
        BY <1>3, <2>1
    <2> QED
        BY <2>2, <2>3
<1>5. At(s, DOMAIN s) = [k \in 1..n |-> s[CHOOSE i \in DOMAIN s : Cardinality(upTo(i)) = k]]
    BY <1>2 DEF At, upTo
<1>6. At(s, DOMAIN s) = [k \in 1..n |-> s[k]]
    BY <1>4, <1>5
<1>7. s = [k \in 1..n |-> s[k]]
    BY <1>1 DEF n
<1> QED
    BY <1>6, <1>7

LEMMA TakeProperties ==
    ASSUME NEW S, NEW s \in Seq(S), NEW n \in Nat
    PROVE  /\ Take(n, s) \in Seq(S) /\ Len(Take(n, s)) \in Nat
           /\ Len(Take(n, s)) <= n /\ Len(Take(n, s)) <= Len(s)
           /\ \A i \in 1..Len(Take(n, s)) : Take(n, s)[i] = s[i]
<1>1. PICK m \in Nat : m = (IF n < Len(s) THEN n ELSE Len(s))
    OBVIOUS
<1>2. m <= n /\ m <= Len(s) /\ Len(s) \in Nat
    BY <1>1
<1>3. Take(n, s) = SubSeq(s, 1, m)
    BY <1>1 DEF Take
<1>4. \A i \in 1..m : s[i] \in S
    BY <1>2
<1>5. /\ SubSeq(s, 1, m) \in Seq(S)
      /\ Len(SubSeq(s, 1, m)) = IF 1 <= m THEN (m - 1) + 1 ELSE 0
      /\ \A i \in 1..((m - 1) + 1) : SubSeq(s, 1, m)[i] = s[(1 + i) - 1]
    BY <1>4, SubSeqProperties
<1>6. Len(SubSeq(s, 1, m)) = m /\ \A i \in 1..m : SubSeq(s, 1, m)[i] = s[i]
    BY <1>5
<1> QED
    BY <1>2, <1>3, <1>5, <1>6

\* Where every occurrence in s can be sent to an occurrence in t, no two of them
\* to the same, s has x at most as often as t.
LEMMA TimesInjection ==
    ASSUME NEW S, NEW s \in Seq(S), NEW T, NEW t \in Seq(T), NEW x, NEW place,
           \A i \in 1..Len(s) : s[i] = x => place[i] \in 1..Len(t) /\ t[place[i]] = x,
           \A i, j \in 1..Len(s) : s[i] = x /\ s[j] = x /\ place[i] = place[j] => i = j
    PROVE  Times(s, x) <= Times(t, x)
<1> DEFINE A == {i \in DOMAIN s : s[i] = x}
           B == {i \in DOMAIN t : t[i] = x}
           f == [i \in A |-> place[i]]
<1>1. DOMAIN s = 1..Len(s) /\ DOMAIN t = 1..Len(t) /\ Len(t) \in Nat
    OBVIOUS
<1>2. f \in [A -> B]
    BY <1>1
<1>3. \A i, j \in A : f[i] = f[j] => i = j
    BY <1>1
<1>4. f \in Injection(A, B)
    BY <1>2, <1>3 DEF Injection, IsInjective
<1>5. IsFiniteSet(B)
    <2>1. IsFiniteSet(1..Len(t))
        BY <1>1, FirstFew
    <2>2. B \subseteq 1..Len(t)
        BY <1>1
    <2> QED
        BY <2>1, <2>2, FS_Subset
<1> HIDE DEF A, B, f
<1>6. Cardinality(A) <= Cardinality(B)
    BY <1>4, <1>5, FS_Injection
<1> QED
    BY <1>6 DEF Times, A, B

\* What the graph was built from.
BuiltFrom(g, es) ==
    /\ g = Build(g.nodes, es) /\ g.nodes \in Seq(NodeType) /\ Len(g.nodes) \in Nat
    /\ es \in Seq(EdgeType)
    /\ es \in Seq(EdgeSet(Names, [type : EdgeTypes, weight : Nat, dim : Dims]))
    /\ EndsInRange(es, Len(g.nodes)) /\ Inside(es, Len(g.nodes))

\* What neighbors and rev_neighbors read of it.
LEMMA NeighborsBuilt ==
    ASSUME NEW g, NEW es, BuiltFrom(g, es), NEW id \in Nat
    PROVE  /\ AreNeighbors(LinkSet(Names, [type : EdgeTypes, weight : Nat, dim : Dims]),
                           Neighbors(g, id), es, id)
           /\ AreSources(RevNeighbors(g, id), es, id)
<1> DEFINE Origins == [type : EdgeTypes, weight : Nat, dim : Dims]
           ns == g.nodes
<1>1. /\ g = Build(ns, es) /\ Len(ns) \in Nat
      /\ es \in Seq(EdgeSet(Names, Origins)) /\ Inside(es, Len(ns))
    BY DEF BuiltFrom
<1> HIDE DEF Origins, ns
<1>2. /\ AreNeighbors(LinkSet(Names, Origins), Neighbors(Build(ns, es), id), es, id)
      /\ AreSources(RevNeighbors(Build(ns, es), id), es, id)
    BY ONLY id \in Nat, <1>1, NeighborsAre
<1>3. /\ AreNeighbors(LinkSet(Names, Origins), Neighbors(g, id), es, id)
      /\ AreSources(RevNeighbors(g, id), es, id)
    BY ONLY <1>1, <1>2
<1> QED
    BY ONLY <1>3 DEF Origins

LEMMA GraphIsBuilt ==
    ASSUME NEW g, IsGraph(g)
    PROVE  \E es : BuiltFrom(g, es)
<1>1. PICK ns \in Seq(NodeType), es \in Seq(EdgeType) : g = Build(ns, es) /\ EndsInRange(es, Len(ns))
    BY DEF IsGraph
<1>2. g.nodes = ns
    BY <1>1, BuildFields
<1>3. Inside(es, Len(ns)) /\ Len(ns) \in Nat
    BY <1>1 DEF EndsInRange, Inside
<1>4. BuiltFrom(g, es)
    BY <1>1, <1>2, <1>3, EdgeTypeIs DEF BuiltFrom
<1> QED
    BY <1>4

LEMMA LimitType ==
    ASSUME CatalogInv
    PROVE  /\ NoLimit \in Nat /\ Len(graph.edges) \in Nat /\ Len(delta.edges) \in Nat
           /\ \A n, k \in Nat :
                 n <= Len(graph.edges) + Len(graph.edges) /\ k <= Len(delta.edges) + Len(delta.edges)
                    => n + k <= NoLimit
<1>1. PICK es : BuiltFrom(graph, es)
    BY GraphIsBuilt DEF CatalogInv, ShapeInv
<1>2. Len(graph.edges) = Len(es)
    <2>1. /\ graph = Build(graph.nodes, es) /\ Len(graph.nodes) \in Nat
          /\ es \in Seq(EdgeSet(Names, [type : EdgeTypes, weight : Nat, dim : Dims]))
        BY <1>1 DEF BuiltFrom
    <2> QED
        BY <2>1, BuildArrays
<1>3. Len(graph.edges) \in Nat
    BY <1>1, <1>2 DEF BuiltFrom
<1>4. Len(delta.edges) \in Nat /\ Len(graph.nodes) \in Nat /\ Len(delta.nodes) \in Nat
    BY InvTypes
<1>5. ASSUME NEW a \in Nat, NEW b \in Nat, NEW c \in Nat, NEW d \in Nat
      PROVE  /\ a + b + 2 * (c + d) \in Nat
             /\ \A n, k \in Nat : n <= c + c /\ k <= d + d => n + k <= a + b + 2 * (c + d)
    OBVIOUS
<1> QED
    BY <1>3, <1>4, <1>5 DEF NoLimit

\* What a search by name alone answers: nodes of the graph the reader saw and then
\* buffered nodes, each in their order.
LEMMA SearchLists ==
    ASSUME CatalogInv
    PROVE  \E a, b \in Nat :
              LET found == SearchByName(Names, NoLimit, read.graph, delta)
              IN  /\ a <= Len(read.graph.nodes) /\ b <= Len(delta.nodes)
                  /\ found \in Seq(NodeType) /\ Len(found) = a + b
                  /\ \A i \in 1..a : found[i] = read.graph.nodes[i]
                  /\ \A i \in 1..b : found[a + i] = delta.nodes[i]
<1> DEFINE p == read.graph.nodes
           q == delta.nodes
           Hits(nodes) == At(nodes, {i \in DOMAIN nodes : nodes[i].ent \in Names})
           found == SearchByName(Names, NoLimit, read.graph, delta)
<1>1. p \in Seq(NodeType) /\ q \in Seq(NodeType)
    BY InvTypes, GraphFacts DEF CatalogInv, ShapeInv
<1>2. ASSUME NEW s \in Seq(NodeType) PROVE Hits(s) = s
    <2>1. \A i \in DOMAIN s : s[i].ent \in Names
        <3>1. \A n \in NodeType : n.ent \in Names
            BY DEF NodeType
        <3>2. \A i \in DOMAIN s : s[i] \in NodeType
            OBVIOUS
        <3> QED
            BY <3>1, <3>2
    <2>2. {i \in DOMAIN s : s[i].ent \in Names} = DOMAIN s
        BY <2>1
    <2> QED
        BY <2>2, AtEverywhere
<1>3. found = Listed(NoLimit, Hits(p), Hits(q))
    BY DEF SearchByName, Selected
<1> HIDE DEF Hits
<1>4. found = Listed(NoLimit, p, q)
    BY <1>1, <1>2, <1>3
<1> DEFINE u == Take(NoLimit, p)
           v == Take(NoLimit - Len(u), q)
<1>5. found = u \o v
    BY <1>4 DEF Listed
<1>6. NoLimit \in Nat
    BY LimitType
<1> HIDE DEF p, q, found
<1>7. /\ u \in Seq(NodeType) /\ Len(u) \in Nat /\ Len(u) <= NoLimit /\ Len(u) <= Len(p)
      /\ \A i \in 1..Len(u) : u[i] = p[i]
    BY <1>1, <1>6, TakeProperties
<1> HIDE DEF u
<1>8. NoLimit - Len(u) \in Nat
    BY <1>6, <1>7
<1>9. /\ v \in Seq(NodeType) /\ Len(v) \in Nat /\ Len(v) <= Len(q)
      /\ \A i \in 1..Len(v) : v[i] = q[i]
    BY <1>1, <1>8, TakeProperties
<1> HIDE DEF v
<1>10. /\ u \o v \in Seq(NodeType) /\ Len(u \o v) = Len(u) + Len(v)
       /\ \A i \in 1..Len(u) : (u \o v)[i] = u[i]
       /\ \A i \in 1..Len(v) : (u \o v)[Len(u) + i] = v[i]
    BY <1>7, <1>9, ConcatItems
<1>11. /\ Len(u) <= Len(p) /\ Len(v) <= Len(q)
       /\ found \in Seq(NodeType) /\ Len(found) = Len(u) + Len(v)
       /\ \A i \in 1..Len(u) : found[i] = p[i]
       /\ \A i \in 1..Len(v) : found[Len(u) + i] = q[i]
    BY <1>5, <1>7, <1>9, <1>10
<1> QED
    BY <1>7, <1>9, <1>11 DEF p, q, found

\* A search lists a node at most once, also when a merge moves the node from the
\* delta to the graph between the two halves of the search, dies or runs beside
\* an import (search_nodes drops its guard of the graph before it reads the delta).
THEOREM NoNodeIsListedTwice ==
    ASSUME OneAtATime
    PROVE  Spec => []NoNodeTwice
<1>1. CatalogInv => NoNodeTwice
    <2> SUFFICES ASSUME CatalogInv, read.active, NEW name \in Names
                 PROVE  Times(EntsOf(SearchByName(Names, NoLimit, read.graph, delta)), name)
                            <= Times(issued, name)
        BY DEF NoNodeTwice
    <2> DEFINE found == SearchByName(Names, NoLimit, read.graph, delta)
               p == read.graph.nodes
               q == delta.nodes
    <2>1. PICK a, b \in Nat :
              /\ a <= Len(p) /\ b <= Len(q)
              /\ found \in Seq(NodeType) /\ Len(found) = a + b
              /\ \A i \in 1..a : found[i] = p[i]
              /\ \A i \in 1..b : found[a + i] = q[i]
        BY SearchLists
    <2> HIDE DEF found
    <2> DEFINE ents == EntsOf(found)
               place == [i \in 1..(a + b) |-> IF i <= a THEN i ELSE q[i - a].id + 1]
    <2>2. ents \in Seq(Names) /\ Len(ents) = a + b /\ \A i \in 1..(a + b) : ents[i] = found[i].ent
        <3>1. DOMAIN found = 1..(a + b) /\ \A i \in 1..(a + b) : found[i] \in NodeType
            BY <2>1
        <3>2. ents \in [1..(a + b) -> Names] /\ \A i \in 1..(a + b) : ents[i] = found[i].ent
            BY <3>1 DEF EntsOf, NodeType
        <3>3. a + b \in Nat
            OBVIOUS
        <3> HIDE DEF ents
        <3> QED
            BY <3>2, <3>3, DefinedSeq
    <2>3. /\ Extends(p, graph.nodes) /\ NamesNodes(graph.nodes) /\ NamesNodes(q)
          /\ issued \in Seq(Names) /\ Len(issued) \in Nat
          /\ p \in Seq(NodeType) /\ q \in Seq(NodeType)
        <3>1. Extends(p, graph.nodes)
            BY DEF CatalogInv, ReadInv
        <3>2. NamesNodes(graph.nodes) /\ NamesNodes(q)
            BY DEF CatalogInv, NameInv
        <3>3. issued \in Seq(Names) /\ Len(issued) \in Nat
            BY DEF CatalogInv, StoreInv
        <3>4. IsGraph(read.graph)
            BY DEF CatalogInv, ShapeInv
        <3>5. p \in Seq(NodeType)
            BY <3>4, GraphFacts
        <3>6. q \in Seq(NodeType)
            BY InvTypes
        <3> QED
            BY <3>1, <3>2, <3>3, <3>5, <3>6
    <2>4. PICK g, l \in Nat : g = Len(graph.nodes) /\ l = Len(p)
        <3>1. Len(graph.nodes) \in Nat
            BY InvTypes
        <3>2. Len(p) \in Nat
            <4> HIDE DEF p
            <4> QED
                BY <2>3
        <3> QED
            BY <3>1, <3>2
    <2>5. ASSUME NEW i \in 1..a
          PROVE  i \in 1..Len(issued) /\ issued[i] = found[i].ent /\ i <= g
        <3>1. i \in 1..l /\ i \in 1..g
            BY <2>1, <2>3, <2>4 DEF Extends
        <3>2. p[i] = graph.nodes[i] /\ graph.nodes[i].id = i - 1
            BY <2>3, <2>4, <3>1, InvTypes DEF Extends
        <3>3. Leads(i - 1, found[i].ent)
            BY <2>1, <2>3, <2>4, <3>1, <3>2 DEF NamesNodes
        <3>4. (i - 1) + 1 = i
            BY <3>1
        <3> QED
            BY <3>1, <3>3, <3>4 DEF Leads
    <2>6. ASSUME NEW j \in 1..b
          PROVE  /\ q[j].id \in Nat /\ q[j].id >= g
                 /\ q[j].id + 1 \in 1..Len(issued) /\ issued[q[j].id + 1] = q[j].ent
        <3>1. j \in 1..Len(q)
            BY <2>1, <2>3
        <3>2. q[j] \in NodeType /\ Leads(q[j].id, q[j].ent)
            BY <2>3, <3>1 DEF NamesNodes
        <3>3. q[j].id >= g
            BY <2>4, <3>1 DEF CatalogInv, PlaceInv
        <3> QED
            BY <3>2, <3>3 DEF Leads, NodeType
    <2>7. ASSUME NEW i \in 1..(a + b), ~ (i <= a)
          PROVE  i - a \in 1..b /\ found[i] = q[i - a] /\ place[i] = q[i - a].id + 1
        <3>1. i - a \in 1..b /\ a + (i - a) = i
            BY <2>7
        <3> QED
            BY <2>1, <2>7, <3>1
    <2>8. ASSUME NEW i \in 1..(a + b), i <= a
          PROVE  i \in 1..a /\ place[i] = i
        BY <2>8
    <2> HIDE DEF place, ents, q, p
    <2>9. \A i \in 1..(a + b) : place[i] \in 1..Len(issued) /\ issued[place[i]] = ents[i]
        <3> SUFFICES ASSUME NEW i \in 1..(a + b)
                     PROVE  place[i] \in 1..Len(issued) /\ issued[place[i]] = ents[i]
            OBVIOUS
        <3>1. CASE i <= a
            BY <2>2, <2>5, <2>8, <3>1
        <3>2. CASE ~ (i <= a)
            <4>1. i - a \in 1..b /\ found[i] = q[i - a] /\ place[i] = q[i - a].id + 1
                BY <2>7, <3>2
            <4> QED
                BY <2>2, <2>6, <4>1
        <3> QED
            BY <3>1, <3>2
    <2>10. \A i, j \in 1..(a + b) : place[i] = place[j] => i = j
        <3> SUFFICES ASSUME NEW i \in 1..(a + b), NEW j \in 1..(a + b), place[i] = place[j]
                     PROVE  i = j
            OBVIOUS
        <3>1. CASE i <= a /\ j <= a
            BY <2>8, <3>1
        <3>2. ASSUME NEW x \in 1..(a + b), x <= a, NEW y \in 1..(a + b), ~ (y <= a)
              PROVE  place[x] # place[y]
            <4>1. place[x] = x /\ x <= g
                BY <2>5, <2>8, <3>2
            <4>2. y - a \in 1..b /\ place[y] = q[y - a].id + 1
                BY <2>7, <3>2
            <4>3. q[y - a].id \in Nat /\ q[y - a].id >= g
                BY <2>6, <4>2
            <4> QED
                BY <4>1, <4>2, <4>3
        <3>3. CASE ~ (i <= a) /\ ~ (j <= a)
            <4>1. i - a \in 1..b /\ place[i] = q[i - a].id + 1 /\ q[i - a].id \in Nat
                BY <2>6, <2>7, <3>3
            <4>2. j - a \in 1..b /\ place[j] = q[j - a].id + 1 /\ q[j - a].id \in Nat
                BY <2>6, <2>7, <3>3
            <4>3. \A x, y \in Nat : x + 1 = y + 1 => x = y
                OBVIOUS
            <4>4. q[i - a].id = q[j - a].id
                BY <3>3, <4>1, <4>2, <4>3, Zenon
            <4>5. PICK m \in Nat : m = Len(q) /\ b <= m
                BY <2>1, <2>3
            <4>6. i - a \in 1..m /\ j - a \in 1..m
                BY ONLY <4>1, <4>2, <4>5, b \in Nat
            <4>7. i - a = j - a
                BY <4>4, <4>5, <4>6 DEF CatalogInv, PlaceInv, q
            <4> QED
                BY <4>7
        <3> QED
            BY <3>1, <3>2, <3>3
    <2>11. \A i \in 1..Len(ents) : ents[i] = name =>
              place[i] \in 1..Len(issued) /\ issued[place[i]] = name
        BY <2>2, <2>9
    <2>12. \A i, j \in 1..Len(ents) : ents[i] = name /\ ents[j] = name /\ place[i] = place[j] => i = j
        BY <2>2, <2>10
    <2>13. Times(ents, name) <= Times(issued, name)
        BY <2>2, <2>3, <2>11, <2>12, TimesInjection
    <2> QED
        BY <2>13 DEF ents, found
<1> QED
    BY <1>1, CatalogInvariant, PTL
(***************************************************************************)
(* What a search by relation walks: the neighbours of a node.              *)
(***************************************************************************)
\* An edge of a type links a node to another in the direction that is asked for.
Links(es, root, id, dir, type) ==
    \E e \in Items(es) :
        /\ OfType(type, e)
        /\ \/ dir # "in" /\ e.from = root /\ e.to = id
           \/ dir # "out" /\ e.to = root /\ e.from = id

\* near are those nodes, at most two for each of m edges.
IsNear(near, es, root, dir, type, m) ==
    /\ near \in Seq(Nat) /\ Len(near) <= m + m
    /\ \A x : x \in Items(near) <=> Links(es, root, x, dir, type)

\* out are the nodes that edges of the type lead to, in those they come from.
IsWays(out, in, es, root, type, m) ==
    /\ out \in Seq(Nat) /\ Len(out) <= m /\ in \in Seq(Nat) /\ Len(in) <= m
    /\ \A x : x \in Items(out) <=> \E e \in Items(es) : OfType(type, e) /\ e.from = root /\ e.to = x
    /\ \A x : x \in Items(in) <=> \E e \in Items(es) : OfType(type, e) /\ e.to = root /\ e.from = x

LEMMA TowardIs ==
    ASSUME NEW m \in Nat, NEW es, NEW root, NEW type, NEW dir \in Directions,
           NEW out, NEW in, IsWays(out, in, es, root, type, m)
    PROVE  IsNear(Toward(dir, out, in), es, root, dir, type, m)
<1>1. /\ out \in Seq(Nat) /\ Len(out) <= m /\ in \in Seq(Nat) /\ Len(in) <= m
      /\ \A x : x \in Items(out) <=> \E e \in Items(es) : OfType(type, e) /\ e.from = root /\ e.to = x
      /\ \A x : x \in Items(in) <=> \E e \in Items(es) : OfType(type, e) /\ e.to = root /\ e.from = x
    BY DEF IsWays
<1>2. Len(out) \in Nat /\ Len(in) \in Nat
    BY <1>1
<1>3. Len(out) <= m + m /\ Len(in) <= m + m
    BY <1>1, <1>2
<1>4. CASE dir = "out"
    <2>1. Toward(dir, out, in) = out
        BY <1>4 DEF Toward
    <2> QED
        BY <1>1, <1>3, <1>4, <2>1 DEF IsNear, Links
<1>5. CASE dir = "in"
    <2>1. Toward(dir, out, in) = in
        BY <1>5 DEF Toward
    <2> QED
        BY <1>1, <1>3, <1>5, <2>1 DEF IsNear, Links
<1>6. CASE dir = "both"
    <2> DEFINE places == {i \in DOMAIN in : in[i] \notin Items(out)}
               rest == At(in, places)
    <2>1. Toward(dir, out, in) = out \o rest
        BY <1>6 DEF Toward, Both, Selected
    <2>2. DOMAIN in = 1..Len(in)
        BY <1>1
    <2>3. places \subseteq 1..Len(in)
        BY <2>2
    <2>4. \A x : x \in {in[i] : i \in places} <=> x \in Items(in) /\ x \notin Items(out)
        BY DEF Items
    <2> HIDE DEF places
    <2>5. Cardinality(places) \in Nat /\ Cardinality(places) <= Len(in)
        BY <1>2, <2>3, Positions
    <2>6. rest \in Seq(Nat) /\ Len(rest) = Cardinality(places) /\ Items(rest) = {in[i] : i \in places}
        <3>1. in \in Seq(Nat)
            BY <1>1
        <3> QED
            BY ONLY <2>3, <3>1, AtProperties, AtItems
    <2> HIDE DEF rest
    <2>7. /\ out \o rest \in Seq(Nat) /\ Len(out \o rest) = Len(out) + Len(rest)
          /\ \A x : x \in Items(out \o rest) <=> x \in Items(out) \/ x \in Items(rest)
        <3>1. out \in Seq(Nat) /\ rest \in Seq(Nat)
            BY <1>1, <2>6
        <3> QED
            BY ONLY <3>1, ConcatItems
    <2>8. Len(out \o rest) <= m + m
        BY <1>1, <1>2, <2>5, <2>6, <2>7
    <2>9. \A x : x \in Items(out \o rest) <=> x \in Items(out) \/ x \in Items(in)
        BY <2>4, <2>6, <2>7
    <2>10. ASSUME NEW x PROVE x \in Items(out \o rest) <=> Links(es, root, x, dir, type)
        BY <1>1, <1>6, <2>9 DEF Links
    <2> QED
        BY <2>1, <2>7, <2>8, <2>10 DEF IsNear
<1> QED
    BY <1>4, <1>5, <1>6 DEF Directions

\* ids are the ends of the edges at some places of a list.
AreEnds(ids, end, es, places) ==
    /\ ids \in Seq(Nat) /\ Len(ids) <= Len(es)
    /\ \A x : x \in Items(ids) <=> \E i \in places : x = end[es[i]]

LEMMA EndsAt ==
    ASSUME NEW T, NEW es \in Seq(T), NEW places, places \subseteq 1..Len(es),
           NEW end \in [T -> Nat], NEW ids, ids = [k \in DOMAIN At(es, places) |-> end[At(es, places)[k]]]
    PROVE  AreEnds(ids, end, es, places)
<1> DEFINE kept == At(es, places)
<1>1. kept \in Seq(T) /\ Len(kept) = Cardinality(places) /\ Items(kept) = {es[i] : i \in places}
    BY AtProperties, AtItems
<1>2. Cardinality(places) <= Len(es) /\ Cardinality(places) \in Nat
    <2>1. Len(es) \in Nat
        OBVIOUS
    <2> QED
        BY <2>1, Positions
<1>3. ids = [k \in DOMAIN kept |-> end[kept[k]]]
    OBVIOUS
<1> HIDE DEF kept
<1>4. DOMAIN kept = 1..Len(kept) /\ Len(kept) \in Nat /\ \A k \in 1..Len(kept) : kept[k] \in T
    BY <1>1
<1>5. ids \in [1..Len(kept) -> Nat]
    BY <1>3, <1>4
<1>6. ids \in Seq(Nat) /\ Len(ids) = Len(kept) /\ DOMAIN ids = 1..Len(kept)
    BY <1>4, <1>5, DefinedSeq
<1>7. ASSUME NEW x PROVE x \in Items(ids) <=> \E e \in Items(kept) : x = end[e]
    BY <1>3, <1>4, <1>6 DEF Items
<1>8. \A e : e \in Items(kept) <=> \E i \in places : e = es[i]
    BY <1>1
<1>9. ASSUME NEW x PROVE x \in Items(ids) <=> \E i \in places : x = end[es[i]]
    <2>1. x \in Items(ids) <=> \E e \in Items(kept) : x = end[e]
        BY <1>7
    <2> QED
        BY ONLY <1>8, <2>1
<1> QED
    BY <1>1, <1>2, <1>6, <1>9 DEF AreEnds

LEMMA DeltaWays ==
    ASSUME NEW d, d.edges \in Seq(EdgeType), NEW root
    PROVE  IsWays(DeltaOutgoing(d, root), DeltaIncoming(d, root), d.edges, root, {}, Len(d.edges))
<1> DEFINE es == d.edges
           froms == {i \in DOMAIN es : es[i].from = root}
           tos == {i \in DOMAIN es : es[i].to = root}
           to == [e \in EdgeType |-> e.to]
           from == [e \in EdgeType |-> e.from]
<1>1. /\ DeltaOutgoing(d, root) = [k \in DOMAIN At(es, froms) |-> At(es, froms)[k].to]
      /\ DeltaIncoming(d, root) = [k \in DOMAIN At(es, tos) |-> At(es, tos)[k].from]
    BY DEF DeltaOutgoing, DeltaIncoming, Selected
<1>2. to \in [EdgeType -> Nat] /\ from \in [EdgeType -> Nat]
    BY DEF EdgeType
<1>3. es \in Seq(EdgeType) /\ DOMAIN es = 1..Len(es) /\ \A i \in DOMAIN es : es[i] \in EdgeType
    OBVIOUS
<1> HIDE DEF es
<1>4. froms \subseteq 1..Len(es) /\ tos \subseteq 1..Len(es)
    BY <1>3
<1>5. At(es, froms) \in Seq(EdgeType) /\ At(es, tos) \in Seq(EdgeType)
    BY <1>3, <1>4, AtProperties
<1>6. /\ DeltaOutgoing(d, root) = [k \in DOMAIN At(es, froms) |-> to[At(es, froms)[k]]]
      /\ DeltaIncoming(d, root) = [k \in DOMAIN At(es, tos) |-> from[At(es, tos)[k]]]
    <2>1. /\ \A k \in DOMAIN At(es, froms) : At(es, froms)[k] \in EdgeType
          /\ \A k \in DOMAIN At(es, tos) : At(es, tos)[k] \in EdgeType
        <3> HIDE DEF froms, tos
        <3> QED
            BY <1>5
    <2> QED
        BY <1>1, <2>1
<1>7. /\ \A i \in froms : to[es[i]] = es[i].to
      /\ \A i \in tos : from[es[i]] = es[i].from
    BY <1>3
<1>8. /\ \A e : e \in Items(es) /\ e.from = root <=> \E i \in froms : e = es[i]
      /\ \A e : e \in Items(es) /\ e.to = root <=> \E i \in tos : e = es[i]
    BY DEF Items
<1> HIDE DEF froms, tos, to, from
<1>9. AreEnds(DeltaOutgoing(d, root), to, es, froms)
    BY <1>2, <1>3, <1>4, <1>6, EndsAt
<1>10. AreEnds(DeltaIncoming(d, root), from, es, tos)
    BY <1>2, <1>3, <1>4, <1>6, EndsAt
<1>11. \A e : OfType({}, e)
    BY DEF OfType, Admits
<1>12. ASSUME NEW x
       PROVE  x \in Items(DeltaOutgoing(d, root))
                <=> \E e \in Items(es) : OfType({}, e) /\ e.from = root /\ e.to = x
    BY <1>7, <1>8, <1>9, <1>11 DEF AreEnds
<1>13. ASSUME NEW x
       PROVE  x \in Items(DeltaIncoming(d, root))
                <=> \E e \in Items(es) : OfType({}, e) /\ e.to = root /\ e.from = x
    BY <1>7, <1>8, <1>10, <1>11 DEF AreEnds
<1> QED
    BY <1>9, <1>10, <1>12, <1>13 DEF AreEnds, IsWays, es

\* There are no more neighbours than edges.
LEMMA NeighborCounts ==
    ASSUME NEW g, NEW es, BuiltFrom(g, es), NEW id \in Nat
    PROVE  /\ Len(Neighbors(g, id)) <= Len(g.edges) /\ Len(RevNeighbors(g, id)) <= Len(g.edges)
           /\ Len(g.edges) \in Nat
<1> DEFINE n == Len(g.nodes)
           Origins == [type : EdgeTypes, weight : Nat, dim : Dims]
<1>1. g = Build(g.nodes, es) /\ n \in Nat /\ es \in Seq(EdgeSet(Names, Origins))
    BY DEF BuiltFrom
<1>2. Sources(es) \in Seq(Nat) /\ Len(Sources(es)) = Len(es)
    BY <1>1, SourcesOfEdges
<1>3. /\ g.edges \in Seq(LinkSet(Names, Origins)) /\ Len(g.edges) = Len(es)
      /\ Targets(es) \in Seq(Nat) /\ Len(Targets(es)) = Len(es)
      /\ g.revOffsets = Offsets(n, Targets(es))
      /\ g.revEdges \in Seq(Nat) /\ Len(g.revEdges) = Len(es)
    BY <1>1, BuildArrays
<1>4. g.offsets = Offsets(n, Sources(es))
    BY <1>1, BuildFields
<1> HIDE DEF n, Origins
<1>5. Len(Neighbors(g, id)) <= Len(g.edges)
    BY <1>1, <1>2, <1>3, <1>4, SliceOnce DEF Neighbors
<1>6. Len(RevNeighbors(g, id)) <= Len(g.revEdges)
    BY <1>1, <1>3, SliceOnce DEF RevNeighbors
<1>7. Len(g.edges) \in Nat
    BY <1>3
<1> QED
    BY <1>3, <1>5, <1>6, <1>7

LEMMA GraphWays ==
    ASSUME NEW g, NEW es, BuiltFrom(g, es), NEW root \in Nat, NEW type
    PROVE  IsWays(Outgoing(g, root, type), Incoming(g, root, type), AllEdges(g), root, type,
                  Len(g.edges))
<1> DEFINE n == Len(g.nodes)
           Origins == [type : EdgeTypes, weight : Nat, dim : Dims]
           L == LinkSet(Names, Origins)
           near == Neighbors(g, root)
           back == RevNeighbors(g, root)
           typed == {i \in DOMAIN near : OfType(type, near[i])}
           fits == {i \in DOMAIN back : EdgeTypeMatches(g, back[i], root, type)}
           to == [e \in L |-> e.to]
<1>1. g = Build(g.nodes, es) /\ n \in Nat /\ es \in Seq(EdgeSet(Names, Origins)) /\ Inside(es, n)
    BY DEF BuiltFrom
<1>2. \A e : e \in Items(AllEdges(g)) <=> e \in Items(es)
    BY <1>1, BuiltSame
<1>3. near \in Seq(L) /\ \A x : x \in Items(near) <=> \E e \in Items(es) : e.from = root /\ x = Targetless(e)
    <2>1. AreNeighbors(L, near, es, root)
        BY NeighborsBuilt
    <2> QED
        BY ONLY <2>1 DEF AreNeighbors
<1>4. back \in Seq(Nat) /\ \A x : x \in Items(back) <=> \E e \in Items(es) : e.to = root /\ x = e.from
    <2>1. AreSources(back, es, root)
        BY NeighborsBuilt
    <2> QED
        BY ONLY <2>1 DEF AreSources
<1>5. Len(near) <= Len(g.edges) /\ Len(back) <= Len(g.edges) /\ Len(g.edges) \in Nat
    BY NeighborCounts
<1>6. ASSUME NEW from \in Nat
      PROVE  \A x : x \in Items(Between(g, from, root))
                       <=> \E e \in LinksOf(es, from, root) : x = Targetless(e)
    BY <1>1, BetweenOf
<1>7. \A e : Targetless(e).origin = e.origin /\ Targetless(e).to = e.to
    BY DEF Targetless
<1>8. \A e : OfType(type, Targetless(e)) <=> OfType(type, e)
    BY <1>7 DEF OfType
<1>9. /\ Outgoing(g, root, type) = [k \in DOMAIN At(near, typed) |-> At(near, typed)[k].to]
      /\ Incoming(g, root, type) = At(back, fits)
    BY DEF Outgoing, Incoming, Selected
<1>10. /\ \A x : x \in Items(near) /\ OfType(type, x) <=> \E i \in typed : x = near[i]
       /\ \A x : x \in Items(back) /\ EdgeTypeMatches(g, x, root, type) <=> x \in {back[i] : i \in fits}
    BY DEF Items
<1>11. to \in [L -> Nat] /\ \A x \in L : to[x] = x.to
    BY DEF LinkSet
<1>12. typed \subseteq 1..Len(near) /\ fits \subseteq 1..Len(back)
    <2> HIDE DEF near, back
    <2>1. DOMAIN near = 1..Len(near) /\ DOMAIN back = 1..Len(back)
        BY <1>3, <1>4
    <2> QED
        BY <2>1
<1> HIDE DEF n, L, near, back, typed, fits, to, Origins
<1>13. At(near, typed) \in Seq(L) /\ Items(At(near, typed)) = {near[i] : i \in typed}
    BY <1>3, <1>12, AtProperties, AtItems
<1>14. /\ At(back, fits) \in Seq(Nat) /\ Len(At(back, fits)) = Cardinality(fits)
       /\ Items(At(back, fits)) = {back[i] : i \in fits}
    <2>1. back \in Seq(Nat) /\ fits \subseteq 1..Len(back)
        BY <1>4, <1>12
    <2> QED
        BY ONLY <2>1, AtProperties, AtItems
<1>15. Len(back) \in Nat /\ Len(near) \in Nat /\ \A i \in DOMAIN near : near[i] \in L
    BY <1>3, <1>4
<1>16. Cardinality(fits) <= Len(back) /\ Cardinality(fits) \in Nat
    BY <1>12, <1>15, Positions
<1>17. AreEnds(Outgoing(g, root, type), to, near, typed)
    <2>1. \A k \in DOMAIN At(near, typed) : At(near, typed)[k] \in L
        BY <1>13
    <2>2. Outgoing(g, root, type) = [k \in DOMAIN At(near, typed) |-> to[At(near, typed)[k]]]
        BY <1>9, <1>11, <2>1
    <2> QED
        BY <1>3, <1>11, <1>12, <2>2, EndsAt
<1>18. /\ Outgoing(g, root, type) \in Seq(Nat) /\ Len(Outgoing(g, root, type)) <= Len(near)
       /\ Incoming(g, root, type) \in Seq(Nat) /\ Len(Incoming(g, root, type)) <= Len(back)
    BY <1>9, <1>14, <1>16, <1>17 DEF AreEnds
<1>19. /\ Len(Outgoing(g, root, type)) <= Len(g.edges)
       /\ Len(Incoming(g, root, type)) <= Len(g.edges)
    <2>1. Len(Outgoing(g, root, type)) \in Nat /\ Len(Incoming(g, root, type)) \in Nat
        BY <1>18
    <2> QED
        BY <1>5, <1>15, <1>18, <2>1
<1>20. ASSUME NEW x
       PROVE  x \in Items(Outgoing(g, root, type))
                <=> \E e \in Items(AllEdges(g)) : OfType(type, e) /\ e.from = root /\ e.to = x
    <2>1. x \in Items(Outgoing(g, root, type)) <=> \E i \in typed : x = to[near[i]]
        BY <1>17 DEF AreEnds
    <2>2. \A i \in typed : near[i] \in L
        BY <1>12, <1>15, <1>3
    <2>3. (\E i \in typed : x = to[near[i]]) <=> \E i \in typed : x = near[i].to
        BY <1>11, <2>2
    <2>4. (\E i \in typed : x = near[i].to) <=> \E y \in Items(near) : OfType(type, y) /\ x = y.to
        BY <1>10
    <2>5. (\E y \in Items(near) : OfType(type, y) /\ x = y.to)
            <=> \E e \in Items(es) : OfType(type, e) /\ e.from = root /\ e.to = x
        BY <1>3, <1>7, <1>8
    <2> QED
        BY <1>2, <2>1, <2>3, <2>4, <2>5
<1>21. ASSUME NEW x
       PROVE  x \in Items(Incoming(g, root, type))
                <=> \E e \in Items(AllEdges(g)) : OfType(type, e) /\ e.to = root /\ e.from = x
    <2>1. x \in Items(Incoming(g, root, type)) <=> x \in Items(back) /\ EdgeTypeMatches(g, x, root, type)
        BY <1>9, <1>10, <1>14
    <2>2. \A e \in Items(es) : e.from \in Nat
        <3>1. \A e \in Items(es) : e \in EdgeSet(Names, Origins)
            BY <1>1, ItemsOf
        <3> QED
            BY <3>1 DEF EdgeSet
    <2>3. ASSUME x \in Nat
          PROVE  EdgeTypeMatches(g, x, root, type) <=>
                    type = {} \/ \E e \in Items(es) : OfType(type, e) /\ e.to = root /\ e.from = x
        <3>1. \A y : y \in Items(Between(g, x, root))
                        <=> \E e \in LinksOf(es, x, root) : y = Targetless(e)
            BY <1>6, <2>3
        <3>2. (\E y \in Items(Between(g, x, root)) : OfType(type, y))
                 <=> \E e \in LinksOf(es, x, root) : OfType(type, e)
            BY <1>8, <3>1
        <3> QED
            BY <3>2 DEF EdgeTypeMatches, LinksOf
    <2>4. type = {} => \A e : OfType(type, e)
        BY DEF OfType, Admits
    <2>5. x \in Items(back) <=> \E e \in Items(es) : e.to = root /\ x = e.from
        BY <1>4
    <2> QED
        BY <1>2, <2>1, <2>2, <2>3, <2>4, <2>5
<1> QED
    BY <1>18, <1>19, <1>20, <1>21 DEF IsWays

\* What a caller gets when the limit stops nothing.
LEMMA ListedAll ==
    ASSUME NEW S, NEW p \in Seq(S), NEW q \in Seq(S), NEW limit \in Nat, Len(p) + Len(q) <= limit
    PROVE  Listed(limit, p, q) = p \o q
<1>1. Len(p) \in Nat /\ Len(q) \in Nat
    OBVIOUS
<1>2. ASSUME NEW s \in Seq(S), NEW n \in Nat, Len(s) <= n PROVE Take(n, s) = s
    <2>1. Len(s) \in Nat
        OBVIOUS
    <2>2. Take(n, s) = SubSeq(s, 1, Len(s))
        BY <1>2, <2>1 DEF Take
    <2>3. SubSeq(s, 1, Len(s)) = s
        BY <1>2
    <2> QED
        BY <2>2, <2>3
<1>3. Take(limit, p) = p
    BY <1>1, <1>2
<1>4. limit - Len(p) \in Nat /\ Len(q) <= limit - Len(p)
    BY <1>1
<1>5. Take(limit - Len(p), q) = q
    BY <1>2, <1>4
<1> QED
    BY <1>3, <1>5 DEF Listed

\* t holds the nodes at some indices of the graph.
AreNodesAt(t, nodes, near) ==
    /\ At(t, {i \in DOMAIN t : t[i].ent \in Names}) = t
    /\ t \in Seq(NodeType) /\ Len(t) = Len(near)
    /\ \A n : n \in Items(t) <=> \E x \in Items(near) : n = nodes[x + 1]

LEMMA NodesAt ==
    ASSUME NEW nodes \in Seq(NodeType), NEW near \in Seq(Nat),
           \A x \in Items(near) : x < Len(nodes),
           NEW t, t = [k \in DOMAIN near |-> nodes[near[k] + 1]]
    PROVE  AreNodesAt(t, nodes, near)
<1>1. DOMAIN near = 1..Len(near) /\ Len(near) \in Nat /\ Len(nodes) \in Nat
    OBVIOUS
<1>2. ASSUME NEW k \in 1..Len(near) PROVE nodes[near[k] + 1] \in NodeType
    <2>1. near[k] \in Nat /\ near[k] < Len(nodes)
        <3>1. k \in DOMAIN near
            BY <1>1
        <3>2. near[k] \in Items(near)
            BY ONLY <3>1 DEF Items
        <3>3. near[k] \in Nat
            OBVIOUS
        <3> QED
            BY <3>2, <3>3
    <2>2. near[k] + 1 \in 1..Len(nodes)
        BY <1>1, <2>1
    <2> QED
        BY <2>2
<1>3. t \in [1..Len(near) -> NodeType]
    BY <1>1, <1>2
<1>4. t \in Seq(NodeType) /\ Len(t) = Len(near) /\ DOMAIN t = 1..Len(near)
    BY <1>1, <1>3, DefinedSeq
<1>5. {i \in DOMAIN t : t[i].ent \in Names} = DOMAIN t
    <2>1. \A i \in DOMAIN t : t[i] \in NodeType
        BY <1>4
    <2> QED
        BY <2>1 DEF NodeType
<1>6. At(t, DOMAIN t) = t
    BY <1>4, AtEverywhere
<1>7. ASSUME NEW n PROVE n \in Items(t) <=> \E x \in Items(near) : n = nodes[x + 1]
    <2>1. \A k \in DOMAIN t : k \in DOMAIN near /\ t[k] = nodes[near[k] + 1]
        BY ONLY <1>1, <1>4, t = [k \in DOMAIN near |-> nodes[near[k] + 1]]
    <2>2. \A k \in DOMAIN near : k \in DOMAIN t
        BY ONLY <1>1, <1>4
    <2> QED
        BY ONLY <2>1, <2>2 DEF Items
<1> QED
    BY <1>4, <1>5, <1>6, <1>7 DEF AreNodesAt

WithIds(nodes, ids) == [k \in DOMAIN ids |-> CHOOSE n \in Items(nodes) : n.id = ids[k]]

\* t holds the buffered nodes of some IDs, which tell them apart.
AreNodesWith(t, nodes, ids) ==
    /\ t \in Seq(NodeType) /\ Len(t) = Len(ids)
    /\ \A n : n \in Items(t) <=> n \in Items(nodes) /\ n.id \in Items(ids)

LEMMA NodesWith ==
    ASSUME NEW nodes \in Seq(NodeType), NEW ids \in Seq(Nat),
           \A n, m \in Items(nodes) : n.id = m.id => n = m,
           \A x \in Items(ids) : \E n \in Items(nodes) : n.id = x
    PROVE  AreNodesWith(WithIds(nodes, ids), nodes, ids)
<1> DEFINE t == WithIds(nodes, ids)
<1>1. DOMAIN ids = 1..Len(ids) /\ Len(ids) \in Nat
    OBVIOUS
<1>2. ASSUME NEW k \in 1..Len(ids) PROVE t[k] \in Items(nodes) /\ t[k].id = ids[k]
    <2>1. \E n \in Items(nodes) : n.id = ids[k]
        BY <1>1 DEF Items
    <2>2. t[k] = CHOOSE n \in Items(nodes) : n.id = ids[k]
        BY <1>1 DEF WithIds
    <2> QED
        BY <2>1, <2>2
<1>3. \A n \in Items(nodes) : n \in NodeType
    BY ItemsOf
<1>4. t \in [1..Len(ids) -> NodeType]
    BY <1>1, <1>2, <1>3 DEF WithIds
<1> HIDE DEF t
<1>5. t \in Seq(NodeType) /\ Len(t) = Len(ids) /\ DOMAIN t = 1..Len(ids)
    BY <1>1, <1>4, DefinedSeq
<1>6. ASSUME NEW n PROVE n \in Items(t) <=> n \in Items(nodes) /\ n.id \in Items(ids)
    <2>1. n \in Items(t) <=> \E k \in 1..Len(ids) : n = t[k]
        BY <1>5 DEF Items
    <2>2. n.id \in Items(ids) <=> \E k \in 1..Len(ids) : n.id = ids[k]
        BY <1>1 DEF Items
    <2>3. ASSUME NEW k \in 1..Len(ids), n = t[k] PROVE n \in Items(nodes) /\ n.id = ids[k]
        BY <1>2, <2>3
    <2>4. ASSUME NEW k \in 1..Len(ids), n.id = ids[k], n \in Items(nodes) PROVE n = t[k]
        BY <1>2, <2>4
    <2> QED
        BY ONLY <2>1, <2>2, <2>3, <2>4
<1> QED
    BY <1>5, <1>6 DEF AreNodesWith, t

EdgeSeen(es, root, id, type) ==
    type = {} \/ \E e \in Items(es) : {e.from, e.to} = {root, id} /\ OfType(type, e)

\* IDs tell buffered nodes apart.
LEMMA BufferedOnce ==
    ASSUME CatalogInv
    PROVE  \A n, m \in Items(delta.nodes) : n.id = m.id => n = m
<1>1. \A n \in Items(delta.nodes) : \E i \in 1..Len(delta.nodes) : n = delta.nodes[i]
    BY InvTypes, ItemsOf
<1>2. \A i, j \in 1..Len(delta.nodes) : delta.nodes[i].id = delta.nodes[j].id => i = j
    BY DEF CatalogInv, PlaceInv
<1> QED
    BY <1>1, <1>2

\* What the search finds in the graph.
NearInGraph(root, dir, type) == Toward(dir, Outgoing(graph, root, type), Incoming(graph, root, type))

FoundInGraph(near) == [k \in DOMAIN near |-> graph.nodes[near[k] + 1]]

AreGraphHits(t, root, dir, type) ==
    /\ At(t, {i \in DOMAIN t : t[i].ent \in Names}) = t
    /\ t \in Seq(NodeType) /\ Len(t) <= Len(graph.edges) + Len(graph.edges)
    /\ \A n : n \in Items(t) <=>
          \E x \in Nat : /\ Links(AllEdges(graph), root, x, dir, type)
                         /\ n = graph.nodes[x + 1]

LEMMA GraphHits ==
    ASSUME CatalogInv, NEW root \in Nat, NEW type, NEW dir \in Directions
    PROVE  AreGraphHits(FoundInGraph(NearInGraph(root, dir, type)), root, dir, type)
<1> DEFINE near == NearInGraph(root, dir, type)
           t == FoundInGraph(near)
<1>1. PICK es : BuiltFrom(graph, es)
    BY GraphIsBuilt DEF CatalogInv, ShapeInv
<1>2. IsWays(Outgoing(graph, root, type), Incoming(graph, root, type), AllEdges(graph), root, type,
             Len(graph.edges))
    BY <1>1, GraphWays
<1>3. Len(graph.edges) \in Nat
    BY LimitType
<1>4. IsNear(near, AllEdges(graph), root, dir, type, Len(graph.edges))
    BY <1>2, <1>3, TowardIs DEF NearInGraph
<1> HIDE DEF near
<1>0. t = [k \in DOMAIN near |-> graph.nodes[near[k] + 1]]
    BY DEF FoundInGraph
<1> HIDE DEF t
<1>5. /\ near \in Seq(Nat) /\ Len(near) <= Len(graph.edges) + Len(graph.edges)
      /\ \A x : x \in Items(near) <=> Links(AllEdges(graph), root, x, dir, type)
    BY <1>4 DEF IsNear
<1>6. \A x \in Items(near) : x \in Nat /\ x < Len(graph.nodes)
    <2> SUFFICES ASSUME NEW x \in Items(near) PROVE x \in Nat /\ x < Len(graph.nodes)
        OBVIOUS
    <2>1. PICK e \in Items(AllEdges(graph)) : x = e.from \/ x = e.to
        BY <1>5 DEF Links
    <2>2. PICK i \in DOMAIN AllEdges(graph) : e = AllEdges(graph)[i]
        BY DEF Items
    <2>3. e.from < Len(graph.nodes) /\ e.to < Len(graph.nodes)
        BY <2>2, InvTypes DEF EndsInRange
    <2>4. x \in Nat
        BY <1>5, ItemsOf
    <2> QED
        BY <2>1, <2>3, <2>4
<1>7. graph.nodes \in Seq(NodeType)
    BY InvTypes
<1>8. AreNodesAt(t, graph.nodes, near)
    BY <1>0, <1>5, <1>6, <1>7, NodesAt
<1>9. ASSUME NEW n
      PROVE  n \in Items(t) <=>
                 \E x \in Nat : /\ Links(AllEdges(graph), root, x, dir, type)
                                /\ n = graph.nodes[x + 1]
    BY <1>5, <1>6, <1>8 DEF AreNodesAt
<1> QED
    BY <1>5, <1>8, <1>9 DEF AreNodesAt, AreGraphHits, t, near

\* What it finds in the buffer.
NearInDelta(root, dir) == Toward(dir, DeltaOutgoing(delta, root), DeltaIncoming(delta, root))

BufferedPlaces(near, root, type) ==
    {i \in DOMAIN near : /\ \E n \in Items(delta.nodes) : n.id = near[i] /\ n.ent \in Names
                         /\ EdgeSeen(delta.edges, root, near[i], type)}

FoundInDelta(near, root, type) == WithIds(delta.nodes, At(near, BufferedPlaces(near, root, type)))

AreDeltaHits(t, root, dir, type) ==
    /\ t \in Seq(NodeType) /\ Len(t) <= Len(delta.edges) + Len(delta.edges)
    /\ \A n : n \in Items(t) <=> /\ n \in Items(delta.nodes)
                                 /\ Links(delta.edges, root, n.id, dir, {})
                                 /\ EdgeSeen(delta.edges, root, n.id, type)

LEMMA DeltaHits ==
    ASSUME CatalogInv, NEW root \in Nat, NEW type, NEW dir \in Directions
    PROVE  AreDeltaHits(FoundInDelta(NearInDelta(root, dir), root, type), root, dir, type)
<1> DEFINE near == NearInDelta(root, dir)
           places == BufferedPlaces(near, root, type)
           buffered == At(near, places)
           t == WithIds(delta.nodes, buffered)
<1>1. delta.edges \in Seq(EdgeType) /\ delta.nodes \in Seq(NodeType)
    BY InvTypes
<1>2. IsWays(DeltaOutgoing(delta, root), DeltaIncoming(delta, root), delta.edges, root, {},
             Len(delta.edges))
    BY <1>1, DeltaWays
<1>3. Len(delta.edges) \in Nat
    BY LimitType
<1>4. IsNear(near, delta.edges, root, dir, {}, Len(delta.edges))
    BY <1>2, <1>3, TowardIs DEF NearInDelta
<1> HIDE DEF near
<1>0. places = {i \in DOMAIN near : /\ \E n \in Items(delta.nodes) : n.id = near[i] /\ n.ent \in Names
                                    /\ EdgeSeen(delta.edges, root, near[i], type)}
    BY DEF BufferedPlaces
<1> HIDE DEF places
<1>5. /\ near \in Seq(Nat) /\ Len(near) <= Len(delta.edges) + Len(delta.edges)
      /\ \A x : x \in Items(near) <=> Links(delta.edges, root, x, dir, {})
    BY <1>4 DEF IsNear
<1>6. Len(near) \in Nat /\ DOMAIN near = 1..Len(near)
    <2>1. near \in Seq(Nat)
        BY <1>5
    <2> QED
        BY ONLY <2>1
<1>7. places \subseteq 1..Len(near)
    BY <1>0, <1>6
<1>8. Cardinality(places) \in Nat /\ Cardinality(places) <= Len(near)
    BY <1>6, <1>7, Positions
<1>9. /\ buffered \in Seq(Nat) /\ Len(buffered) = Cardinality(places)
      /\ Items(buffered) = {near[i] : i \in places}
    <2>1. near \in Seq(Nat)
        BY <1>5
    <2>2. /\ At(near, places) \in Seq(Nat) /\ Len(At(near, places)) = Cardinality(places)
          /\ Items(At(near, places)) = {near[i] : i \in places}
        BY ONLY <1>7, <2>1, AtProperties, AtItems
    <2> QED
        BY <2>2
<1> HIDE DEF buffered
<1>10. \A n \in Items(delta.nodes) : n.ent \in Names
    <2>1. \A n \in Items(delta.nodes) : n \in NodeType
        BY <1>1, ItemsOf
    <2> QED
        BY <2>1 DEF NodeType
<1>11. ASSUME NEW x
       PROVE  x \in Items(buffered) <=> /\ x \in Items(near)
                                        /\ \E n \in Items(delta.nodes) : n.id = x
                                        /\ EdgeSeen(delta.edges, root, x, type)
    <2>1. x \in Items(buffered) <=> \E i \in places : x = near[i]
        BY <1>9
    <2>2. x \in Items(near) <=> \E i \in DOMAIN near : x = near[i]
        BY DEF Items
    <2> QED
        BY <1>0, <1>10, <2>1, <2>2
<1>12. AreNodesWith(t, delta.nodes, buffered)
    <2>1. \A x \in Items(buffered) : \E n \in Items(delta.nodes) : n.id = x
        BY <1>11
    <2>2. buffered \in Seq(Nat)
        BY <1>9
    <2>3. \A n, m \in Items(delta.nodes) : n.id = m.id => n = m
        BY BufferedOnce
    <2> QED
        BY <1>1, <2>1, <2>2, <2>3, NodesWith
<1> HIDE DEF t
<1>13. Len(t) <= Len(delta.edges) + Len(delta.edges)
    BY ONLY <1>3, <1>5, <1>6, <1>8, <1>9, <1>12 DEF AreNodesWith
<1>14. ASSUME NEW n
       PROVE  n \in Items(t) <=> /\ n \in Items(delta.nodes)
                                 /\ Links(delta.edges, root, n.id, dir, {})
                                 /\ EdgeSeen(delta.edges, root, n.id, type)
    BY <1>5, <1>11, <1>12 DEF AreNodesWith
<1> QED
    BY <1>12, <1>13, <1>14
        DEF AreNodesWith, AreDeltaHits, FoundInDelta, t, buffered, places, near

\* What a search by relation finds, when it saw the graph as it is.
LEMMA RelatedIs ==
    ASSUME CatalogInv, NEW root \in Nat, NEW type, NEW dir \in Directions
    PROVE  \A name : name \in Items(EntsOf(SearchRelated(root, dir, type, Names, NoLimit, graph, delta)))
              <=> \/ \E x \in Nat : /\ Links(AllEdges(graph), root, x, dir, type)
                                    /\ name = graph.nodes[x + 1].ent
                  \/ \E n \in Items(delta.nodes) : /\ Links(delta.edges, root, n.id, dir, {})
                                                   /\ EdgeSeen(delta.edges, root, n.id, type)
                                                   /\ name = n.ent
<1> DEFINE t == FoundInGraph(NearInGraph(root, dir, type))
           u == FoundInDelta(NearInDelta(root, dir), root, type)
           kept == At(t, {i \in DOMAIN t : t[i].ent \in Names})
           found == SearchRelated(root, dir, type, Names, NoLimit, graph, delta)
<1>1. found = Listed(NoLimit, kept, u)
    BY DEF SearchRelated, Selected, EdgeSeen, FoundInGraph, NearInGraph, FoundInDelta, NearInDelta,
           BufferedPlaces, WithIds
<1>a. AreGraphHits(t, root, dir, type) /\ AreDeltaHits(u, root, dir, type)
    BY GraphHits, DeltaHits
<1> HIDE DEF t, u, found
<1>2. /\ kept = t
      /\ t \in Seq(NodeType) /\ Len(t) <= Len(graph.edges) + Len(graph.edges)
      /\ \A n : n \in Items(t) <=>
            \E x \in Nat : /\ Links(AllEdges(graph), root, x, dir, type)
                           /\ n = graph.nodes[x + 1]
    BY <1>a DEF AreGraphHits
<1>3. /\ u \in Seq(NodeType) /\ Len(u) <= Len(delta.edges) + Len(delta.edges)
      /\ \A n : n \in Items(u) <=> /\ n \in Items(delta.nodes)
                                   /\ Links(delta.edges, root, n.id, dir, {})
                                   /\ EdgeSeen(delta.edges, root, n.id, type)
    BY <1>a DEF AreDeltaHits
<1> HIDE DEF kept
<1>4. Len(t) \in Nat /\ Len(u) \in Nat
    BY <1>2, <1>3
<1>5. Len(t) + Len(u) <= NoLimit /\ NoLimit \in Nat
    BY <1>2, <1>3, <1>4, LimitType
<1>6. found = t \o u
    BY <1>1, <1>2, <1>3, <1>5, ListedAll
<1>7. found \in Seq(NodeType) /\ \A n : n \in Items(found) <=> n \in Items(t) \/ n \in Items(u)
    BY <1>2, <1>3, <1>6, ConcatItems
<1>8. \A name : name \in Items(EntsOf(found)) <=> \E n \in Items(found) : name = n.ent
    BY DEF EntsOf, Items
<1>9. SUFFICES ASSUME NEW name
      PROVE  name \in Items(EntsOf(found))
              <=> \/ \E x \in Nat : /\ Links(AllEdges(graph), root, x, dir, type)
                                    /\ name = graph.nodes[x + 1].ent
                  \/ \E n \in Items(delta.nodes) : /\ Links(delta.edges, root, n.id, dir, {})
                                                   /\ EdgeSeen(delta.edges, root, n.id, type)
                                                   /\ name = n.ent
    BY DEF found
<1>10. name \in Items(EntsOf(found))
        <=> (\E n \in Items(t) : name = n.ent) \/ \E n \in Items(u) : name = n.ent
    BY <1>7, <1>8
<1>11. (\E n \in Items(t) : name = n.ent)
        <=> \E x \in Nat : /\ Links(AllEdges(graph), root, x, dir, type)
                           /\ name = graph.nodes[x + 1].ent
    BY <1>2
<1>12. (\E n \in Items(u) : name = n.ent)
        <=> \E n \in Items(delta.nodes) : /\ Links(delta.edges, root, n.id, dir, {})
                                          /\ EdgeSeen(delta.edges, root, n.id, type)
                                          /\ name = n.ent
    BY <1>3
<1> QED
    BY <1>10, <1>11, <1>12

(***************************************************************************)
(* Names.  Where each name was given once, edges join the nodes that bear  *)
(* the names their callers used.                                           *)
(***************************************************************************)
\* A sequence without repetition has each element at one place.
LEMMA DistinctOnce ==
    ASSUME NEW S, NEW s \in Seq(S), Distinct(s)
    PROVE  \A i, j \in 1..Len(s) : s[i] = s[j] => i = j
<1> DEFINE n == Len(s)
<1>1. DOMAIN s = 1..n /\ n \in Nat
    OBVIOUS
<1>2. s \in [1..n -> Items(s)] /\ \A x \in Items(s) : \E i \in 1..n : s[i] = x
    BY <1>1 DEF Items
<1>3. s \in Surjection(1..n, Items(s))
    BY <1>2 DEF Surjection
<1>4. IsFiniteSet(1..n) /\ Cardinality(1..n) = n
    BY <1>1, FirstFew
<1>5. Cardinality(Items(s)) = n
    BY DEF Distinct
<1> HIDE DEF n
<1>6. s \in Injection(1..n, Items(s))
    BY <1>3, <1>4, <1>5, FS_SurjSameCardinalityImpliesInj
<1> QED
    BY <1>6 DEF Injection, IsInjective, n

\* Between merges, graph and buffer hold what was ever created.
LEMMA NothingIsLost ==
    ASSUME CatalogInv, ~ merging, ~ failed
    PROVE  EntsOf(graph.nodes \o delta.nodes) = issued
<1>1. ~ merging /\ ~ failed
    OBVIOUS
<1> DEFINE p == graph.nodes
           q == delta.nodes
<1>2. p \in Seq(NodeType) /\ q \in Seq(NodeType) /\ Len(p) \in Nat /\ Len(q) \in Nat
    BY InvTypes
<1>3. Len(p) + Len(q) = Len(issued) /\ issued \in Seq(Names)
    <2>1. drained = Empty
        BY <1>1 DEF CatalogInv, PlaceInv
    <2>2. Len(drained.nodes) = 0
        BY <2>1, EmptyType
    <2>3. Len(p) + Len(drained.nodes) + Len(q) = Len(issued)
        BY <1>1 DEF CatalogInv, PlaceInv
    <2>4. issued \in Seq(Names)
        BY DEF CatalogInv, StoreInv
    <2>5. \A a, b \in Nat : a + 0 + b = a + b
        OBVIOUS
    <2>6. Len(p) + 0 + Len(q) = Len(issued)
        BY <2>2, <2>3, Zenon
    <2> QED
        BY ONLY <1>2, <2>4, <2>5, <2>6, Zenon
<1>4. ASSUME NEW i \in 1..Len(issued)
      PROVE  \/ i \in 1..Len(p) /\ p[i].ent = issued[i]
             \/ i - Len(p) \in 1..Len(q) /\ q[i - Len(p)].ent = issued[i]
    <2>1. i - 1 \in Nat /\ i - 1 < Len(issued) /\ (i - 1) + 1 = i /\ ((i - 1) - Len(p)) + 1 = i - Len(p)
        BY <1>2
    <2> DEFINE id == i - 1
    <2> HIDE DEF id
    <2>2. id \in Nat /\ id < Len(issued) /\ id + 1 = i /\ (id - Len(p)) + 1 = i - Len(p)
        BY <2>1 DEF id
    <2>3. \/ id + 1 \in 1..Len(p) /\ p[id + 1].ent = issued[id + 1]
          \/ /\ (id - Len(p)) + 1 \in 1..Len(q)
             /\ q[(id - Len(p)) + 1].ent = issued[id + 1]
        BY <1>1, <2>2, FoundByPlace
    <2> HIDE DEF p, q
    <2> QED
        BY <2>2, <2>3
<1> HIDE DEF p, q
<1>5. /\ p \o q \in Seq(NodeType) /\ Len(p \o q) = Len(p) + Len(q)
      /\ \A i \in 1..Len(p) : (p \o q)[i] = p[i]
      /\ \A i \in 1..Len(q) : (p \o q)[Len(p) + i] = q[i]
    BY <1>2, ConcatItems
<1>6. ASSUME NEW i \in 1..Len(issued) PROVE (p \o q)[i].ent = issued[i]
    <2>1. CASE i \in 1..Len(p) /\ p[i].ent = issued[i]
        BY <1>5, <2>1
    <2>2. CASE i - Len(p) \in 1..Len(q) /\ q[i - Len(p)].ent = issued[i]
        <3>1. Len(p) + (i - Len(p)) = i
            BY <1>2
        <3> QED
            BY <1>5, <2>2, <3>1
    <2> QED
        BY <1>4, <2>1, <2>2
<1>7. DOMAIN (p \o q) = 1..Len(issued) /\ DOMAIN issued = 1..Len(issued)
    BY <1>3, <1>5
<1>8. EntsOf(p \o q) = [i \in 1..Len(issued) |-> issued[i]]
    BY <1>6, <1>7 DEF EntsOf
<1>9. issued = [i \in 1..Len(issued) |-> issued[i]]
    BY <1>3, <1>7
<1> QED
    BY <1>8, <1>9 DEF p, q

\* The reader's graph is the graph.
LEMMA QuietState ==
    ASSUME CatalogInv, Quiet
    PROVE  /\ read.graph = graph /\ ~ merging /\ ~ failed
           /\ EntsOf(graph.nodes \o delta.nodes) = issued
<1>1. read.graph = graph /\ ~ merging /\ ~ failed
    BY DEF Quiet, CatalogInv, ReadInv
<1> QED
    BY <1>1, NothingIsLost

\* Every ID has one name, and where names were given once every name one ID.
LEMMA NamedOnce ==
    ASSUME CatalogInv, Distinct(issued)
    PROVE  \A x, y : \A i, j \in Nat : Leads(i, x) /\ Leads(j, y) => (x = y <=> i = j)
<1> SUFFICES ASSUME NEW i \in Nat, NEW j \in Nat, NEW x, NEW y, Leads(i, x), Leads(j, y)
             PROVE  x = y <=> i = j
    OBVIOUS
<1>1. i + 1 \in 1..Len(issued) /\ issued[i + 1] = x /\ j + 1 \in 1..Len(issued) /\ issued[j + 1] = y
    BY DEF Leads
<1>2. issued \in Seq(Names)
    BY DEF CatalogInv, StoreInv
<1>3. x = y => i + 1 = j + 1
    BY <1>1, <1>2, DistinctOnce
<1>4. i + 1 = j + 1 => i = j
    OBVIOUS
<1> QED
    BY <1>1, <1>3, <1>4

\* The ends of the graph's edges and the nodes that bear their names.
LEMMA EndsNamed ==
    ASSUME CatalogInv, NEW e \in Items(AllEdges(graph))
    PROVE  /\ e.from \in Nat /\ e.to \in Nat
           /\ Leads(e.from, e.src) /\ Leads(e.to, e.dst)
           /\ e.from + 1 \in 1..Len(graph.nodes) /\ e.to + 1 \in 1..Len(graph.nodes)
           /\ graph.nodes[e.from + 1].ent = e.src /\ graph.nodes[e.to + 1].ent = e.dst
<1>1. PICK k \in DOMAIN AllEdges(graph) : e = AllEdges(graph)[k]
    BY DEF Items
<1>2. e \in EdgeType
    BY InvTypes, ItemsOf
<1>3. e.from \in Nat /\ e.to \in Nat
    BY <1>2 DEF EdgeType
<1>4. Leads(e.from, e.src) /\ Leads(e.to, e.dst)
    BY DEF CatalogInv, NameInv, NamesEnds
<1>5. e.from < Len(graph.nodes) /\ e.to < Len(graph.nodes) /\ Len(graph.nodes) \in Nat
    BY <1>1, InvTypes DEF EndsInRange
<1>6. ASSUME NEW id \in Nat, id < Len(graph.nodes), NEW x, Leads(id, x)
      PROVE  id + 1 \in 1..Len(graph.nodes) /\ graph.nodes[id + 1].ent = x
    <2>1. id + 1 \in 1..Len(graph.nodes) /\ (id + 1) - 1 = id
        BY <1>5, <1>6
    <2>2. graph.nodes[id + 1].id = id
        BY <2>1, InvTypes
    <2>3. Leads(id, graph.nodes[id + 1].ent)
        BY <2>1, <2>2 DEF CatalogInv, NameInv, NamesNodes
    <2> QED
        BY <1>6, <2>1, <2>3 DEF Leads
<1> QED
    BY <1>3, <1>4, <1>5, <1>6

LEMMA NodeNamed ==
    ASSUME CatalogInv, NEW root \in Ids
    PROVE  /\ root \in Nat /\ root + 1 \in 1..Len(graph.nodes)
           /\ Leads(root, NameOf(graph.nodes, root))
           /\ graph.nodes[root + 1].id = root
<1>1. PICK n \in Items(graph.nodes) : root = n.id
    BY DEF Ids
<1>2. PICK i \in 1..Len(graph.nodes) : n = graph.nodes[i]
    <2>1. graph.nodes \in Seq(NodeType)
        BY InvTypes
    <2> QED
        BY <2>1, ItemsOf
<1>3. n.id = i - 1 /\ i \in Nat
    BY <1>2, InvTypes
<1>4. root \in Nat /\ root + 1 = i
    BY <1>1, <1>2, <1>3
<1>5. Leads(n.id, n.ent)
    BY <1>2 DEF CatalogInv, NameInv, NamesNodes
<1> QED
    BY <1>1, <1>2, <1>4, <1>5 DEF NameOf

SaidOf(e) == [src |-> e.src, dst |-> e.dst, type |-> e.origin.type]
SaidType == [src : Names, dst : Names, type : EdgeTypes]

LEMMA SaidItems ==
    ASSUME NEW es \in Seq(EdgeType)
    PROVE  /\ Said(es) \in Seq(SaidType) /\ Len(Said(es)) = Len(es)
           /\ \A k \in 1..Len(es) : Said(es)[k] = SaidOf(es[k])
           /\ \A x : x \in Items(Said(es)) <=> \E e \in Items(es) : x = SaidOf(e)
<1>1. DOMAIN es = 1..Len(es) /\ Len(es) \in Nat /\ \A k \in 1..Len(es) : es[k] \in EdgeType
    OBVIOUS
<1>2. Said(es) = [k \in 1..Len(es) |-> SaidOf(es[k])]
    BY <1>1 DEF Said, SaidOf
<1>3. \A e \in EdgeType : SaidOf(e) \in SaidType
    BY DEF EdgeType, SaidType, SaidOf
<1>4. Said(es) \in [1..Len(es) -> SaidType]
    BY <1>1, <1>2, <1>3
<1>5. Said(es) \in Seq(SaidType) /\ Len(Said(es)) = Len(es) /\ DOMAIN Said(es) = 1..Len(es)
    BY <1>1, <1>4, DefinedSeq
<1>6. \A k \in 1..Len(es) : Said(es)[k] = SaidOf(es[k])
    BY <1>2
<1> QED
    BY <1>1, <1>5, <1>6 DEF Items

\* What callers said links x to y.
SaidLink(e, x, y, dir, type) ==
    /\ OfType(type, e)
    /\ \/ dir # "in" /\ e.src = x /\ e.dst = y
       \/ dir # "out" /\ e.dst = x /\ e.src = y

LEMMA NearOf ==
    ASSUME NEW es \in Seq(EdgeType), NEW fs \in Seq(EdgeType), NEW x, NEW dir, NEW type
    PROVE  /\ \A y : y \in Near(Said(es), x, dir, type)
                        <=> \E e \in Items(es) : SaidLink(e, x, y, dir, type)
           /\ \A y : y \in Near(Said(es) \o Said(fs), x, dir, type)
                        <=> \E e : (e \in Items(es) \/ e \in Items(fs)) /\ SaidLink(e, x, y, dir, type)
<1>1. /\ Said(es) \in Seq(SaidType) /\ \A z : z \in Items(Said(es)) <=> \E e \in Items(es) : z = SaidOf(e)
      /\ Said(fs) \in Seq(SaidType) /\ \A z : z \in Items(Said(fs)) <=> \E e \in Items(fs) : z = SaidOf(e)
    BY SaidItems
<1>2. \A z : z \in Items(Said(es) \o Said(fs)) <=> z \in Items(Said(es)) \/ z \in Items(Said(fs))
    BY <1>1, ConcatItems
<1>3. ASSUME NEW said, NEW y
      PROVE  y \in Near(said, x, dir, type) <=>
                \E z \in Items(said) : /\ Admits(type, z.type)
                                       /\ \/ dir # "in" /\ z.src = x /\ z.dst = y
                                          \/ dir # "out" /\ z.dst = x /\ z.src = y
    <2> DEFINE A == {e \in Items(said) : dir # "in" /\ e.src = x /\ Admits(type, e.type)}
               B == {e \in Items(said) : dir # "out" /\ e.dst = x /\ Admits(type, e.type)}
    <2>1. Near(said, x, dir, type) = {e.dst : e \in A} \cup {e.src : e \in B}
        BY DEF Near
    <2> QED
        BY <2>1
<1>4. \A e, y : SaidLink(e, x, y, dir, type) <=>
          /\ Admits(type, SaidOf(e).type)
          /\ \/ dir # "in" /\ SaidOf(e).src = x /\ SaidOf(e).dst = y
             \/ dir # "out" /\ SaidOf(e).dst = x /\ SaidOf(e).src = y
    BY DEF SaidLink, SaidOf, OfType
<1>5. ASSUME NEW y
      PROVE  y \in Near(Said(es), x, dir, type) <=> \E e \in Items(es) : SaidLink(e, x, y, dir, type)
    BY <1>1, <1>3, <1>4
<1>6. ASSUME NEW y
      PROVE  y \in Near(Said(es) \o Said(fs), x, dir, type)
                <=> \E e : (e \in Items(es) \/ e \in Items(fs)) /\ SaidLink(e, x, y, dir, type)
    <2>1. y \in Near(Said(es) \o Said(fs), x, dir, type) <=>
                \E z : /\ z \in Items(Said(es)) \/ z \in Items(Said(fs))
                       /\ Admits(type, z.type)
                       /\ \/ dir # "in" /\ z.src = x /\ z.dst = y
                          \/ dir # "out" /\ z.dst = x /\ z.src = y
        BY <1>2, <1>3
    <2> QED
        BY ONLY <1>1, <1>4, <2>1
<1> QED
    BY <1>5, <1>6

\* Without a merge under way, search_nodes by relation lists what callers linked to
\* a node of the main graph in the direction and with the type asked for, as long as
\* the buffered edges of the node lead to buffered nodes and join no two nodes in
\* both directions.
THEOREM RelatedSearchesAreExact ==
    ASSUME OneAtATime
    PROVE  Spec => []RelatedSearchExact
<1>1. CatalogInv => RelatedSearchExact
    <2> SUFFICES ASSUME CatalogInv, Quiet, Distinct(EntsOf(graph.nodes \o delta.nodes)),
                        OneWayEach, NEW root \in Ids, LeadsToBuffered(NameOf(graph.nodes, root)),
                        NEW dir \in Directions, NEW type \in Optional(EdgeTypes)
                 PROVE  RelatedFound(root, dir, type)
                            = Near(SaidOfAll, NameOf(graph.nodes, root), dir, type)
        BY DEF RelatedSearchExact
    <2> DEFINE es == AllEdges(graph)
               fs == delta.edges
               x == NameOf(graph.nodes, root)
               found == Items(EntsOf(SearchRelated(root, dir, type, Names, NoLimit, graph, delta)))
    <2>1. read.graph = graph /\ ~ merging /\ ~ failed /\ Distinct(issued)
        BY QuietState
    <2>2. root \in Nat /\ root + 1 \in 1..Len(graph.nodes) /\ Leads(root, x)
        BY NodeNamed
    <2>3. \A name : name \in found
              <=> \/ \E y \in Nat : Links(es, root, y, dir, type) /\ name = graph.nodes[y + 1].ent
                  \/ \E n \in Items(delta.nodes) : /\ Links(fs, root, n.id, dir, {})
                                                   /\ EdgeSeen(fs, root, n.id, type)
                                                   /\ name = n.ent
        BY <2>2, RelatedIs
    <2>4. es \in Seq(EdgeType) /\ fs \in Seq(EdgeType)
        BY InvTypes
    <2>17. /\ \A e \in Items(fs) : /\ e.src = x => e.dst \in Items(EntsOf(delta.nodes))
                                   /\ e.dst = x => e.src \in Items(EntsOf(delta.nodes))
           /\ \A e, f \in Items(fs) : ~ (e.src = f.dst /\ e.dst = f.src)
        BY DEF LeadsToBuffered, OneWayEach
    <2> HIDE DEF es, fs, x, found
    <2>5. \A d, t, y : y \in Near(Said(es), x, d, t) <=> \E e \in Items(es) : SaidLink(e, x, y, d, t)
        BY <2>4, NearOf
    <2>6. \A d, t, y : y \in Near(Said(fs), x, d, t) <=> \E e \in Items(fs) : SaidLink(e, x, y, d, t)
        BY <2>4, NearOf
    <2>7. \A d, t, y : y \in Near(Said(es) \o Said(fs), x, d, t)
              <=> \E e : (e \in Items(es) \/ e \in Items(fs)) /\ SaidLink(e, x, y, d, t)
        BY <2>4, NearOf
    <2>8. \A a, b : \A i, j \in Nat : Leads(i, a) /\ Leads(j, b) => (a = b <=> i = j)
        BY <2>1, NamedOnce
    <2>9. \A e \in Items(es) :
              /\ e.from \in Nat /\ e.to \in Nat /\ Leads(e.from, e.src) /\ Leads(e.to, e.dst)
              /\ graph.nodes[e.from + 1].ent = e.src /\ graph.nodes[e.to + 1].ent = e.dst
        BY EndsNamed DEF es
    <2>10. \A e \in Items(fs) :
              e.from \in Nat /\ e.to \in Nat /\ Leads(e.from, e.src) /\ Leads(e.to, e.dst)
        <3>1. \A e \in Items(fs) : e \in EdgeType
            BY <2>4, ItemsOf
        <3>2. \A e \in Items(fs) : Leads(e.from, e.src) /\ Leads(e.to, e.dst)
            BY DEF CatalogInv, NameInv, NamesEnds, fs
        <3> QED
            BY <3>1, <3>2 DEF EdgeType
    <2>11. \A n \in Items(delta.nodes) : n.id \in Nat /\ Leads(n.id, n.ent)
        <3>1. delta.nodes \in Seq(NodeType)
            BY InvTypes
        <3>2. \A n \in Items(delta.nodes) : n \in NodeType /\ \E i \in 1..Len(delta.nodes) : n = delta.nodes[i]
            BY <3>1, ItemsOf
        <3>3. \A i \in 1..Len(delta.nodes) : Leads(delta.nodes[i].id, delta.nodes[i].ent)
            BY DEF CatalogInv, NameInv, NamesNodes
        <3> QED
            BY <3>2, <3>3 DEF NodeType
    <2>12. \A t, e : OfType({}, e)
        BY DEF OfType, Admits
    <2>13. ASSUME NEW y \in Near(Said(es), x, dir, type) PROVE y \in found
        <3>1. PICK e \in Items(es) : SaidLink(e, x, y, dir, type)
            BY <2>5
        <3>2. CASE dir # "in" /\ e.src = x /\ e.dst = y
            <4>1. e.from = root /\ e.to \in Nat
                BY <2>2, <2>8, <2>9, <3>2
            <4>2. Links(es, root, e.to, dir, type)
                BY <3>1, <3>2, <4>1 DEF Links, SaidLink
            <4> QED
                BY <2>3, <2>9, <3>2, <4>1, <4>2
        <3>3. CASE dir # "out" /\ e.dst = x /\ e.src = y
            <4>1. e.to = root /\ e.from \in Nat
                BY <2>2, <2>8, <2>9, <3>3
            <4>2. Links(es, root, e.from, dir, type)
                BY <3>1, <3>3, <4>1 DEF Links, SaidLink
            <4> QED
                BY <2>3, <2>9, <3>3, <4>1, <4>2
        <3> QED
            BY <3>1, <3>2, <3>3 DEF SaidLink
    <2>14. ASSUME NEW y \in Near(Said(fs), x, dir, type) PROVE y \in found
        <3>1. PICK e \in Items(fs) : SaidLink(e, x, y, dir, type)
            BY <2>6
        <3>5. y \in Items(EntsOf(delta.nodes))
            BY <2>17, <3>1 DEF SaidLink
        <3>2. PICK n \in Items(delta.nodes) : y = n.ent
            BY <3>5 DEF EntsOf, Items
        <3>3. Links(fs, root, n.id, dir, {}) /\ {e.from, e.to} = {root, n.id}
            <4>1. CASE dir # "in" /\ e.src = x /\ e.dst = y
                <5>1. e.from = root /\ e.to = n.id
                    BY <2>2, <2>8, <2>10, <2>11, <3>2, <4>1
                <5> QED
                    BY <2>12, <4>1, <5>1 DEF Links
            <4>2. CASE dir # "out" /\ e.dst = x /\ e.src = y
                <5>1. e.to = root /\ e.from = n.id
                    BY <2>2, <2>8, <2>10, <2>11, <3>2, <4>2
                <5> QED
                    BY <2>12, <4>2, <5>1 DEF Links
            <4> QED
                BY <3>1, <4>1, <4>2 DEF SaidLink
        <3>4. EdgeSeen(fs, root, n.id, type)
            BY <3>1, <3>3 DEF EdgeSeen, SaidLink
        <3> QED
            BY <2>3, <3>2, <3>3, <3>4
    <2>15. ASSUME NEW y \in found
           PROVE  y \in Near(Said(es) \o Said(fs), x, dir, type)
        <3>1. ASSUME NEW id \in Nat, Links(es, root, id, dir, type), y = graph.nodes[id + 1].ent
              PROVE  \E e \in Items(es) : SaidLink(e, x, y, dir, type)
            <4>1. PICK e \in Items(es) :
                    /\ OfType(type, e)
                    /\ \/ dir # "in" /\ e.from = root /\ e.to = id
                       \/ dir # "out" /\ e.to = root /\ e.from = id
                BY <3>1 DEF Links
            <4>2. \/ dir # "in" /\ e.src = x /\ e.dst = y
                  \/ dir # "out" /\ e.dst = x /\ e.src = y
                BY <2>2, <2>8, <2>9, <3>1, <4>1
            <4> QED
                BY <2>12, <4>1, <4>2 DEF SaidLink
        <3>2. ASSUME NEW n \in Items(delta.nodes), Links(fs, root, n.id, dir, {}),
                     EdgeSeen(fs, root, n.id, type), y = n.ent
              PROVE  \E e \in Items(fs) : SaidLink(e, x, y, dir, type)
            <4>1. PICK e \in Items(fs) : \/ dir # "in" /\ e.from = root /\ e.to = n.id
                                         \/ dir # "out" /\ e.to = root /\ e.from = n.id
                BY <3>2 DEF Links
            <4>2. \/ dir # "in" /\ e.src = x /\ e.dst = y
                  \/ dir # "out" /\ e.dst = x /\ e.src = y
                BY <2>2, <2>8, <2>10, <2>11, <3>2, <4>1
            <4>4. CASE type = {}
                BY <2>12, <4>2, <4>4 DEF SaidLink
            <4>5. CASE type # {}
                <5>1. PICK d \in Items(fs) : {d.from, d.to} = {root, n.id} /\ OfType(type, d)
                    BY <3>2, <4>5 DEF EdgeSeen
                <5>2. (d.from = root /\ d.to = n.id) \/ (d.to = root /\ d.from = n.id)
                    BY <5>1
                <5>3. (d.src = x /\ d.dst = y) \/ (d.dst = x /\ d.src = y)
                    BY <2>2, <2>8, <2>10, <2>11, <3>2, <5>2
                <5>4. \/ dir # "in" /\ d.src = x /\ d.dst = y
                      \/ dir # "out" /\ d.dst = x /\ d.src = y
                    BY <2>17, <4>2, <5>3
                <5> QED
                    BY <5>1, <5>4 DEF SaidLink
            <4> QED
                BY <4>4, <4>5
        <3> QED
            BY <2>3, <2>7, <3>1, <3>2
    <2>16. RelatedFound(root, dir, type) = found /\ SaidOfAll = Said(es) \o Said(fs)
        BY <2>1 DEF RelatedFound, SaidOfAll, found, es, fs
    <2>18. ASSUME NEW y \in Near(Said(es) \o Said(fs), x, dir, type) PROVE y \in found
        <3>1. PICK e : (e \in Items(es) \/ e \in Items(fs)) /\ SaidLink(e, x, y, dir, type)
            BY <2>7
        <3> QED
            BY <2>5, <2>6, <2>13, <2>14, <3>1
    <2> QED
        BY <2>15, <2>16, <2>18 DEF x
<1> QED
    BY <1>1, CatalogInvariant, PTL

(***************************************************************************)
(* Bags: two sequences of the same elements, each as often.                *)
(***************************************************************************)
LEMMA SameBagBy ==
    ASSUME NEW S, NEW s \in Seq(S), NEW T, NEW t \in Seq(T), NEW phi \in Bijection(1..Len(s), 1..Len(t)),
           \A i \in 1..Len(s) : t[phi[i]] = s[i]
    PROVE  SameBag(s, t)
<1>1. DOMAIN s = 1..Len(s) /\ DOMAIN t = 1..Len(t) /\ Len(s) \in Nat /\ Len(t) \in Nat
    OBVIOUS
<1>2. /\ phi \in [1..Len(s) -> 1..Len(t)]
      /\ \A i, j \in 1..Len(s) : phi[i] = phi[j] => i = j
      /\ \A k \in 1..Len(t) : \E i \in 1..Len(s) : phi[i] = k
    BY DEF Bijection, Injection, Surjection, IsInjective
<1>3. Len(s) = Len(t)
    <2>1. IsFiniteSet(1..Len(s)) /\ Cardinality(1..Len(s)) = Len(s) /\ Cardinality(1..Len(t)) = Len(t)
        <3>1. \A n \in Nat : IsFiniteSet(1..n) /\ Cardinality(1..n) = n
            BY FirstFew
        <3> QED
            BY <1>1, <3>1
    <2>2. ExistsBijection(1..Len(s), 1..Len(t))
        BY DEF ExistsBijection
    <2>3. Cardinality(1..Len(t)) = Cardinality(1..Len(s))
        BY <2>1, <2>2, FS_Bijection
    <2> QED
        BY <2>1, <2>3
<1>4. ASSUME NEW x PROVE Times(s, x) = Times(t, x)
    <2> DEFINE A == {i \in DOMAIN s : s[i] = x}
               B == {i \in DOMAIN t : t[i] = x}
               f == [i \in A |-> phi[i]]
    <2>1. A \subseteq 1..Len(s) /\ B \subseteq 1..Len(t)
        BY <1>1
    <2>2. \A i \in A : i \in 1..Len(s) /\ s[i] = x
        BY <1>1
    <2>3. \A k \in 1..Len(t) : k \in B <=> t[k] = x
        BY <1>1
    <2>4. \A i \in 1..Len(s) : i \in A <=> s[i] = x
        BY <1>1
    <2> HIDE DEF A, B
    <2>5. f \in [A -> B]
        BY <1>2, <2>2, <2>3
    <2>6. \A i, j \in A : f[i] = f[j] => i = j
        BY <1>2, <2>2
    <2>7. \A k \in B : \E i \in A : f[i] = k
        <3> SUFFICES ASSUME NEW k \in B PROVE \E i \in A : f[i] = k
            OBVIOUS
        <3>1. PICK i \in 1..Len(s) : phi[i] = k
            BY <1>2, <2>1
        <3>2. i \in A
            BY <2>1, <2>3, <2>4, <3>1
        <3> QED
            BY <3>1, <3>2
    <2> HIDE DEF f
    <2>8. f \in Bijection(A, B)
        BY <2>5, <2>6, <2>7 DEF Bijection, Injection, Surjection, IsInjective
    <2>9. IsFiniteSet(A)
        BY <1>1, <2>1, Positions
    <2>10. ExistsBijection(A, B)
        BY <2>8 DEF ExistsBijection
    <2>11. Cardinality(B) = Cardinality(A)
        BY <2>9, <2>10, FS_Bijection
    <2> QED
        BY <2>11 DEF Times, A, B
<1> QED
    BY <1>3, <1>4 DEF SameBag

\* Two lists of the same things, each in an order of its own.
LEMMA SameBagOf ==
    ASSUME NEW S, NEW s \in Seq(S), NEW T, NEW t \in Seq(T), NEW D,
           NEW f \in Bijection(D, 1..Len(s)), NEW g \in Bijection(D, 1..Len(t)),
           \A d \in D : s[f[d]] = t[g[d]]
    PROVE  SameBag(s, t)
<1>1. /\ f \in [D -> 1..Len(s)] /\ g \in [D -> 1..Len(t)]
      /\ \A c, d \in D : f[c] = f[d] => c = d
      /\ \A i \in 1..Len(s) : \E d \in D : f[d] = i
      /\ \A c, d \in D : g[c] = g[d] => c = d
      /\ \A i \in 1..Len(t) : \E d \in D : g[d] = i
    BY DEF Bijection, Injection, Surjection, IsInjective
<1> DEFINE of(i) == CHOOSE d \in D : f[d] = i
           phi == [i \in 1..Len(s) |-> g[of(i)]]
<1>2. \A i \in 1..Len(s) : of(i) \in D /\ f[of(i)] = i
    BY <1>1
<1>3. \A d \in D : f[d] \in 1..Len(s) /\ of(f[d]) = d
    <2> HIDE DEF of
    <2> QED
        BY <1>1, <1>2
<1> HIDE DEF of
<1>4. phi \in [1..Len(s) -> 1..Len(t)]
    BY <1>1, <1>2
<1>5. \A i, j \in 1..Len(s) : phi[i] = phi[j] => i = j
    <2> SUFFICES ASSUME NEW i \in 1..Len(s), NEW j \in 1..Len(s), phi[i] = phi[j] PROVE i = j
        OBVIOUS
    <2>1. of(i) = of(j)
        BY <1>1, <1>2
    <2> QED
        BY <1>2, <2>1
<1>6. \A k \in 1..Len(t) : \E i \in 1..Len(s) : phi[i] = k
    <2> SUFFICES ASSUME NEW k \in 1..Len(t) PROVE \E i \in 1..Len(s) : phi[i] = k
        OBVIOUS
    <2>1. PICK d \in D : g[d] = k
        BY <1>1
    <2>2. f[d] \in 1..Len(s) /\ phi[f[d]] = k
        BY <1>3, <2>1
    <2> QED
        BY <2>2
<1>7. \A i \in 1..Len(s) : t[phi[i]] = s[i]
    BY <1>2
<1> HIDE DEF phi
<1>8. phi \in Bijection(1..Len(s), 1..Len(t))
    BY <1>4, <1>5, <1>6 DEF Bijection, Injection, Surjection, IsInjective
<1> QED
    BY <1>7, <1>8, SameBagBy

(***************************************************************************)
(* The indices of the graph.                                               *)
(***************************************************************************)
\* What neighbors reads of a packed graph.
LEMMA NearOfEdges ==
    ASSUME NEW g, NEW es, BuiltFrom(g, es), NEW id \in Nat
    PROVE  \A x : x \in Items(Neighbors(g, id)) <=> \E e \in Items(es) : e.from = id /\ x = Targetless(e)
<1>1. AreNeighbors(LinkSet(Names, [type : EdgeTypes, weight : Nat, dim : Dims]), Neighbors(g, id), es, id)
    BY NeighborsBuilt
<1> QED
    BY ONLY <1>1 DEF AreNeighbors

\* What is picked from a rearranged list, by the places it had before.
LEMMA ThroughPlaces ==
    ASSUME NEW m, NEW c, NEW place \in Bijection(1..m, 1..m), NEW D, D \subseteq 1..m, NEW P, P \subseteq 1..m,
           \A j \in 1..m : j \in D <=> place[j] \in P, NEW rank \in Bijection(P, 1..c)
    PROVE  [j \in D |-> rank[place[j]]] \in Bijection(D, 1..c)
<1> DEFINE f == [j \in D |-> rank[place[j]]]
<1>1. /\ place \in [1..m -> 1..m] /\ \A i, j \in 1..m : place[i] = place[j] => i = j
      /\ \A k \in 1..m : \E j \in 1..m : place[j] = k
      /\ rank \in [P -> 1..c] /\ \A i, j \in P : rank[i] = rank[j] => i = j
      /\ \A k \in 1..c : \E p \in P : rank[p] = k
    BY DEF Bijection, Injection, Surjection, IsInjective
<1>2. \A j \in D : j \in 1..m /\ place[j] \in P
    OBVIOUS
<1>3. f \in [D -> 1..c]
    BY <1>1, <1>2
<1>4. \A i, j \in D : f[i] = f[j] => i = j
    <2> SUFFICES ASSUME NEW i \in D, NEW j \in D, f[i] = f[j] PROVE i = j
        OBVIOUS
    <2>0. rank[place[i]] = rank[place[j]] /\ place[i] \in P /\ place[j] \in P
        BY <1>2
    <2> HIDE DEF f
    <2>1. place[i] = place[j]
        <3>1. \A a, b \in P : rank[a] = rank[b] => a = b
            BY <1>1
        <3> QED
            BY ONLY <2>0, <3>1
    <2>2. i \in 1..m /\ j \in 1..m
        BY <1>2
    <2>3. \A a, b \in 1..m : place[a] = place[b] => a = b
        BY <1>1
    <2> QED
        BY ONLY <2>1, <2>2, <2>3
<1>5. \A k \in 1..c : \E j \in D : f[j] = k
    <2> SUFFICES ASSUME NEW k \in 1..c PROVE \E j \in D : f[j] = k
        OBVIOUS
    <2>1. PICK p \in P : rank[p] = k
        BY <1>1
    <2>2. PICK j \in 1..m : place[j] = p
        BY <1>1
    <2>3. j \in D
        BY <2>2
    <2> QED
        BY <2>1, <2>2, <2>3
<1> HIDE DEF f
<1>6. f \in Bijection(D, 1..c)
    BY <1>3, <1>4, <1>5 DEF Bijection, Injection, Surjection, IsInjective
<1> QED
    BY <1>6 DEF f

\* The edges that enter a node are the entries of its slice of the reverse index.
RevPlaced(back, es, id) ==
    \E h \in Bijection({j \in 1..Len(es) : es[j].to = id}, 1..Len(back)) :
        \A j \in 1..Len(es) : es[j].to = id => back[h[j]] = es[j].from

LEMMA RevOnce ==
    ASSUME NEW g, NEW es, BuiltFrom(g, es), NEW id \in Nat, id < Len(g.nodes)
    PROVE  RevNeighbors(g, id) \in Seq(Nat) /\ RevPlaced(RevNeighbors(g, id), es, id)
<1> DEFINE n == Len(g.nodes)
           Origins == [type : EdgeTypes, weight : Nat, dim : Dims]
           ends == Targets(es)
           back == RevNeighbors(g, id)
<1>1. g = Build(g.nodes, es) /\ n \in Nat /\ es \in Seq(EdgeSet(Names, Origins))
    BY DEF BuiltFrom
<1>2. /\ Build(g.nodes, es).revOffsets = Offsets(n, ends) /\ ends \in Seq(Nat) /\ Len(ends) = Len(es)
      /\ Build(g.nodes, es).revEdges \in Seq(Nat) /\ Len(Build(g.nodes, es).revEdges) = Len(es)
      /\ \A j \in 1..Len(es) : ends[j] = es[j].to
      /\ \A j \in 1..Len(es) : Build(g.nodes, es).revEdges[Placed(ends, j)] = es[j].from
    BY <1>1, BuildArrays
<1>3. /\ g.revOffsets = Offsets(n, ends) /\ g.revEdges \in Seq(Nat) /\ Len(g.revEdges) = Len(es)
      /\ \A j \in 1..Len(es) : g.revEdges[Placed(ends, j)] = es[j].from
    BY <1>1, <1>2
<1> HIDE DEF n, Origins, ends
<1>4. back = Slice(Offsets(n, ends), g.revEdges, id)
    BY <1>3 DEF RevNeighbors
<1>5. id < n
    BY DEF n
<1> HIDE DEF back
<1>6. SlicePlaced(back, g.revEdges, ends, id) /\ back \in Seq(Nat)
    BY <1>1, <1>2, <1>3, <1>4, <1>5, SliceOnce, SliceIs
<1>7. {j \in 1..Len(ends) : ends[j] = id} = {j \in 1..Len(es) : es[j].to = id}
    BY <1>2
<1>8. PICK h \in Bijection({j \in 1..Len(ends) : ends[j] = id}, 1..Len(back)) :
          \A j \in 1..Len(ends) : ends[j] = id => back[h[j]] = g.revEdges[Placed(ends, j)]
    BY <1>6 DEF SlicePlaced
<1>9. \A j \in 1..Len(es) : es[j].to = id => back[h[j]] = es[j].from
    BY <1>2, <1>3, <1>8
<1>10. h \in Bijection({j \in 1..Len(es) : es[j].to = id}, 1..Len(back))
    BY <1>7, <1>8
<1>11. RevPlaced(back, es, id)
    BY <1>9, <1>10 DEF RevPlaced
<1> QED
    BY <1>6, <1>11 DEF back

\* What rev_neighbors() gives by name is what callers said of the edges to the node.
LEMMA RevMirrors ==
    ASSUME CatalogInv, NEW id \in Nat, id < Len(graph.nodes), NEW places,
           places = {k \in DOMAIN Said(AllEdges(graph)) : AllEdges(graph)[k].to = id}
    PROVE  LET back == RevNeighbors(graph, id)
               into == At(Said(AllEdges(graph)), places)
           IN  SameBag([k \in DOMAIN back |-> NameOf(graph.nodes, back[k])],
                       [k \in DOMAIN into |-> into[k].src])
<1> DEFINE all == AllEdges(graph)
           said == Said(all)
           back == RevNeighbors(graph, id)
           into == At(said, places)
           s == [k \in DOMAIN back |-> NameOf(graph.nodes, back[k])]
           t == [k \in DOMAIN into |-> into[k].src]
           Origins == [type : EdgeTypes, weight : Nat, dim : Dims]
<1>1. PICK es : BuiltFrom(graph, es)
    BY GraphIsBuilt DEF CatalogInv, ShapeInv
<1> DEFINE m == Len(es)
           D == {j \in 1..m : es[j].to = id}
<1>2. /\ graph = Build(graph.nodes, es) /\ Len(graph.nodes) \in Nat
      /\ es \in Seq(EdgeSet(Names, Origins)) /\ Inside(es, Len(graph.nodes))
    BY <1>1 DEF BuiltFrom
<1>3. /\ Len(AllEdges(Build(graph.nodes, es))) = m
      /\ \E place \in Bijection(1..m, 1..m) :
            \A j \in 1..m : AllEdges(Build(graph.nodes, es))[place[j]] = es[j]
    BY <1>2, PackingKeepsEdges
<1>4. Len(all) = m /\ \E place \in Bijection(1..m, 1..m) : \A j \in 1..m : all[place[j]] = es[j]
    BY <1>2, <1>3
<1>5. PICK place \in Bijection(1..m, 1..m) : \A j \in 1..m : all[place[j]] = es[j]
    BY <1>4
<1>6. back \in Seq(Nat) /\ RevPlaced(back, es, id)
    BY <1>1, RevOnce
<1>7. all \in Seq(EdgeType)
    BY InvTypes
<1>8. \A e \in Items(all) : graph.nodes[e.from + 1].ent = e.src /\ e.src \in Names
    <2>1. \A e \in Items(all) : e \in EdgeType
        BY <1>7, ItemsOf
    <2> QED
        BY <2>1, EndsNamed DEF EdgeType
<1> HIDE DEF all
<1>9. said \in Seq(SaidType) /\ Len(said) = m /\ \A k \in 1..m : said[k] = SaidOf(all[k])
    BY <1>4, <1>7, SaidItems
<1>10. places = {k \in 1..m : all[k].to = id}
    <2>1. DOMAIN said = 1..m
        <3> HIDE DEF said
        <3> QED
            BY <1>9
    <2> QED
        BY <2>1 DEF all
<1> HIDE DEF said, back
<1>11. PICK h \in Bijection(D, 1..Len(back)) : \A j \in 1..m : es[j].to = id => back[h[j]] = es[j].from
    BY <1>6 DEF RevPlaced
<1>12. /\ into \in Seq(SaidType) /\ IsKept(into, said, places)
    <2>1. places \subseteq 1..Len(said)
        BY <1>9, <1>10
    <2> QED
        BY <1>9, <2>1, AtProperties
<1> HIDE DEF into
<1>13. PICK rank \in Bijection(places, 1..Len(into)) : \A k \in places : into[rank[k]] = said[k]
    BY <1>12 DEF IsKept
<1>14. place \in [1..m -> 1..m]
    BY DEF Bijection, Injection
<1> DEFINE f == [j \in D |-> rank[place[j]]]
<1>15. f \in Bijection(D, 1..Len(into))
    <2>1. D \subseteq 1..m /\ places \subseteq 1..m
        BY <1>10
    <2>2. \A j \in 1..m : j \in D <=> place[j] \in places
        BY <1>5, <1>10, <1>14
    <2> HIDE DEF D, m
    <2> QED
        BY <2>1, <2>2, ThroughPlaces
<1>16. h \in [D -> 1..Len(back)] /\ rank \in [places -> 1..Len(into)]
    BY DEF Bijection, Injection
<1>17. DOMAIN back = 1..Len(back) /\ DOMAIN into = 1..Len(into) /\ Len(back) \in Nat /\ Len(into) \in Nat
    BY <1>6, <1>12
<1>18. ASSUME NEW j \in D
       PROVE  /\ back[h[j]] = es[j].from /\ h[j] \in 1..Len(back)
              /\ NameOf(graph.nodes, es[j].from) = es[j].src
              /\ f[j] \in 1..Len(into) /\ into[f[j]].src = es[j].src
    <2>1. j \in 1..m /\ es[j].to = id
        OBVIOUS
    <2>2. place[j] \in places /\ all[place[j]] = es[j] /\ place[j] \in 1..m
        BY <1>5, <1>10, <1>14, <2>1
    <2>3. es[j] \in Items(all)
        <3>1. DOMAIN all = 1..m
            BY <1>4, <1>7 DEF all
        <3> QED
            BY <2>2, <3>1 DEF Items
    <2>4. NameOf(graph.nodes, es[j].from) = es[j].src
        BY <1>8, <2>3 DEF NameOf, all
    <2>5. f[j] = rank[place[j]]
        OBVIOUS
    <2>6. into[f[j]] = SaidOf(es[j]) /\ f[j] \in 1..Len(into)
        BY <1>9, <1>13, <1>16, <2>2, <2>5
    <2> QED
        BY <1>11, <1>16, <2>1, <2>4, <2>6 DEF SaidOf
<1>19. ASSUME NEW k \in 1..Len(back) PROVE NameOf(graph.nodes, back[k]) \in Names
    <2>1. PICK j \in D : h[j] = k
        BY DEF Bijection, Surjection
    <2>2. j \in 1..m
        BY <2>1
    <2>3. es[j] \in EdgeSet(Names, Origins)
        BY <1>2, <2>2
    <2> QED
        BY <1>18, <2>1, <2>3 DEF EdgeSet
<1>20. s \in Seq(Names) /\ Len(s) = Len(back) /\ \A k \in 1..Len(back) : s[k] = NameOf(graph.nodes, back[k])
    <2>1. s \in [1..Len(back) -> Names]
        BY <1>17, <1>19
    <2>2. \A k \in 1..Len(back) : s[k] = NameOf(graph.nodes, back[k])
        BY <1>17
    <2> HIDE DEF s
    <2> QED
        BY <1>17, <2>1, <2>2, DefinedSeq
<1>21. t \in Seq(Names) /\ Len(t) = Len(into) /\ \A k \in 1..Len(into) : t[k] = into[k].src
    <2>1. \A k \in 1..Len(into) : into[k] \in SaidType
        BY <1>12
    <2>2. t \in [1..Len(into) -> Names]
        BY <1>17, <2>1 DEF SaidType
    <2>3. \A k \in 1..Len(into) : t[k] = into[k].src
        BY <1>17
    <2> HIDE DEF t
    <2> QED
        BY <1>17, <2>2, <2>3, DefinedSeq
<1> HIDE DEF s, t, f, D
<1>22. \A j \in D : s[h[j]] = t[f[j]]
    BY <1>18, <1>20, <1>21
<1>23. SameBag(s, t)
    <2>1. h \in Bijection(D, 1..Len(s)) /\ f \in Bijection(D, 1..Len(t))
        BY <1>11, <1>15, <1>20, <1>21
    <2> QED
        BY <1>20, <1>21, <1>22, <2>1, SameBagOf
<1> QED
    BY <1>23 DEF s, t, into, back, said, all

\* Both indices of the graph, edges_between and the weights tell what callers said,
\* after any number of merges that unpacked the graph and packed it again
\* (CsrGraph::build, merge_into).
THEOREM IndicesMirror ==
    ASSUME OneAtATime
    PROVE  Spec => []CsrMirrors
<1>1. CatalogInv => CsrMirrors
    <2> SUFFICES ASSUME CatalogInv, Distinct(EntsOf(graph.nodes)) PROVE CsrMirrors
        BY DEF CsrMirrors
    <2> DEFINE all == AllEdges(graph)
               n == Len(graph.nodes)
               Origins == [type : EdgeTypes, weight : Nat, dim : Dims]
    <2>1. PICK es : BuiltFrom(graph, es)
        BY GraphIsBuilt DEF CatalogInv, ShapeInv
    <2>2. /\ graph = Build(graph.nodes, es) /\ n \in Nat
          /\ es \in Seq(EdgeSet(Names, Origins)) /\ Inside(es, n)
        BY <2>1 DEF BuiltFrom
    <2>3. /\ all \in Seq(EdgeType) /\ \A e : e \in Items(all) <=> e \in Items(es)
        BY <2>2, BuiltSame, InvTypes
    <2>4. \A e \in Items(all) : /\ e.from \in Nat /\ e.to \in Nat
                                /\ e.from + 1 \in 1..n /\ e.to + 1 \in 1..n
                                /\ NameOf(graph.nodes, e.from) = e.src /\ NameOf(graph.nodes, e.to) = e.dst
        BY EndsNamed DEF NameOf
    <2>5. \A i, j \in 1..n : graph.nodes[i].ent = graph.nodes[j].ent => i = j
        <3> DEFINE s == EntsOf(graph.nodes)
        <3>1. graph.nodes \in Seq(NodeType) /\ DOMAIN graph.nodes = 1..n
            BY InvTypes
        <3>2. s \in [1..n -> Names] /\ \A i \in 1..n : s[i] = graph.nodes[i].ent
            <4>1. \A i \in 1..n : graph.nodes[i] \in NodeType
                BY <3>1
            <4>2. \A i \in 1..n : graph.nodes[i].ent \in Names
                BY <4>1 DEF NodeType
            <4>3. s = [i \in 1..n |-> graph.nodes[i].ent]
                BY <3>1 DEF EntsOf
            <4> HIDE DEF s
            <4> QED
                BY ONLY <4>2, <4>3
        <3> HIDE DEF s
        <3>3. s \in Seq(Names) /\ Len(s) = n
            BY <2>2, <3>2, DefinedSeq
        <3>4. Distinct(s)
            BY DEF s
        <3> QED
            BY <3>2, <3>3, <3>4, DistinctOnce
    <2>6. \A id \in Ids : id \in Nat /\ id + 1 \in 1..n /\ id < n
        <3> SUFFICES ASSUME NEW id \in Ids PROVE id \in Nat /\ id + 1 \in 1..n /\ id < n
            OBVIOUS
        <3>1. id \in Nat /\ id + 1 \in 1..n
            BY NodeNamed
        <3> QED
            BY <2>2, <3>1
    <2>7. \A id \in Nat : id < n => id \in Ids
        <3> SUFFICES ASSUME NEW id \in Nat, id < n PROVE id \in Ids
            OBVIOUS
        <3>1. id + 1 \in 1..n /\ (id + 1) - 1 = id
            BY <2>2
        <3>2. graph.nodes[id + 1].id = id
            BY <3>1, InvTypes
        <3>3. graph.nodes[id + 1] \in Items(graph.nodes)
            BY <3>1, InvTypes, ItemsOf
        <3> QED
            BY <3>2, <3>3 DEF Ids
    <2> HIDE DEF all, n, Origins
    <2>8. ASSUME NEW id \in Ids
          PROVE  SameBag([k \in DOMAIN RevNeighbors(graph, id) |-> NameOf(graph.nodes, RevNeighbors(graph, id)[k])],
                         LET ss == Selected(Said(all), LAMBDA e : e.dst = NameOf(graph.nodes, id))
                         IN  [k \in DOMAIN ss |-> ss[k].src])
        <3> DEFINE places == {k \in DOMAIN Said(all) : Said(all)[k].dst = NameOf(graph.nodes, id)}
        <3>1. /\ Said(all) \in Seq(SaidType) /\ Len(Said(all)) = Len(all)
              /\ \A k \in 1..Len(all) : Said(all)[k] = SaidOf(all[k])
            BY <2>3, SaidItems
        <3>2. DOMAIN Said(all) = 1..Len(all) /\ DOMAIN all = 1..Len(all)
            BY <2>3, <3>1
        <3>3. ASSUME NEW k \in 1..Len(all)
              PROVE  Said(all)[k].dst = NameOf(graph.nodes, id) <=> all[k].to = id
            <4>1. all[k] \in Items(all) /\ Said(all)[k].dst = all[k].dst
                BY <3>1, <3>2 DEF SaidOf, Items
            <4>2. /\ all[k].to \in Nat /\ all[k].to + 1 \in 1..n
                  /\ graph.nodes[all[k].to + 1].ent = all[k].dst
                BY <2>4, <4>1 DEF NameOf
            <4>3. all[k].dst = graph.nodes[id + 1].ent <=> all[k].to + 1 = id + 1
                BY <2>5, <2>6, <4>2
            <4>4. all[k].to + 1 = id + 1 <=> all[k].to = id
                BY <2>6, <4>2
            <4> QED
                BY <4>1, <4>3, <4>4 DEF NameOf
        <3>4. places = {k \in DOMAIN Said(all) : all[k].to = id}
            BY <3>2, <3>3
        <3>5. Selected(Said(all), LAMBDA e : e.dst = NameOf(graph.nodes, id)) = At(Said(all), places)
            BY DEF Selected
        <3> HIDE DEF places
        <3>6. SameBag([k \in DOMAIN RevNeighbors(graph, id) |-> NameOf(graph.nodes, RevNeighbors(graph, id)[k])],
                      [k \in DOMAIN At(Said(all), places) |-> At(Said(all), places)[k].src])
            BY <2>6, <3>4, RevMirrors DEF all, n
        <3> QED
            BY <3>5, <3>6
    <2>9. ASSUME NEW id \in Ids, NEW e \in Items(Neighbors(graph, id))
          PROVE  e.src = NameOf(graph.nodes, id) /\ e.dst = NameOf(graph.nodes, e.to)
        <3>1. \A x : x \in Items(Neighbors(graph, id)) <=> \E d \in Items(es) : d.from = id /\ x = Targetless(d)
            <4>1. id \in Nat
                BY <2>6
            <4> QED
                BY <2>1, <4>1, NearOfEdges
        <3>2. PICK d \in Items(es) : d.from = id /\ e = Targetless(d)
            BY <2>2, <3>1
        <3>3. d \in Items(all)
            BY <2>3
        <3> QED
            BY <2>4, <3>2, <3>3 DEF Targetless
    <2>10. ASSUME NEW p \in EdgesBetween(graph, Ids), NEW e \in Items(all), e.from = p[1], e.to = p[2].to
           PROVE  e.origin.weight <= p[2].origin.weight
        <3>1. Ids \in SUBSET Nat /\ \A o \in Origins : o.weight \in Nat
            BY <2>6 DEF Origins
        <3>2. e.from \in Ids /\ e.to \in Ids /\ e \in Items(es)
            <4>1. e.from \in Nat /\ e.to \in Nat /\ e.from < n /\ e.to < n
                BY <2>2, <2>4
            <4> QED
                BY <2>3, <2>7, <4>1
        <3>3. /\ \A r, q \in EdgesBetween(Build(graph.nodes, es), Ids) :
                    r[1] = q[1] /\ r[2].to = q[2].to => r = q
              /\ \A d \in Items(es) : d.from \in Ids /\ d.to \in Ids =>
                    \E q \in EdgesBetween(Build(graph.nodes, es), Ids) :
                       q[1] = d.from /\ q[2].to = d.to /\ q[2].origin.weight >= d.origin.weight
              /\ \A q \in EdgesBetween(Build(graph.nodes, es), Ids) :
                    \E d \in Items(es) : q = <<d.from, Targetless(d)>>
            BY <2>2, <3>1, EdgesBetweenOf DEF n
        <3>4. PICK q \in EdgesBetween(graph, Ids) :
                 q[1] = e.from /\ q[2].to = e.to /\ q[2].origin.weight >= e.origin.weight
            BY <2>2, <3>2, <3>3
        <3>5. p = q
            BY <2>2, <2>10, <3>3, <3>4
        <3>6. e.origin.weight \in Nat /\ q[2].origin.weight \in Nat
            <4>1. \A d \in Items(es) : d.origin.weight \in Nat
                <5>1. \A d \in Items(es) : d \in EdgeSet(Names, Origins)
                    BY <2>2, ItemsOf
                <5> QED
                    BY <5>1 DEF EdgeSet, Origins
            <4>2. PICK d \in Items(es) : q = <<d.from, Targetless(d)>>
                BY <2>2, <3>3
            <4>3. q[2].origin = d.origin
                BY <4>2 DEF Targetless
            <4> QED
                BY <3>2, <4>1, <4>3
        <3> QED
            BY <3>4, <3>5, <3>6
    <2>11. ASSUME Said(all) # <<>>
           PROVE  \E id \in Ids : graph.weights[id + 1][1] = graph.weights[id + 1][2]
        <3>1. all # <<>>
            BY <2>3, <2>11 DEF Said
        <3>2. PICK e \in Items(es) : e.from \in Nat /\ e.from < n
            <4>1. 1 \in DOMAIN all
                BY <2>3, <3>1
            <4>2. all[1] \in Items(all)
                BY <4>1 DEF Items
            <4>3. all[1] \in Items(es) /\ all[1].from \in Nat /\ all[1].from + 1 \in 1..n
                BY <2>3, <2>4, <4>2
            <4>4. all[1].from < n
                BY <2>2, <4>3
            <4> QED
                BY <4>3, <4>4
        <3>3. es # <<>>
            BY <3>2 DEF Items
        <3>4. \E top \in 1..n : Build(graph.nodes, es).weights[top][1] = Build(graph.nodes, es).weights[top][2]
            BY <2>2, <3>2, <3>3, WeightsAreFractions, SMTT(30) DEF n
        <3>5. PICK top \in 1..n : graph.weights[top][1] = graph.weights[top][2]
            BY <2>2, <3>4
        <3>6. top - 1 \in Nat /\ top - 1 < n /\ (top - 1) + 1 = top
            BY <2>2
        <3> QED
            BY <2>7, <3>5, <3>6
    <2> QED
        BY <2>8, <2>9, <2>10, <2>11 DEF CsrMirrors, all
<1> QED
    BY <1>1, CatalogInvariant, PTL

(***************************************************************************)
(* The walk.                                                               *)
(***************************************************************************)
\* An edge leads from x to y, or back where both directions count.
Joins(e, x, y, both) ==
    \/ e.from = x /\ e.to = y
    \/ both /\ e.to = x /\ e.from = y

\* The graph as bfs_expand walks it.
LEMMA GraphWalks ==
    ASSUME CatalogInv, NEW both \in BOOLEAN
    PROVE  /\ Walkable(graph, Nat) /\ NumNodes(graph) \in Nat /\ Closed(graph, both)
           /\ \A id \in Nat : \A x :
                 x \in NextTo(graph, id, both) <=> \E e \in Items(AllEdges(graph)) : Joins(e, id, x, both)
<1> DEFINE n == Len(graph.nodes)
           Origins == [type : EdgeTypes, weight : Nat, dim : Dims]
<1>1. PICK es : BuiltFrom(graph, es)
    BY GraphIsBuilt DEF CatalogInv, ShapeInv
<1>2. /\ graph = Build(graph.nodes, es) /\ n \in Nat
      /\ es \in Seq(EdgeSet(Names, Origins)) /\ Inside(es, n)
    BY <1>1 DEF BuiltFrom
<1>3. \A e : e \in Items(AllEdges(graph)) <=> e \in Items(es)
    BY <1>2, BuiltSame, InvTypes
<1>4. \A e \in Items(es) : e.from \in 0..(n - 1) /\ e.to \in 0..(n - 1)
    <2> SUFFICES ASSUME NEW e \in Items(es) PROVE e.from \in 0..(n - 1) /\ e.to \in 0..(n - 1)
        OBVIOUS
    <2>1. PICK j \in 1..Len(es) : e = es[j]
        BY <1>2, ItemsOf
    <2>2. e \in EdgeSet(Names, Origins)
        BY <1>2, ItemsOf
    <2>3. e.from \in Nat /\ e.to \in Nat
        BY <2>2 DEF EdgeSet
    <2>4. DOMAIN es = 1..Len(es)
        BY <1>2
    <2>5. e.from < n /\ e.to < n
        BY <1>2, <2>1, <2>4 DEF Inside
    <2> QED
        BY <1>2, <2>3, <2>5
<1> HIDE DEF n
<1>5. ASSUME NEW id \in Nat
      PROVE  /\ Neighbors(graph, id) \in Seq(LinkSet(Names, Origins))
             /\ \A x : x \in Items(Neighbors(graph, id)) <=>
                    \E e \in Items(es) : e.from = id /\ x = Targetless(e)
             /\ RevNeighbors(graph, id) \in Seq(Nat)
             /\ \A x : x \in Items(RevNeighbors(graph, id)) <=>
                    \E e \in Items(es) : e.to = id /\ x = e.from
    <2>1. /\ AreNeighbors(LinkSet(Names, Origins), Neighbors(graph, id), es, id)
          /\ AreSources(RevNeighbors(graph, id), es, id)
        BY <1>1, NeighborsBuilt
    <2> QED
        BY ONLY <2>1 DEF AreNeighbors, AreSources
<1>6. Walkable(graph, Nat)
    <2>1. \A x \in LinkSet(Names, Origins) : x.to \in Nat /\ x.origin.weight \in Nat
        BY DEF LinkSet
    <2> HIDE DEF Origins
    <2> QED
        BY <1>5, <2>1 DEF Walkable
<1>7. ASSUME NEW id \in Nat, NEW x
      PROVE  x \in NextTo(graph, id, both) <=> \E e \in Items(es) : Joins(e, id, x, both)
    <2>1. x \in {d.to : d \in Items(Neighbors(graph, id))} <=> \E e \in Items(es) : e.from = id /\ e.to = x
        <3>1. \A e : Targetless(e).to = e.to
            BY DEF Targetless
        <3> QED
            BY <1>5, <3>1
    <2>2. x \in Items(RevNeighbors(graph, id)) <=> \E e \in Items(es) : e.to = id /\ e.from = x
        BY <1>5
    <2>3. x \in NextTo(graph, id, both) <=>
              \/ x \in {d.to : d \in Items(Neighbors(graph, id))}
              \/ both /\ x \in Items(RevNeighbors(graph, id))
        BY DEF NextTo
    <2> QED
        BY <2>1, <2>2, <2>3 DEF Joins
<1>8. Closed(graph, both)
    <2>1. ASSUME NEW id \in Nat, NEW x \in NextTo(graph, id, both) PROVE x \in 0..(n - 1)
        BY <1>4, <1>7, <2>1 DEF Joins
    <2> QED
        BY <2>1 DEF Closed, NumNodes, n
<1> QED
    BY <1>2, <1>3, <1>6, <1>7, <1>8 DEF NumNodes, n

\* Where no two nodes of the graph share a name, an ID is its name.
LEMMA GraphNamedOnce ==
    ASSUME CatalogInv, Distinct(EntsOf(graph.nodes))
    PROVE  /\ Ids = 0..(NumNodes(graph) - 1)
           /\ \A i, j \in Ids : NameOf(graph.nodes, i) = NameOf(graph.nodes, j) => i = j
<1> DEFINE n == Len(graph.nodes)
           s == EntsOf(graph.nodes)
<1>1. graph.nodes \in Seq(NodeType) /\ DOMAIN graph.nodes = 1..n /\ n \in Nat
    BY InvTypes
<1>2. s \in [1..n -> Names] /\ \A i \in 1..n : s[i] = graph.nodes[i].ent
    <2>1. \A i \in 1..n : graph.nodes[i] \in NodeType
        BY <1>1
    <2>2. \A i \in 1..n : graph.nodes[i].ent \in Names
        BY <2>1 DEF NodeType
    <2>3. s = [i \in 1..n |-> graph.nodes[i].ent]
        BY <1>1 DEF EntsOf
    <2> HIDE DEF s
    <2> QED
        BY ONLY <2>2, <2>3
<1>3. s \in Seq(Names) /\ Len(s) = n
    <2> HIDE DEF s
    <2> QED
        BY <1>1, <1>2, DefinedSeq
<1>4. \A i, j \in 1..n : graph.nodes[i].ent = graph.nodes[j].ent => i = j
    <2> HIDE DEF s
    <2>1. Distinct(s)
        BY DEF s
    <2> QED
        BY <1>2, <1>3, <2>1, DistinctOnce
<1>5. \A id \in Ids : id \in Nat /\ id + 1 \in 1..n
    BY NodeNamed
<1>6. ASSUME NEW id \in 0..(n - 1) PROVE id \in Ids
    <2>1. id \in Nat /\ id + 1 \in 1..n /\ (id + 1) - 1 = id
        BY <1>1, <1>6
    <2>2. graph.nodes[id + 1].id = id
        BY <2>1, InvTypes
    <2>3. graph.nodes[id + 1] \in Items(graph.nodes)
        BY <1>1, <2>1, ItemsOf
    <2> QED
        BY <2>2, <2>3 DEF Ids
<1>7. ASSUME NEW i \in Ids, NEW j \in Ids, NameOf(graph.nodes, i) = NameOf(graph.nodes, j) PROVE i = j
    <2>1. i + 1 = j + 1
        BY <1>4, <1>5, <1>7 DEF NameOf
    <2> QED
        BY <1>5, <2>1
<1> HIDE DEF n
<1>8. \A id \in Ids : id \in 0..(n - 1)
    BY <1>1, <1>5
<1> QED
    BY <1>6, <1>7, <1>8 DEF NumNodes, n

\* The nodes one hop from a node have the names that edges said of its name.
NamesNext(id, both, dir) ==
    \A y : y \in Near(Said(AllEdges(graph)), NameOf(graph.nodes, id), dir, {}) <=>
               \E x \in NextTo(graph, id, both) : y = NameOf(graph.nodes, x)

\* What callers said links a node to, by name, is what the graph links it to.
LEMMA NextIsNear ==
    ASSUME CatalogInv, Distinct(EntsOf(graph.nodes)), NEW both \in BOOLEAN, NEW id \in Ids,
           NEW dir, dir = IF both THEN "both" ELSE "out"
    PROVE  NamesNext(id, both, dir)
<1> DEFINE all == AllEdges(graph)
           Name(i) == NameOf(graph.nodes, i)
<1>1. id \in Nat /\ all \in Seq(EdgeType)
    BY NodeNamed, InvTypes
<1>2. \A x : x \in NextTo(graph, id, both) <=> \E e \in Items(all) : Joins(e, id, x, both)
    BY <1>1, GraphWalks
<1>3. \A y : y \in Near(Said(all), Name(id), dir, {}) <=>
              \E e \in Items(all) : SaidLink(e, Name(id), y, dir, {})
    BY <1>1, NearOf
<1>4. \A i, j \in Ids : Name(i) = Name(j) => i = j
    BY GraphNamedOnce
<1>5. \A e \in Items(all) : /\ e.from \in Ids /\ e.to \in Ids
                            /\ Name(e.from) = e.src /\ Name(e.to) = e.dst
    <2> SUFFICES ASSUME NEW e \in Items(all)
                 PROVE  /\ e.from \in Ids /\ e.to \in Ids
                        /\ Name(e.from) = e.src /\ Name(e.to) = e.dst
        OBVIOUS
    <2>1. /\ e.from \in Nat /\ e.to \in Nat
          /\ e.from + 1 \in 1..Len(graph.nodes) /\ e.to + 1 \in 1..Len(graph.nodes)
          /\ graph.nodes[e.from + 1].ent = e.src /\ graph.nodes[e.to + 1].ent = e.dst
        BY EndsNamed
    <2>2. e.from \in 0..(NumNodes(graph) - 1) /\ e.to \in 0..(NumNodes(graph) - 1)
        <3>1. Len(graph.nodes) \in Nat
            BY InvTypes
        <3> QED
            BY <2>1, <3>1 DEF NumNodes
    <2>3. e.from \in Ids /\ e.to \in Ids
        BY <2>2, GraphNamedOnce
    <2> QED
        BY <2>1, <2>3 DEF NameOf
<1> HIDE DEF all, Name
<1>6. ASSUME NEW e \in Items(all), NEW y
      PROVE  SaidLink(e, Name(id), y, dir, {}) <=>
                \/ e.from = id /\ y = Name(e.to)
                \/ both /\ e.to = id /\ y = Name(e.from)
    <2>1. OfType({}, e)
        BY DEF OfType, Admits
    <2>2. dir # "in" /\ (dir # "out" <=> both)
        OBVIOUS
    <2>3. e.src = Name(id) <=> e.from = id
        BY <1>4, <1>5
    <2>4. e.dst = Name(id) <=> e.to = id
        BY <1>4, <1>5
    <2> QED
        BY <1>5, <2>1, <2>2, <2>3, <2>4 DEF SaidLink
<1>7. ASSUME NEW y
      PROVE  (\E e \in Items(all) : SaidLink(e, Name(id), y, dir, {})) <=>
                \E x \in NextTo(graph, id, both) : y = Name(x)
    <2>1. ASSUME NEW e \in Items(all), SaidLink(e, Name(id), y, dir, {})
          PROVE  \E x \in NextTo(graph, id, both) : y = Name(x)
        <3>1. CASE e.from = id /\ y = Name(e.to)
            <4>1. Joins(e, id, e.to, both)
                BY <3>1 DEF Joins
            <4> QED
                BY <1>2, <3>1, <4>1
        <3>2. CASE both /\ e.to = id /\ y = Name(e.from)
            <4>1. Joins(e, id, e.from, both)
                BY <3>2 DEF Joins
            <4> QED
                BY <1>2, <3>2, <4>1
        <3> QED
            BY <1>6, <2>1, <3>1, <3>2
    <2>2. ASSUME NEW x \in NextTo(graph, id, both), y = Name(x)
          PROVE  \E e \in Items(all) : SaidLink(e, Name(id), y, dir, {})
        <3>1. PICK e \in Items(all) : Joins(e, id, x, both)
            BY <1>2, <2>2
        <3>2. SaidLink(e, Name(id), y, dir, {})
            BY <1>6, <2>2, <3>1 DEF Joins
        <3> QED
            BY <3>2
    <2> QED
        BY <2>1, <2>2
<1>8. \A y : y \in Near(Said(all), Name(id), dir, {}) <=>
              \E x \in NextTo(graph, id, both) : y = Name(x)
    BY <1>3, <1>7
<1> QED
    BY ONLY <1>8 DEF NamesNext, all, Name

Renamed(S) == {NameOf(graph.nodes, x) : x \in S}

\* Ball, by name, is what is within so many hops of the seeds.
LEMMA BallIsWithin ==
    ASSUME CatalogInv, Distinct(EntsOf(graph.nodes)), NEW both \in BOOLEAN,
           NEW dir, dir = IF both THEN "both" ELSE "out",
           NEW seeds \in Seq(Nat), Items(seeds) \subseteq Ids, NEW depth \in Nat
    PROVE  \A k \in 0..depth :
              /\ Within(graph, both, seeds, depth)[k] \subseteq Ids
              /\ Ball(Renamed(Items(seeds)), k, dir) = Renamed(Within(graph, both, seeds, depth)[k])
<1> DEFINE R == Within(graph, both, seeds, depth)
           said == Said(AllEdges(graph))
           from == Renamed(Items(seeds))
           On(S) == S \cup UNION {Near(said, x, dir, {}) : x \in S}
<1>1. Closed(graph, both) /\ NumNodes(graph) \in Nat /\ Ids = 0..(NumNodes(graph) - 1)
    BY GraphWalks, GraphNamedOnce
<1>2. /\ R[0] = Items(seeds)
      /\ \A k \in 1..depth : R[k] = R[k - 1] \cup UNION {NextTo(graph, x, both) : x \in R[k - 1]}
    BY <1>1, WithinIs
<1> HIDE DEF R
<1>3. \A x \in Ids : NextTo(graph, x, both) \subseteq Ids
    BY <1>1 DEF Closed
<1> DEFINE T == {k \in 0..depth : R[k] \subseteq Ids}
<1>4. \A k \in 0..depth : k \in T
    <2>1. 0 \in T
        BY <1>2
    <2>2. \A k \in 1..depth : k - 1 \in T => k \in T
        BY <1>2, <1>3
    <2> HIDE DEF T
    <2> QED
        BY <2>1, <2>2, UpTo
<1>5. \A k \in 0..depth : R[k] \subseteq Ids
    BY <1>4
<1>6. ASSUME NEW k \in 1..depth PROVE Renamed(R[k]) = On(Renamed(R[k - 1]))
    <2>1. k - 1 \in 0..depth
        OBVIOUS
    <2>2. \A id \in R[k - 1] : \A y :
              y \in Near(said, NameOf(graph.nodes, id), dir, {}) <=>
                  \E x \in NextTo(graph, id, both) : y = NameOf(graph.nodes, x)
        <3>1. \A id \in R[k - 1] : id \in Ids
            BY ONLY <1>5, <2>1
        <3>2. \A id \in Ids : \A y :
                  y \in Near(said, NameOf(graph.nodes, id), dir, {}) <=>
                      \E x \in NextTo(graph, id, both) : y = NameOf(graph.nodes, x)
            <4>1. \A id \in Ids : NamesNext(id, both, dir)
                BY NextIsNear
            <4> QED
                BY ONLY <4>1 DEF NamesNext
        <3> QED
            BY ONLY <3>1, <3>2
    <2>3. R[k] = R[k - 1] \cup UNION {NextTo(graph, x, both) : x \in R[k - 1]}
        BY <1>2
    <2> HIDE DEF said
    <2>4. ASSUME NEW y
          PROVE  y \in Renamed(R[k]) <=> y \in On(Renamed(R[k - 1]))
        <3>1. y \in Renamed(R[k]) <=>
                  \/ \E x \in R[k - 1] : y = NameOf(graph.nodes, x)
                  \/ \E id \in R[k - 1] : \E x \in NextTo(graph, id, both) : y = NameOf(graph.nodes, x)
            BY <2>3 DEF Renamed
        <3>2. y \in On(Renamed(R[k - 1])) <=>
                  \/ y \in Renamed(R[k - 1])
                  \/ \E id \in R[k - 1] : y \in Near(said, NameOf(graph.nodes, id), dir, {})
            BY DEF Renamed
        <3>3. y \in Renamed(R[k - 1]) <=> \E x \in R[k - 1] : y = NameOf(graph.nodes, x)
            BY DEF Renamed
        <3> QED
            BY <2>2, <3>1, <3>2, <3>3
    <2> QED
        BY <2>4
<1>7. ASSUME NEW k \in 0..depth PROVE Ball(from, k, dir) = Renamed(R[k])
    <2> DEFINE Step(f) == [i \in 0..k |-> IF i = 0 THEN from
                                          ELSE f[i - 1] \cup UNION {Near(said, x, dir, {}) : x \in f[i - 1]}]
               f == CHOOSE f : f = Step(f)
               h == [i \in 0..k |-> Renamed(R[i])]
    <2>1. Ball(from, k, dir) = f[k]
        BY DEF Ball
    <2>2. \A i \in 1..k : i \in 1..depth
        OBVIOUS
    <2>3. \A i \in 1..k : Renamed(R[i]) = On(Renamed(R[i - 1]))
        BY <1>6, <2>2
    <2>4. from = Renamed(R[0])
        BY <1>2
    <2>a. \A S : On(S) = S \cup UNION {Near(said, x, dir, {}) : x \in S}
        OBVIOUS
    <2>b. \A g : Step(g) = [i \in 0..k |-> IF i = 0 THEN from ELSE On(g[i - 1])]
        OBVIOUS
    <2> HIDE DEF from, said, On, Step
    <2>5. h = Step(h)
        <3>1. ASSUME NEW i \in 0..k PROVE h[i] = IF i = 0 THEN from ELSE On(h[i - 1])
            <4>1. CASE i = 0
                BY <2>4, <4>1
            <4>2. CASE i # 0
                <5>1. i \in 1..k /\ i - 1 \in 0..k
                    BY <4>2
                <5>2. h[i] = Renamed(R[i]) /\ h[i - 1] = Renamed(R[i - 1])
                    BY <5>1
                <5> QED
                    BY <2>3, <4>2, <5>1, <5>2
            <4> QED
                BY <4>1, <4>2
        <3>2. h = [i \in 0..k |-> h[i]]
            OBVIOUS
        <3> HIDE DEF h
        <3>3. h = [i \in 0..k |-> IF i = 0 THEN from ELSE On(h[i - 1])]
            BY <3>1, <3>2
        <3> QED
            BY <2>b, <3>3
    <2>6. \E g : g = Step(g)
        BY <2>5
    <2>7. f = Step(f)
        BY <2>6
    <2> HIDE DEF f
    <2>8. f = [i \in 0..k |-> IF i = 0 THEN from ELSE On(f[i - 1])]
        BY <2>b, <2>7
    <2>9. \A i \in 0..k : f[i] = IF i = 0 THEN from ELSE On(f[i - 1])
        BY <2>8
    <2> DEFINE V == {i \in 0..k : f[i] = Renamed(R[i])}
    <2>10. 0 \in V
        <3>1. 0 \in 0..k
            OBVIOUS
        <3> QED
            BY <2>4, <2>9, <3>1
    <2>11. ASSUME NEW i \in 1..k, i - 1 \in V PROVE i \in V
        <3>1. i \in 0..k /\ i # 0
            OBVIOUS
        <3>2. f[i] = On(f[i - 1])
            BY <2>9, <3>1
        <3> QED
            BY <2>3, <2>11, <3>1, <3>2
    <2>12. k \in V
        <3> HIDE DEF V
        <3>1. k \in Nat
            OBVIOUS
        <3>2. \A i \in 0..k : i \in V
            BY <2>10, <2>11, <3>1, UpTo
        <3> QED
            BY <3>1, <3>2
    <2> QED
        BY <2>1, <2>12
<1> QED
    BY <1>5, <1>7 DEF R

\* What a list says once of each place is distinct.
LEMMA OnceIsDistinct ==
    ASSUME NEW S, NEW s \in Seq(S), \A i, j \in 1..Len(s) : s[i] = s[j] => i = j
    PROVE  Distinct(s)
<1> DEFINE n == Len(s)
<1>1. DOMAIN s = 1..n /\ n \in Nat
    OBVIOUS
<1>2. s \in [1..n -> Items(s)] /\ \A x \in Items(s) : \E i \in 1..n : s[i] = x
    BY <1>1 DEF Items
<1>3. s \in Surjection(1..n, Items(s)) /\ s \in Injection(1..n, Items(s))
    BY <1>2 DEF Surjection, Injection, IsInjective
<1>4. IsFiniteSet(1..n) /\ Cardinality(1..n) = n
    BY <1>1, FirstFew
<1> HIDE DEF n
<1>5. Cardinality(Items(s)) = Cardinality(1..n)
    BY <1>3, <1>4, FS_Surjection
<1> QED
    BY <1>4, <1>5 DEF Distinct, n

\* One or two nodes of the graph, as a sequence of seeds.
LEMMA SeedsAre ==
    ASSUME CatalogInv, NEW seeds \in SeedChoices
    PROVE  seeds \in Seq(Nat) /\ Items(seeds) \subseteq Ids
<1>1. Ids \subseteq Nat
    BY NodeNamed
<1>2. seeds \in Seq(Ids)
    <2> HIDE DEF Ids
    <2>1. ASSUME NEW i \in Ids, seeds = <<i>> PROVE seeds \in Seq(Ids)
        BY <2>1
    <2>2. ASSUME NEW i \in Ids, NEW j \in Ids, seeds = <<i, j>> PROVE seeds \in Seq(Ids)
        BY <2>2
    <2> QED
        BY <2>1, <2>2 DEF SeedChoices
<1>3. Items(seeds) \subseteq Ids
    BY <1>2, ItemsOf
<1>4. seeds \in Seq(Nat)
    <2>1. seeds \in [1..Len(seeds) -> Ids] /\ Len(seeds) \in Nat
        BY <1>2
    <2>2. \A i \in 1..Len(seeds) : seeds[i] \in Nat
        BY <1>1, <2>1
    <2> QED
        BY <1>2, <2>1, <2>2
<1> QED
    BY <1>3, <1>4

\* What BfsFindsNearest says of a walk of the main graph.
AtTheirDistance(found, both, seeds, depth, limit) ==
    LET R == Within(graph, both, seeds, depth)
    IN  /\ \A k \in 1..Len(found) : found[k].hop \in 0..depth /\ found[k].id \in R[found[k].hop]
        /\ \A k \in 1..Len(found) : found[k].hop > 0 => found[k].id \notin R[found[k].hop - 1]
        /\ \/ {found[k].id : k \in 1..Len(found)} = R[depth]
           \/ Len(found) >= limit

\* A walk of the main graph finds each node once, at its distance from the seeds.
LEMMA GraphFound ==
    ASSUME CatalogInv, NEW both \in BOOLEAN, NEW seeds \in Seq(Nat), NEW depth \in Nat,
           NEW limit \in Nat
    PROVE  /\ BfsExpand(graph, seeds, depth, limit, both) \in Seq(FoundSet(Nat))
           /\ NoneTwice(BfsExpand(graph, seeds, depth, limit, both))
           /\ AtTheirDistance(BfsExpand(graph, seeds, depth, limit, both), both, seeds, depth, limit)
<1>1. Walkable(graph, Nat) /\ NumNodes(graph) \in Nat /\ Closed(graph, both)
    BY GraphWalks
<1>2. 1 \in Nat
    OBVIOUS
<1>3. /\ BfsExpand(graph, seeds, depth, limit, both) \in Seq(FoundSet(Nat))
      /\ NoneTwice(BfsExpand(graph, seeds, depth, limit, both))
    BY <1>1, <1>2, BfsFindsSeeds
<1>4. AtTheirDistance(BfsExpand(graph, seeds, depth, limit, both), both, seeds, depth, limit)
    <2>0. LET found == BfsExpand(graph, seeds, depth, limit, both)
              R == Within(graph, both, seeds, depth)
          IN  /\ \A k \in 1..Len(found) : found[k].hop \in 0..depth /\ found[k].id \in R[found[k].hop]
              /\ \A k \in 1..Len(found) : found[k].hop > 0 => found[k].id \notin R[found[k].hop - 1]
              /\ \/ {found[k].id : k \in 1..Len(found)} = R[depth]
                 \/ Len(found) >= limit
              /\ Len(found) <= limit \/ Len(found) <= Cardinality(Items(seeds)) + 1
        BY <1>1, <1>2, BfsFindsNearest, Zenon
    <2>1. PICK found : found = BfsExpand(graph, seeds, depth, limit, both)
        OBVIOUS
    <2>2. PICK R : R = Within(graph, both, seeds, depth)
        OBVIOUS
    <2>3. /\ \A k \in 1..Len(found) : found[k].hop \in 0..depth /\ found[k].id \in R[found[k].hop]
          /\ \A k \in 1..Len(found) : found[k].hop > 0 => found[k].id \notin R[found[k].hop - 1]
          /\ \/ {found[k].id : k \in 1..Len(found)} = R[depth]
             \/ Len(found) >= limit
        BY ONLY <2>0, <2>1, <2>2
    <2> QED
        BY ONLY <2>1, <2>2, <2>3 DEF AtTheirDistance
<1> QED
    BY <1>3, <1>4

\* What BfsExact says of one walk.
ExactWalk(seeds, depth, limit, bidirectional) ==
    LET found == BfsExpand(graph, seeds, depth, limit, bidirectional)
        dir   == IF bidirectional THEN "both" ELSE "out"
        from  == {NameOf(graph.nodes, s) : s \in Items(seeds)}
        Name(k) == NameOf(graph.nodes, found[k].id)
    IN  /\ Distinct([k \in DOMAIN found |-> found[k].id])
        /\ \A k \in DOMAIN found :
              /\ Name(k) \in Ball(from, found[k].hop, dir)
              /\ found[k].hop > 0 => Name(k) \notin Ball(from, found[k].hop - 1, dir)
        /\ \/ {Name(k) : k \in DOMAIN found} = Ball(from, depth, dir)
           \/ Len(found) >= limit

\* Where no two nodes share a name, each walk of the main graph is exact.
LEMMA EachWalkIsExact ==
    ASSUME CatalogInv, Distinct(EntsOf(graph.nodes)),
           NEW seeds \in SeedChoices,
           NEW depth \in 1..2, NEW limit \in {1, 2, NoLimit}, NEW both \in BOOLEAN
    PROVE  ExactWalk(seeds, depth, limit, both)
<1> DEFINE found == BfsExpand(graph, seeds, depth, limit, both)
           dir == IF both THEN "both" ELSE "out"
           from == {NameOf(graph.nodes, s) : s \in Items(seeds)}
           Name(k) == NameOf(graph.nodes, found[k].id)
           ids == [k \in DOMAIN found |-> found[k].id]
           R == Within(graph, both, seeds, depth)
<1>1. seeds \in Seq(Nat) /\ Items(seeds) \subseteq Ids
    BY SeedsAre
<1>2. depth \in Nat /\ limit \in Nat
    BY LimitType
<1>3. found \in Seq(FoundSet(Nat)) /\ NoneTwice(found) /\ AtTheirDistance(found, both, seeds, depth, limit)
    BY <1>1, <1>2, GraphFound
<1> HIDE DEF found
<1>5. found \in Seq(FoundSet(Nat)) /\ NoneTwice(found)
    BY <1>3
<1>6. /\ \A k \in 1..Len(found) : found[k].hop \in 0..depth /\ found[k].id \in R[found[k].hop]
      /\ \A k \in 1..Len(found) : found[k].hop > 0 => found[k].id \notin R[found[k].hop - 1]
      /\ {found[k].id : k \in 1..Len(found)} = R[depth] \/ Len(found) >= limit
    BY <1>3 DEF AtTheirDistance
<1>7. \A k \in 0..depth : R[k] \subseteq Ids /\ Ball(from, k, dir) = Renamed(R[k])
    <2>1. from = Renamed(Items(seeds))
        BY DEF Renamed
    <2>2. dir = IF both THEN "both" ELSE "out"
        OBVIOUS
    <2> HIDE DEF from, dir
    <2> QED
        BY <1>1, <1>2, <2>1, <2>2, BallIsWithin
<1>8. \A i, j \in Ids : NameOf(graph.nodes, i) = NameOf(graph.nodes, j) => i = j
    BY GraphNamedOnce
<1> HIDE DEF R, dir, from
<1>9. DOMAIN found = 1..Len(found) /\ Len(found) \in Nat
    BY <1>5
<1>10. Distinct(ids)
    <2>1. \A k \in 1..Len(found) : found[k].id \in Nat
        <3>1. \A k \in 1..Len(found) : found[k] \in FoundSet(Nat)
            BY <1>5
        <3> QED
            BY <3>1 DEF FoundSet
    <2>2. ids \in [1..Len(found) -> Nat] /\ \A k \in 1..Len(found) : ids[k] = found[k].id
        BY <1>9, <2>1
    <2> HIDE DEF ids
    <2>3. ids \in Seq(Nat) /\ Len(ids) = Len(found)
        BY <1>9, <2>2, DefinedSeq
    <2>4. \A j, k \in 1..Len(ids) : ids[j] = ids[k] => j = k
        BY <1>5, <1>9, <2>2, <2>3 DEF NoneTwice
    <2> QED
        BY <2>3, <2>4, OnceIsDistinct
<1>11. ASSUME NEW k \in 1..Len(found)
       PROVE  /\ Name(k) \in Ball(from, found[k].hop, dir)
              /\ found[k].hop > 0 => Name(k) \notin Ball(from, found[k].hop - 1, dir)
    <2>1. found[k].hop \in 0..depth /\ found[k].id \in R[found[k].hop]
        BY <1>6
    <2>2. Name(k) \in Ball(from, found[k].hop, dir)
        BY <1>7, <2>1 DEF Renamed
    <2>3. ASSUME found[k].hop > 0, Name(k) \in Ball(from, found[k].hop - 1, dir) PROVE FALSE
        <3>1. found[k].hop - 1 \in 0..depth
            BY <1>2, <2>1, <2>3
        <3>2. PICK x \in R[found[k].hop - 1] : Name(k) = NameOf(graph.nodes, x)
            BY <1>7, <2>3, <3>1 DEF Renamed
        <3>3. x \in Ids /\ found[k].id \in Ids
            BY <1>7, <2>1, <3>1
        <3>4. x = found[k].id
            BY <1>8, <3>2, <3>3
        <3> QED
            BY <1>6, <2>3, <3>4
    <2> QED
        BY <2>2, <2>3
<1>12. {Name(k) : k \in DOMAIN found} = Ball(from, depth, dir) \/ Len(found) >= limit
    <2>1. ASSUME {found[k].id : k \in 1..Len(found)} = R[depth]
          PROVE  {Name(k) : k \in DOMAIN found} = Ball(from, depth, dir)
        <3>1. depth \in 0..depth
            BY <1>2
        <3>2. Ball(from, depth, dir) = Renamed(R[depth])
            BY <1>7, <3>1
        <3>3. Renamed(R[depth]) = {Name(k) : k \in DOMAIN found}
            BY <1>9, <2>1 DEF Renamed
        <3> QED
            BY <3>2, <3>3
    <2> QED
        BY <1>6, <2>1
<1>15. \A k \in DOMAIN found :
          /\ Name(k) \in Ball(from, found[k].hop, dir)
          /\ found[k].hop > 0 => Name(k) \notin Ball(from, found[k].hop - 1, dir)
    BY <1>9, <1>11
<1> QED
    BY ONLY <1>10, <1>12, <1>15, Zenon DEF ExactWalk, found, dir, from

\* bfs_expand finds each node of the main graph once and with its distance from the
\* nearest seed, by what callers linked, and all of them up to the depth unless it
\* has found as many as the limit says.
THEOREM WalksAreExact ==
    ASSUME OneAtATime
    PROVE  Spec => []BfsExact
<1>1. ASSUME CatalogInv PROVE BfsExact
    <2>1. CASE Distinct(EntsOf(graph.nodes))
        <3>1. \A seeds \in SeedChoices, depth \in 1..2,
                 limit \in {1, 2, NoLimit}, bidirectional \in BOOLEAN :
                    ExactWalk(seeds, depth, limit, bidirectional)
            BY <1>1, <2>1, EachWalkIsExact
        <3> QED
            BY ONLY <3>1, Zenon DEF BfsExact, ExactWalk
    <2>2. CASE ~ Distinct(EntsOf(graph.nodes))
        BY ONLY <2>2, Zenon DEF BfsExact
    <2> QED
        BY <2>1, <2>2
<1> QED
    BY <1>1, CatalogInvariant, PTL

(***************************************************************************)
(* Edge searches.                                                          *)
(***************************************************************************)
Origin == [type : EdgeTypes, weight : Nat, dim : Dims]

\* What a handler knows of an edge of the graph: the edge or only its ends.
Described == EdgeType \cup [from : Nat, to : Nat, origin : Origin]

\* No two edges of a list have the same ends.
PairsOnce(s) == \A i, j \in 1..Len(s) : s[i].from = s[j].from /\ s[i].to = s[j].to => i = j

SameEdge(x, e) == x.from = e.from /\ x.to = e.to /\ x.origin = e.origin

\* h lists the edges between the given ends.
IsEdgeList(h, es, from, to) ==
    /\ h \in Seq(Described) /\ PairsOnce(h)
    /\ \A x \in Items(h) : \E e \in Items(es) :
           SameEdge(x, e) /\ Admits(from, e.from) /\ Admits(to, e.to)
    /\ \A e \in Items(es) : Admits(from, e.from) /\ Admits(to, e.to) =>
           \E x \in Items(h) : SameEdge(x, e)

\* What is picked comes from its places, from each once.
PickedFrom(t, s, places) ==
    \E o \in [1..Len(t) -> places] :
        /\ \A k \in 1..Len(t) : t[k] = s[o[k]]
        /\ \A i, j \in 1..Len(t) : o[i] = o[j] => i = j

LEMMA PickedOnce ==
    ASSUME NEW S, NEW s \in Seq(S), NEW places, places \subseteq 1..Len(s)
    PROVE  PickedFrom(At(s, places), s, places)
<1> DEFINE t == At(s, places)
<1>1. IsKept(t, s, places)
    BY AtProperties
<1> HIDE DEF t
<1>2. PICK rank \in Bijection(places, 1..Len(t)) : \A i \in places : t[rank[i]] = s[i]
    BY <1>1 DEF IsKept
<1>3. \A k \in 1..Len(t) : \E p \in places : rank[p] = k
    BY DEF Bijection, Surjection
<1> DEFINE o == [k \in 1..Len(t) |-> CHOOSE p \in places : rank[p] = k]
<1>4. \A k \in 1..Len(t) : o[k] \in places /\ rank[o[k]] = k
    BY <1>3
<1>5. o \in [1..Len(t) -> places]
    BY <1>4
<1> HIDE DEF o
<1>6. \A k \in 1..Len(t) : t[k] = s[o[k]]
    BY <1>2, <1>4
<1>7. \A i, j \in 1..Len(t) : o[i] = o[j] => i = j
    BY <1>4
<1>8. PickedFrom(t, s, places)
    BY <1>5, <1>6, <1>7 DEF PickedFrom
<1> QED
    BY <1>8 DEF t

\* Picked edges have each pair of ends once where the list has.
LEMMA PickedPairs ==
    ASSUME NEW S, NEW s \in Seq(S), NEW places, places \subseteq 1..Len(s), PairsOnce(s)
    PROVE  PairsOnce(At(s, places))
<1> DEFINE t == At(s, places)
<1>1. PickedFrom(t, s, places)
    BY PickedOnce
<1> HIDE DEF t
<1>2. PICK o \in [1..Len(t) -> places] :
        /\ \A k \in 1..Len(t) : t[k] = s[o[k]]
        /\ \A i, j \in 1..Len(t) : o[i] = o[j] => i = j
    BY <1>1 DEF PickedFrom
<1>3. \A k \in 1..Len(t) : o[k] \in 1..Len(s)
    OBVIOUS
<1>4. PairsOnce(t)
    BY <1>2, <1>3 DEF PairsOnce
<1> QED
    BY <1>4 DEF t

\* The edges of a list that pass a filter on their ends.
LEMMA FilteredEdges ==
    ASSUME NEW s \in Seq(EdgeType), PairsOnce(s), NEW from, NEW to, NEW places, places \subseteq 1..Len(s),
           \A i \in 1..Len(s) : i \in places <=> Admits(from, s[i].from) /\ Admits(to, s[i].to)
    PROVE  IsEdgeList(At(s, places), s, from, to) /\ Len(At(s, places)) <= Len(s)
<1> DEFINE t == At(s, places)
<1>1. t \in Seq(EdgeType) /\ Len(t) = Cardinality(places)
    BY AtProperties
<1>2. Items(t) = {s[i] : i \in places}
    BY AtItems
<1>3. PairsOnce(t)
    BY PickedPairs
<1> HIDE DEF t
<1>4. t \in Seq(Described)
    <2>1. EdgeType \subseteq Described
        BY DEF Described
    <2> QED
        BY <1>1, <2>1, SeqMonotonic
<1>5. DOMAIN s = 1..Len(s) /\ Len(s) \in Nat
    OBVIOUS
<1>6. \A x \in Items(t) : \E e \in Items(s) : SameEdge(x, e) /\ Admits(from, e.from) /\ Admits(to, e.to)
    BY <1>2, <1>5 DEF Items, SameEdge
<1>7. \A e \in Items(s) : Admits(from, e.from) /\ Admits(to, e.to) => \E x \in Items(t) : SameEdge(x, e)
    BY <1>2, <1>5 DEF Items, SameEdge
<1>8. Cardinality(places) <= Len(s)
    BY <1>5, Positions
<1>9. IsEdgeList(t, s, from, to) /\ Len(t) <= Len(s)
    BY <1>1, <1>3, <1>4, <1>6, <1>7, <1>8 DEF IsEdgeList
<1> QED
    BY <1>9 DEF t

\* Of two given ends there is at most one edge, so the first is all of them.
LEMMA FirstIsAll ==
    ASSUME NEW S, NEW t \in Seq(S), PairsOnce(t), NEW a, NEW b,
           \A i \in 1..Len(t) : t[i].from = a /\ t[i].to = b
    PROVE  Take(1, t) = t
<1>1. Len(t) \in Nat
    OBVIOUS
<1>2. Len(t) <= 1
    <2> SUFFICES ASSUME Len(t) > 1 PROVE FALSE
        BY <1>1
    <2>1. 1 \in 1..Len(t) /\ 2 \in 1..Len(t)
        BY <1>1
    <2>2. 1 = 2
        BY ONLY <2>1, PairsOnce(t), \A i \in 1..Len(t) : t[i].from = a /\ t[i].to = b DEF PairsOnce
    <2> QED
        BY <2>2
<1>3. (IF 1 < Len(t) THEN 1 ELSE Len(t)) = Len(t)
    BY <1>1, <1>2
<1>4. SubSeq(t, 1, Len(t)) = t
    BY <1>1
<1> QED
    BY <1>3, <1>4 DEF Take

\* Packing a list does not join the ends of its edges anew.
LEMMA PackedPairs ==
    ASSUME NEW g, NEW es, BuiltFrom(g, es), PairsOnce(AllEdges(g))
    PROVE  PairsOnce(es) /\ Len(AllEdges(g)) = Len(es)
<1> DEFINE m == Len(es)
           all == AllEdges(g)
<1>1. /\ g = Build(g.nodes, es) /\ Len(g.nodes) \in Nat
      /\ es \in Seq(EdgeSet(Names, Origin)) /\ Inside(es, Len(g.nodes))
    BY DEF BuiltFrom, Origin
<1>2. /\ Len(AllEdges(Build(g.nodes, es))) = m
      /\ \E place \in Bijection(1..m, 1..m) :
            \A j \in 1..m : AllEdges(Build(g.nodes, es))[place[j]] = es[j]
    BY <1>1, PackingKeepsEdges
<1>3. Len(all) = m /\ \E place \in Bijection(1..m, 1..m) : \A j \in 1..m : all[place[j]] = es[j]
    BY <1>1, <1>2
<1>4. PICK place \in Bijection(1..m, 1..m) : \A j \in 1..m : all[place[j]] = es[j]
    BY <1>3
<1>5. /\ \A j \in 1..m : place[j] \in 1..m
      /\ \A i, j \in 1..m : place[i] = place[j] => i = j
    BY DEF Bijection, Injection, IsInjective
<1> HIDE DEF all, m
<1>6. ASSUME NEW i \in 1..m, NEW j \in 1..m, es[i].from = es[j].from, es[i].to = es[j].to PROVE i = j
    <2>1. all[place[i]] = es[i] /\ all[place[j]] = es[j] /\ place[i] \in 1..m /\ place[j] \in 1..m
        BY <1>4, <1>5
    <2>2. \A a, b \in 1..m : all[a].from = all[b].from /\ all[a].to = all[b].to => a = b
        BY <1>3 DEF PairsOnce, all
    <2>3. place[i] = place[j]
        BY ONLY <1>6, <2>1, <2>2
    <2> QED
        BY <1>5, <2>3
<1> QED
    BY <1>3, <1>6 DEF PairsOnce, all, m

\* The edges into a node: one for each of its heads, whose first edge to the node
\* is the only one.
LEMMA ToEdgesListed ==
    ASSUME NEW g, NEW es, BuiltFrom(g, es), PairsOnce(AllEdges(g)), NEW id \in Nat, id < Len(g.nodes)
    PROVE  IsEdgeList(ToEdges(g, id), AllEdges(g), {}, {id}) /\ Len(ToEdges(g, id)) <= Len(g.edges)
<1> DEFINE back == RevNeighbors(g, id)
           D == {j \in 1..Len(es) : es[j].to = id}
           h == ToEdges(g, id)
           first(x) == Between(g, x, id)[1]
<1>1. /\ g = Build(g.nodes, es) /\ Len(g.nodes) \in Nat
      /\ es \in Seq(EdgeSet(Names, Origin)) /\ Inside(es, Len(g.nodes))
    BY DEF BuiltFrom, Origin
<1>2. PairsOnce(es)
    BY PackedPairs
<1>3. \A e : e \in Items(AllEdges(g)) <=> e \in Items(es)
    BY <1>1, BuiltSame
<1>4. back \in Seq(Nat) /\ RevPlaced(back, es, id)
    BY RevOnce
<1>5. Len(back) <= Len(g.edges)
    BY NeighborCounts
<1>6. h = [k \in DOMAIN back |-> [from |-> back[k], to |-> id, origin |-> first(back[k]).origin]]
    BY DEF ToEdges
<1> HIDE DEF back, h
<1>7. PICK f \in Bijection(D, 1..Len(back)) : \A j \in 1..Len(es) : es[j].to = id => back[f[j]] = es[j].from
    BY <1>4 DEF RevPlaced
<1>8. /\ \A j \in D : f[j] \in 1..Len(back)
      /\ \A k \in 1..Len(back) : \E j \in D : f[j] = k
    BY DEF Bijection, Injection, Surjection
<1>9. ASSUME NEW j \in D PROVE first(es[j].from).origin = es[j].origin
    <2> DEFINE from == es[j].from
               L == Between(g, from, id)
    <2>1. es[j] \in EdgeSet(Names, Origin) /\ es[j] \in Items(es)
        BY <1>1, ItemsOf
    <2>2. from \in Nat
        BY <2>1 DEF EdgeSet
    <2> HIDE DEF from
    <2>3. /\ Between(Build(g.nodes, es), from, id) \in Seq(LinkSet(Names, Origin))
          /\ \A x : x \in Items(Between(Build(g.nodes, es), from, id)) <=>
                  \E e \in LinksOf(es, from, id) : x = Targetless(e)
          /\ Between(Build(g.nodes, es), from, id) # <<>> <=> LinksOf(es, from, id) # {}
        BY <1>1, <2>2, BetweenOf
    <2>4. /\ L \in Seq(LinkSet(Names, Origin))
          /\ \A x : x \in Items(L) <=> \E e \in LinksOf(es, from, id) : x = Targetless(e)
          /\ L # <<>> <=> LinksOf(es, from, id) # {}
        BY ONLY <1>1, <2>3
    <2>5. es[j] \in LinksOf(es, from, id)
        BY <2>1 DEF LinksOf, from
    <2> HIDE DEF L
    <2>6. 1 \in 1..Len(L)
        <3>1. L # <<>>
            BY <2>4, <2>5
        <3> QED
            BY <2>4, <3>1
    <2>7. L[1] \in Items(L)
        BY <2>4, <2>6, ItemsOf
    <2>8. PICK e \in LinksOf(es, from, id) : L[1] = Targetless(e)
        BY <2>4, <2>7
    <2>9. PICK i \in 1..Len(es) : e = es[i]
        BY <1>1, ItemsOf DEF LinksOf
    <2>10. i = j
        BY <1>2, <2>5, <2>8, <2>9 DEF PairsOnce, LinksOf
    <2> QED
        BY <2>8, <2>9, <2>10 DEF L, from, Targetless
<1> HIDE DEF first
<1>10. DOMAIN back = 1..Len(back) /\ Len(back) \in Nat
    BY <1>4
<1>11. ASSUME NEW j \in D
       PROVE  /\ h[f[j]] = [from |-> es[j].from, to |-> id, origin |-> es[j].origin]
              /\ h[f[j]].from = es[j].from /\ SameEdge(h[f[j]], es[j])
              /\ es[j] \in Items(AllEdges(g)) /\ es[j].to = id
              /\ es[j].from \in Nat /\ es[j].origin \in Origin
    <2>1. es[j] \in EdgeSet(Names, Origin) /\ es[j] \in Items(es) /\ es[j].to = id
        BY <1>1, ItemsOf
    <2>2. back[f[j]] = es[j].from /\ f[j] \in 1..Len(back)
        BY <1>7, <1>8
    <2>3. h[f[j]] = [from |-> es[j].from, to |-> id, origin |-> es[j].origin]
        BY <1>6, <1>9, <1>10, <2>2
    <2>4. h[f[j]].from = es[j].from /\ SameEdge(h[f[j]], es[j])
        BY ONLY <2>1, <2>3 DEF SameEdge
    <2> QED
        BY <1>3, <2>1, <2>3, <2>4 DEF EdgeSet
<1> HIDE DEF D
<1>12. h \in Seq(Described) /\ Len(h) = Len(back)
    <2>1. DOMAIN h = 1..Len(back)
        BY <1>6, <1>10
    <2>2. ASSUME NEW k \in 1..Len(back) PROVE h[k] \in Described
        <3>1. PICK j \in D : f[j] = k
            BY <1>8
        <3>2. h[k] = [from |-> es[j].from, to |-> id, origin |-> es[j].origin]
            BY <1>11, <3>1
        <3>3. h[k] \in [from : Nat, to : Nat, origin : Origin]
            BY <1>11, <3>2
        <3> QED
            BY <3>3 DEF Described
    <2>3. h = [k \in 1..Len(back) |-> h[k]]
        BY <1>6, <1>10
    <2>4. h \in [1..Len(back) -> Described]
        BY <2>2, <2>3
    <2> QED
        BY <1>10, <2>4, DefinedSeq
<1>13. PairsOnce(h)
    <2> SUFFICES ASSUME NEW k \in 1..Len(h), NEW l \in 1..Len(h), h[k].from = h[l].from PROVE k = l
        BY DEF PairsOnce
    <2>1. PICK i \in D : f[i] = k
        BY <1>8, <1>12
    <2>2. PICK j \in D : f[j] = l
        BY <1>8, <1>12
    <2>3. es[i].from = es[j].from /\ es[i].to = es[j].to
        <3>1. h[f[i]].from = es[i].from /\ h[f[j]].from = es[j].from /\ es[i].to = es[j].to
            BY <1>11
        <3> QED
            BY <2>1, <2>2, <3>1
    <2>4. i \in 1..Len(es) /\ j \in 1..Len(es)
        BY DEF D
    <2>5. i = j
        BY <1>2, <2>3, <2>4 DEF PairsOnce
    <2> QED
        BY <2>1, <2>2, <2>5
<1>14. \A k \in 1..Len(h) : h[k] \in Items(h) /\ \A x \in Items(h) : \E i \in 1..Len(h) : h[i] = x
    BY <1>12, ItemsOf
<1>15. ASSUME NEW x \in Items(h)
       PROVE  \E e \in Items(AllEdges(g)) : SameEdge(x, e) /\ Admits({}, e.from) /\ Admits({id}, e.to)
    <2>1. PICK k \in 1..Len(h) : h[k] = x
        BY <1>12, ItemsOf
    <2>2. PICK j \in D : f[j] = k
        BY <1>8, <1>12, <2>1
    <2>3. x = [from |-> es[j].from, to |-> id, origin |-> es[j].origin]
        BY <1>11, <2>1, <2>2
    <2> QED
        BY <1>11, <2>3 DEF SameEdge, Admits
<1>16. ASSUME NEW e \in Items(AllEdges(g)), Admits({id}, e.to) PROVE \E x \in Items(h) : SameEdge(x, e)
    <2>1. PICK j \in 1..Len(es) : e = es[j]
        BY <1>1, <1>3, ItemsOf
    <2>2. j \in D
        BY <1>16, <2>1 DEF D, Admits
    <2>3. f[j] \in 1..Len(h)
        BY <1>8, <1>12, <2>2
    <2>4. h[f[j]] \in Items(h) /\ SameEdge(h[f[j]], e)
        BY <1>11, <1>14, <2>1, <2>2, <2>3
    <2> QED
        BY <2>4
<1>17. IsEdgeList(h, AllEdges(g), {}, {id})
    BY <1>12, <1>13, <1>15, <1>16 DEF IsEdgeList
<1> QED
    BY <1>5, <1>12, <1>17 DEF h

\* What a search reads of the graph, whichever ends are given.
LEMMA GraphEdgesListed ==
    ASSUME CatalogInv, PairsOnce(AllEdges(graph)), NEW from \in Optional(Ids), NEW to \in Optional(Ids)
    PROVE  /\ IsEdgeList(GraphEdges(from, to, graph), AllEdges(graph), from, to)
           /\ Len(GraphEdges(from, to, graph)) <= Len(graph.edges)
<1> DEFINE all == AllEdges(graph)
           h == GraphEdges(from, to, graph)
           fits == {i \in DOMAIN all : Admits(from, all[i].from) /\ Admits(to, all[i].to)}
<1>1. PICK es : BuiltFrom(graph, es)
    BY GraphIsBuilt DEF CatalogInv, ShapeInv
<1>2. Len(graph.edges) = Len(all)
    <2>1. /\ graph = Build(graph.nodes, es) /\ Len(graph.nodes) \in Nat /\ es \in Seq(EdgeSet(Names, Origin))
        BY <1>1 DEF BuiltFrom, Origin
    <2>2. Len(Build(graph.nodes, es).edges) = Len(es)
        BY <2>1, BuildArrays
    <2>3. Len(graph.edges) = Len(es)
        BY ONLY <2>1, <2>2
    <2> QED
        BY <1>1, <2>3, PackedPairs
<1>3. all \in Seq(EdgeType) /\ DOMAIN all = 1..Len(all)
    BY InvTypes
<1>4. from = {} \/ \E a \in Ids : from = {a}
    BY DEF Optional
<1>5. to = {} \/ \E b \in Ids : to = {b}
    BY DEF Optional
<1>6. IsEdgeList(At(all, fits), all, from, to) /\ Len(At(all, fits)) <= Len(all)
    BY <1>3, FilteredEdges
<1>7. CASE from # {} /\ to # {}
    <2> DEFINE both == {i \in DOMAIN all : all[i].from \in from /\ all[i].to \in to}
    <2>1. both = fits
        BY <1>7 DEF Admits
    <2>2. h = Take(1, Selected(all, LAMBDA e : e.from \in from /\ e.to \in to))
        BY <1>7 DEF GraphEdges
    <2>3. h = Take(1, At(all, both))
        BY <2>2 DEF Selected
    <2>4. PICK a, b \in Ids : from = {a} /\ to = {b}
        BY <1>4, <1>5, <1>7
    <2>5. Items(At(all, fits)) = {all[i] : i \in fits} /\ At(all, fits) \in Seq(EdgeType)
        BY <1>3, AtItems, AtProperties
    <2>6. \A x \in Items(At(all, fits)) : x.from = a /\ x.to = b
        BY <2>4, <2>5 DEF Admits
    <2>7. \A i \in 1..Len(At(all, fits)) : At(all, fits)[i].from = a /\ At(all, fits)[i].to = b
        BY <2>5, <2>6, ItemsOf
    <2>8. PairsOnce(At(all, fits))
        BY <1>6 DEF IsEdgeList
    <2>9. Take(1, At(all, fits)) = At(all, fits)
        BY <2>5, <2>7, <2>8, FirstIsAll
    <2>10. h = At(all, fits)
        BY <2>1, <2>3, <2>9
    <2> QED
        BY <1>2, <1>6, <2>10
<1>8. CASE from = {} /\ to # {}
    <2>1. PICK b \in Ids : to = {b}
        BY <1>5, <1>8
    <2>2. (CHOOSE id \in to : TRUE) = b
        BY <2>1
    <2>3. h = ToEdges(graph, b)
        BY <1>8, <2>2 DEF GraphEdges
    <2>4. b \in Nat /\ b + 1 \in 1..Len(graph.nodes) /\ Len(graph.nodes) \in Nat
        BY InvTypes, NodeNamed
    <2>5. b < Len(graph.nodes)
        BY <2>4
    <2>6. IsEdgeList(ToEdges(graph, b), AllEdges(graph), {}, {b})
          /\ Len(ToEdges(graph, b)) <= Len(graph.edges)
        BY <1>1, <2>4, <2>5, ToEdgesListed
    <2> QED
        BY <1>8, <2>1, <2>3, <2>6
<1>9. CASE to = {}
    <2>1. h = Selected(all, LAMBDA e : Admits(from, e.from))
        BY <1>9 DEF GraphEdges
    <2>2. h = At(all, {i \in DOMAIN all : Admits(from, all[i].from)})
        BY <2>1 DEF Selected
    <2>3. {i \in DOMAIN all : Admits(from, all[i].from)} = fits
        BY <1>9 DEF Admits
    <2>4. h = At(all, fits)
        BY <2>2, <2>3
    <2> QED
        BY <1>2, <1>6, <2>4
<1> QED
    BY <1>7, <1>8, <1>9

EntryType == [from : Nat, to : Nat, fromName : Names, toName : Names, type : EdgeTypes]

Fits(e, from, to, type) == Admits(from, e.from) /\ Admits(to, e.to) /\ OfType(type, e)

\* An entry of an answer tells an edge as its caller gave it.
Tells(x, e) ==
    /\ x.from = e.from /\ x.to = e.to
    /\ x.fromName = e.src /\ x.toName = e.dst /\ x.type = e.origin.type

\* The entries tell the edges of a list that pass the filters, each once.
IsFound(found, es, from, to, type) ==
    /\ found \in Seq(EntryType) /\ PairsOnce(found)
    /\ \A x \in Items(found) : \E e \in Items(es) : Tells(x, e) /\ Fits(e, from, to, type)
    /\ \A e \in Items(es) : Fits(e, from, to, type) => \E x \in Items(found) : Tells(x, e)

LEMMA EntriesFound ==
    ASSUME NEW S, NEW m \in Seq(S), PairsOnce(m), NEW es, NEW from, NEW to, NEW type,
           \A x \in Items(m) : \E e \in Items(es) : SameEdge(x, e) /\ Fits(e, from, to, type),
           \A e \in Items(es) : Fits(e, from, to, type) => \E x \in Items(m) : SameEdge(x, e),
           NEW found \in [1..Len(m) -> EntryType],
           \A k \in 1..Len(m) : \A e \in Items(es) : SameEdge(m[k], e) => Tells(found[k], e)
    PROVE  IsFound(found, es, from, to, type) /\ Len(found) = Len(m)
<1>1. found \in Seq(EntryType) /\ Len(found) = Len(m)
    <2>1. Len(m) \in Nat
        OBVIOUS
    <2> QED
        BY <2>1, DefinedSeq
<1>2. \A k \in 1..Len(m) : m[k] \in Items(m) /\ \A x \in Items(m) : \E i \in 1..Len(m) : m[i] = x
    BY ItemsOf
<1>3. \A k \in 1..Len(m) : found[k] \in Items(found)
    BY <1>1, ItemsOf
<1>4. ASSUME NEW k \in 1..Len(m)
      PROVE  /\ \E e \in Items(es) : Tells(found[k], e) /\ Fits(e, from, to, type)
             /\ found[k].from = m[k].from /\ found[k].to = m[k].to
    <2>1. PICK e \in Items(es) : SameEdge(m[k], e) /\ Fits(e, from, to, type)
        BY <1>2
    <2>2. Tells(found[k], e)
        BY <2>1
    <2>3. found[k].from = m[k].from /\ found[k].to = m[k].to
        BY <2>1, <2>2 DEF Tells, SameEdge
    <2> QED
        BY <2>1, <2>2, <2>3
<1>5. PairsOnce(found)
    BY <1>1, <1>4 DEF PairsOnce
<1>6. ASSUME NEW x \in Items(found)
      PROVE  \E e \in Items(es) : Tells(x, e) /\ Fits(e, from, to, type)
    <2>1. PICK k \in 1..Len(m) : found[k] = x
        BY <1>1, ItemsOf
    <2> QED
        BY <1>4, <2>1
<1>7. ASSUME NEW e \in Items(es), Fits(e, from, to, type) PROVE \E x \in Items(found) : Tells(x, e)
    <2>1. PICK y \in Items(m) : SameEdge(y, e)
        BY <1>7
    <2>2. PICK k \in 1..Len(m) : m[k] = y
        BY ItemsOf
    <2>3. Tells(found[k], e)
        BY <2>1, <2>2
    <2> QED
        BY <1>3, <2>3
<1> QED
    BY <1>1, <1>5, <1>6, <1>7 DEF IsFound

\* The graph's part of an answer and the buffer's part.
LEMMA FoundJoined ==
    ASSUME NEW es \in Seq(EdgeType), NEW fs \in Seq(EdgeType), PairsOnce(es \o fs),
           NEW p, NEW q, NEW from, NEW to, NEW type,
           IsFound(p, es, from, to, type), IsFound(q, fs, from, to, type)
    PROVE  IsFound(p \o q, es \o fs, from, to, type)
<1> DEFINE r == p \o q
           all == es \o fs
<1>1. /\ p \in Seq(EntryType) /\ PairsOnce(p) /\ q \in Seq(EntryType) /\ PairsOnce(q)
      /\ \A x \in Items(p) : \E e \in Items(es) : Tells(x, e) /\ Fits(e, from, to, type)
      /\ \A e \in Items(es) : Fits(e, from, to, type) => \E x \in Items(p) : Tells(x, e)
      /\ \A x \in Items(q) : \E e \in Items(fs) : Tells(x, e) /\ Fits(e, from, to, type)
      /\ \A e \in Items(fs) : Fits(e, from, to, type) => \E x \in Items(q) : Tells(x, e)
    BY DEF IsFound
<1>2. /\ r \in Seq(EntryType) /\ Len(r) = Len(p) + Len(q)
      /\ \A i \in 1..Len(p) : r[i] = p[i]
      /\ \A i \in 1..Len(q) : r[Len(p) + i] = q[i]
      /\ \A x : x \in Items(r) <=> x \in Items(p) \/ x \in Items(q)
    BY <1>1, ConcatItems
<1>3. /\ Len(all) = Len(es) + Len(fs)
      /\ \A i \in 1..Len(es) : all[i] = es[i]
      /\ \A i \in 1..Len(fs) : all[Len(es) + i] = fs[i]
      /\ \A x : x \in Items(all) <=> x \in Items(es) \/ x \in Items(fs)
    BY ConcatItems
<1>4. Len(p) \in Nat /\ Len(q) \in Nat /\ Len(es) \in Nat /\ Len(fs) \in Nat
    BY <1>1
<1> HIDE DEF r
<1>5. ASSUME NEW x \in Items(p), NEW y \in Items(q), x.from = y.from, x.to = y.to PROVE FALSE
    <2>1. PICK e \in Items(es) : Tells(x, e)
        BY <1>1
    <2>2. PICK f \in Items(fs) : Tells(y, f)
        BY <1>1
    <2>3. PICK i \in 1..Len(es) : es[i] = e
        BY ItemsOf
    <2>4. PICK j \in 1..Len(fs) : fs[j] = f
        BY ItemsOf
    <2>5. all[i] = e /\ all[Len(es) + j] = f
        BY <1>3, <2>3, <2>4
    <2>6. i \in 1..Len(all) /\ Len(es) + j \in 1..Len(all) /\ i # Len(es) + j
        BY <1>3, <1>4
    <2>7. e.from = f.from /\ e.to = f.to
        BY <1>5, <2>1, <2>2 DEF Tells
    <2> HIDE DEF all
    <2>8. \A a, b \in 1..Len(all) : all[a].from = all[b].from /\ all[a].to = all[b].to => a = b
        BY DEF PairsOnce, all
    <2> QED
        BY ONLY <2>5, <2>6, <2>7, <2>8
<1>6. ASSUME NEW i \in 1..Len(r)
      PROVE  \/ i \in 1..Len(p) /\ r[i] = p[i] /\ r[i] \in Items(p)
             \/ i - Len(p) \in 1..Len(q) /\ r[i] = q[i - Len(p)] /\ r[i] \in Items(q)
    <2>1. CASE i <= Len(p)
        <3>1. i \in 1..Len(p)
            BY <1>4, <2>1
        <3> QED
            BY <1>1, <1>2, <3>1, ItemsOf
    <2>2. CASE ~ (i <= Len(p))
        <3>1. i - Len(p) \in 1..Len(q) /\ Len(p) + (i - Len(p)) = i
            BY <1>2, <1>4, <2>2
        <3>2. r[i] = q[i - Len(p)]
            BY <1>2, <3>1
        <3> QED
            BY <1>1, <3>1, <3>2, ItemsOf
    <2> QED
        BY <2>1, <2>2
<1>7. PairsOnce(r)
    <2> SUFFICES ASSUME NEW i \in 1..Len(r), NEW j \in 1..Len(r), r[i].from = r[j].from, r[i].to = r[j].to
                 PROVE  i = j
        BY DEF PairsOnce
    <2>1. CASE i \in 1..Len(p) /\ r[i] = p[i] /\ j \in 1..Len(p) /\ r[j] = p[j]
        BY <1>1, <2>1 DEF PairsOnce
    <2>2. CASE /\ i - Len(p) \in 1..Len(q) /\ r[i] = q[i - Len(p)]
               /\ j - Len(p) \in 1..Len(q) /\ r[j] = q[j - Len(p)]
        <3>1. i - Len(p) = j - Len(p)
            BY <1>1, <2>2 DEF PairsOnce
        <3>2. i \in Nat /\ j \in Nat
            BY <1>2, <1>4
        <3> QED
            BY <1>4, <3>1, <3>2
    <2> QED
        BY <1>5, <1>6, <2>1, <2>2
<1>8. ASSUME NEW x \in Items(r)
      PROVE  \E e \in Items(all) : Tells(x, e) /\ Fits(e, from, to, type)
    BY <1>1, <1>2, <1>3
<1>9. ASSUME NEW e \in Items(all), Fits(e, from, to, type) PROVE \E x \in Items(r) : Tells(x, e)
    BY <1>1, <1>2, <1>3, <1>9
<1>10. IsFound(r, all, from, to, type)
    BY <1>2, <1>7, <1>8, <1>9 DEF IsFound
<1> QED
    BY <1>10 DEF r

Told(found) == [k \in DOMAIN found |-> [src |-> found[k].fromName, dst |-> found[k].toName,
                                        type |-> found[k].type]]

Fitting(es, from, to, type) == {k \in 1..Len(es) : Fits(es[k], from, to, type)}

\* Where no two edges were given the same ends, such an answer has by name what
\* callers said, each thing as often as they said it.
LEMMA FoundIsSaid ==
    ASSUME NEW all \in Seq(EdgeType), NEW found, NEW from, NEW to, NEW type,
           IsFound(found, all, from, to, type),
           \A i, j \in 1..Len(all) : all[i].src = all[j].src /\ all[i].dst = all[j].dst => i = j
    PROVE  SameBag(Told(found), At(Said(all), Fitting(all, from, to, type)))
<1> DEFINE D == {p \in 1..Len(all) : Fits(all[p], from, to, type)}
           said == Said(all)
           t == At(said, D)
           s == [k \in DOMAIN found |-> [src |-> found[k].fromName, dst |-> found[k].toName,
                                         type |-> found[k].type]]
<1>1. /\ found \in Seq(EntryType) /\ PairsOnce(found)
      /\ \A x \in Items(found) : \E e \in Items(all) : Tells(x, e) /\ Fits(e, from, to, type)
      /\ \A e \in Items(all) : Fits(e, from, to, type) => \E x \in Items(found) : Tells(x, e)
    BY DEF IsFound
<1>2. DOMAIN found = 1..Len(found) /\ Len(found) \in Nat /\ \A k \in 1..Len(found) : found[k] \in EntryType
    BY <1>1
<1>3. said \in Seq(SaidType) /\ Len(said) = Len(all) /\ \A k \in 1..Len(all) : said[k] = SaidOf(all[k])
    BY SaidItems
<1> HIDE DEF said
<1>4. t \in Seq(SaidType) /\ IsKept(t, said, D)
    BY <1>3, AtProperties
<1> HIDE DEF t
<1>5. PICK rank \in Bijection(D, 1..Len(t)) : \A p \in D : t[rank[p]] = said[p]
    BY <1>4 DEF IsKept
<1>6. s \in Seq(SaidType) /\ Len(s) = Len(found)
    <2>1. s \in [1..Len(found) -> SaidType]
        BY <1>2 DEF SaidType, EntryType
    <2> HIDE DEF s
    <2> QED
        BY <1>2, <2>1, DefinedSeq
<1>7. ASSUME NEW k \in 1..Len(found), NEW e, Tells(found[k], e) PROVE s[k] = SaidOf(e)
    BY <1>2, <1>7 DEF Tells, SaidOf
<1> HIDE DEF s
<1>8. ASSUME NEW p \in D PROVE \E k \in 1..Len(found) : Tells(found[k], all[p])
    <2>1. p \in 1..Len(all) /\ Fits(all[p], from, to, type)
        OBVIOUS
    <2>2. all[p] \in Items(all)
        BY <2>1, ItemsOf
    <2>3. PICK x \in Items(found) : Tells(x, all[p])
        BY <1>1, <2>1, <2>2
    <2>4. PICK k \in 1..Len(found) : found[k] = x
        BY <1>1, ItemsOf
    <2> QED
        BY <2>3, <2>4
<1>9. ASSUME NEW k \in 1..Len(found) PROVE \E p \in D : Tells(found[k], all[p])
    <2>1. found[k] \in Items(found)
        BY <1>1, ItemsOf
    <2>2. PICK e \in Items(all) : Tells(found[k], e) /\ Fits(e, from, to, type)
        BY <1>1, <2>1
    <2>3. PICK p \in 1..Len(all) : all[p] = e
        BY ItemsOf
    <2> QED
        BY <2>2, <2>3
<1> DEFINE g == [p \in D |-> CHOOSE k \in 1..Len(found) : Tells(found[k], all[p])]
<1>10. \A p \in D : g[p] \in 1..Len(found) /\ Tells(found[g[p]], all[p])
    BY <1>8
<1>11. g \in [D -> 1..Len(found)]
    BY <1>10
<1> HIDE DEF g
<1>12. ASSUME NEW p \in D, NEW q \in D, g[p] = g[q] PROVE p = q
    <2>1. all[p].src = all[q].src /\ all[p].dst = all[q].dst
        BY <1>10, <1>12 DEF Tells
    <2>2. p \in 1..Len(all) /\ q \in 1..Len(all)
        OBVIOUS
    <2> QED
        BY <2>1, <2>2
<1>13. ASSUME NEW k \in 1..Len(found) PROVE \E p \in D : g[p] = k
    <2>1. PICK p \in D : Tells(found[k], all[p])
        BY <1>9
    <2>2. Tells(found[g[p]], all[p]) /\ g[p] \in 1..Len(found)
        BY <1>10
    <2>3. found[g[p]].from = found[k].from /\ found[g[p]].to = found[k].to
        BY <2>1, <2>2 DEF Tells
    <2>4. g[p] = k
        BY <1>1, <2>2, <2>3 DEF PairsOnce
    <2> QED
        BY <2>4
<1>14. g \in Bijection(D, 1..Len(s))
    BY <1>6, <1>11, <1>12, <1>13 DEF Bijection, Injection, Surjection, IsInjective
<1>15. \A p \in D : s[g[p]] = t[rank[p]]
    <2> SUFFICES ASSUME NEW p \in D PROVE s[g[p]] = t[rank[p]]
        OBVIOUS
    <2>1. s[g[p]] = SaidOf(all[p])
        BY <1>7, <1>10
    <2>2. p \in 1..Len(all)
        OBVIOUS
    <2> QED
        BY <1>3, <1>5, <2>1, <2>2
<1>16. SameBag(s, t)
    BY <1>4, <1>5, <1>6, <1>14, <1>15, SameBagOf
<1> QED
    BY <1>16 DEF s, t, said, D, Told, Fitting

\* What get_node answers when an edge search resolves the end of a buffered edge.
Resolved(id, g, d) ==
    LET hits == Get(id, g, d) IN IF hits = {} THEN NoName ELSE (CHOOSE n \in hits : TRUE).ent

LEMMA ResolvesToName ==
    ASSUME CatalogInv, ~ failed, ~ merging, NEW id \in Nat, NEW name, Leads(id, name)
    PROVE  Resolved(id, graph, delta) = name
<1> DEFINE hits == Get(id, graph, delta)
<1>1. id < Len(issued) /\ issued[id + 1] = name
    <2>1. id + 1 \in 1..Len(issued) /\ Len(issued) \in Nat /\ issued[id + 1] = name
        BY DEF Leads, CatalogInv, StoreInv
    <2> QED
        BY <2>1
<1>2. \/ /\ id < Len(graph.nodes) /\ id + 1 \in 1..Len(graph.nodes)
         /\ graph.nodes[id + 1].ent = name
      \/ /\ ~ (id < Len(graph.nodes)) /\ id - Len(graph.nodes) < Len(delta.nodes)
         /\ (id - Len(graph.nodes)) + 1 \in 1..Len(delta.nodes)
         /\ delta.nodes[(id - Len(graph.nodes)) + 1].id = id
         /\ delta.nodes[(id - Len(graph.nodes)) + 1].ent = name
    BY <1>1, FoundByPlace
<1>3. hits # {} /\ \A n \in hits : n.ent = name
    <2>1. CASE id < Len(graph.nodes)
        <3>1. hits = {graph.nodes[id + 1]}
            BY <2>1 DEF Get, NumNodes
        <3> QED
            BY <1>2, <2>1, <3>1
    <2>2. CASE ~ (id < Len(graph.nodes))
        <3> DEFINE m == delta.nodes[(id - Len(graph.nodes)) + 1]
        <3>1. m.id = id /\ m.ent = name /\ (id - Len(graph.nodes)) + 1 \in 1..Len(delta.nodes)
            BY <1>2, <2>2
        <3>2. m \in Items(delta.nodes)
            <4> DEFINE i == (id - Len(graph.nodes)) + 1
            <4>1. delta.nodes \in Seq(NodeType)
                BY InvTypes
            <4>2. i \in 1..Len(delta.nodes) /\ m = delta.nodes[i]
                BY <3>1
            <4> HIDE DEF i, m
            <4> QED
                BY ONLY <4>1, <4>2, ItemsOf
        <3>3. hits = {n \in Items(delta.nodes) : n.id = id}
            BY <2>2 DEF Get, NumNodes
        <3>4. ASSUME NEW n \in Items(delta.nodes), n.id = id PROVE n.ent = name
            <4>1. PICK i \in 1..Len(delta.nodes) : n = delta.nodes[i]
                BY InvTypes, ItemsOf
            <4>2. Leads(id, n.ent)
                BY <3>4, <4>1 DEF CatalogInv, NameInv, NamesNodes
            <4> QED
                BY <4>2 DEF Leads
        <3> HIDE DEF m
        <3> QED
            BY <3>1, <3>2, <3>3, <3>4
    <2> QED
        BY <2>1, <2>2
<1> HIDE DEF hits
<1>4. (CHOOSE n \in hits : TRUE) \in hits
    BY <1>3
<1>5. (IF hits = {} THEN NoName ELSE (CHOOSE n \in hits : TRUE).ent) = name
    BY <1>3, <1>4
<1> QED
    BY <1>5 DEF Resolved, hits

\* The entries of the graph's edges.
GraphEntries(from, to, type, g) ==
    LET main == Selected(GraphEdges(from, to, g), LAMBDA e : OfType(type, e))
    IN  [k \in DOMAIN main |-> [from |-> main[k].from, to |-> main[k].to,
                                fromName |-> NameOf(g.nodes, main[k].from),
                                toName |-> NameOf(g.nodes, main[k].to),
                                type |-> main[k].origin.type]]

LEMMA GraphEntriesFound ==
    ASSUME CatalogInv, PairsOnce(AllEdges(graph)),
           NEW from \in Optional(Ids), NEW to \in Optional(Ids), NEW type
    PROVE  /\ IsFound(GraphEntries(from, to, type, graph), AllEdges(graph), from, to, type)
           /\ Len(GraphEntries(from, to, type, graph)) <= Len(graph.edges)
<1> DEFINE all == AllEdges(graph)
           h == GraphEdges(from, to, graph)
           fits == {i \in DOMAIN h : OfType(type, h[i])}
           main == At(h, fits)
           found == [k \in DOMAIN main |-> [from |-> main[k].from, to |-> main[k].to,
                                            fromName |-> NameOf(graph.nodes, main[k].from),
                                            toName |-> NameOf(graph.nodes, main[k].to),
                                            type |-> main[k].origin.type]]
<1>1. IsEdgeList(h, all, from, to) /\ Len(h) <= Len(graph.edges) /\ Len(graph.edges) \in Nat
    BY GraphEdgesListed, LimitType
<1>2. found = GraphEntries(from, to, type, graph)
    BY DEF GraphEntries, Selected
<1> HIDE DEF h
<1>3. /\ h \in Seq(Described) /\ PairsOnce(h)
      /\ \A x \in Items(h) : \E e \in Items(all) :
             SameEdge(x, e) /\ Admits(from, e.from) /\ Admits(to, e.to)
      /\ \A e \in Items(all) : Admits(from, e.from) /\ Admits(to, e.to) =>
             \E x \in Items(h) : SameEdge(x, e)
    BY <1>1 DEF IsEdgeList
<1>4. DOMAIN h = 1..Len(h) /\ Len(h) \in Nat /\ fits \subseteq 1..Len(h)
    BY <1>3
<1>5. /\ main \in Seq(Described) /\ Len(main) = Cardinality(fits) /\ PairsOnce(main)
      /\ Items(main) = {h[i] : i \in fits}
    BY <1>3, <1>4, AtProperties, AtItems, PickedPairs
<1>6. Cardinality(fits) <= Len(h) /\ Cardinality(fits) \in Nat
    BY <1>4, Positions
<1>7. \A x : x \in Items(main) <=> x \in Items(h) /\ OfType(type, x)
    BY <1>4, <1>5 DEF Items
<1> HIDE DEF main
<1>8. \A x, e : SameEdge(x, e) => (OfType(type, x) <=> OfType(type, e))
    BY DEF SameEdge, OfType
<1>9. \A x \in Items(main) : \E e \in Items(all) : SameEdge(x, e) /\ Fits(e, from, to, type)
    BY <1>3, <1>7, <1>8 DEF Fits
<1>10. \A e \in Items(all) : Fits(e, from, to, type) => \E x \in Items(main) : SameEdge(x, e)
    BY <1>3, <1>7, <1>8 DEF Fits
<1>11. ASSUME NEW e \in Items(all)
       PROVE  /\ NameOf(graph.nodes, e.from) = e.src /\ NameOf(graph.nodes, e.to) = e.dst
              /\ e \in EdgeType /\ e.from \in Nat /\ e.to \in Nat
              /\ e.src \in Names /\ e.dst \in Names /\ e.origin.type \in EdgeTypes
    <2>1. e \in EdgeType
        BY InvTypes, ItemsOf
    <2>2. NameOf(graph.nodes, e.from) = e.src /\ NameOf(graph.nodes, e.to) = e.dst
        BY EndsNamed DEF NameOf
    <2> QED
        BY <2>1, <2>2 DEF EdgeType
<1>12. DOMAIN main = 1..Len(main)
    BY <1>5
<1>13. ASSUME NEW k \in 1..Len(main), NEW e \in Items(all), SameEdge(main[k], e)
       PROVE  Tells(found[k], e) /\ found[k] \in EntryType
    <2>1. main[k].from = e.from /\ main[k].to = e.to /\ main[k].origin = e.origin
        BY <1>13 DEF SameEdge
    <2>2. found[k] = [from |-> main[k].from, to |-> main[k].to,
                      fromName |-> NameOf(graph.nodes, main[k].from),
                      toName |-> NameOf(graph.nodes, main[k].to),
                      type |-> main[k].origin.type]
        BY <1>12
    <2> HIDE DEF found
    <2>3. found[k] = [from |-> e.from, to |-> e.to, fromName |-> e.src, toName |-> e.dst,
                      type |-> e.origin.type]
        BY <1>11, <2>1, <2>2
    <2>4. Tells(found[k], e)
        BY ONLY <2>3 DEF Tells
    <2>5. found[k] \in EntryType
        BY <1>11, <2>3 DEF EntryType
    <2> QED
        BY <2>4, <2>5
<1>14. \A k \in 1..Len(main) : main[k] \in Items(main)
    BY <1>5, ItemsOf
<1>15. found \in [1..Len(main) -> EntryType]
    <2>1. DOMAIN found = 1..Len(main) /\ found = [k \in 1..Len(main) |-> found[k]]
        BY <1>12
    <2> HIDE DEF found
    <2>2. \A k \in 1..Len(main) : found[k] \in EntryType
        BY <1>9, <1>13, <1>14
    <2> QED
        BY <2>1, <2>2
<1> HIDE DEF found
<1>16. IsFound(found, all, from, to, type) /\ Len(found) = Len(main)
    BY <1>5, <1>9, <1>10, <1>13, <1>15, EntriesFound
<1>17. Len(found) <= Len(graph.edges)
    BY <1>1, <1>4, <1>5, <1>6, <1>16
<1> QED
    BY <1>2, <1>16, <1>17

\* The entries of the buffered edges.
DeltaEntries(from, to, type, g, d) ==
    LET new == Selected(d.edges, LAMBDA e : Fits(e, from, to, type))
    IN  [k \in DOMAIN new |-> [from |-> new[k].from, to |-> new[k].to,
                               fromName |-> Resolved(new[k].from, g, d),
                               toName |-> Resolved(new[k].to, g, d),
                               type |-> new[k].origin.type]]

LEMMA DeltaEntriesFound ==
    ASSUME CatalogInv, ~ failed, ~ merging, PairsOnce(delta.edges), NEW from, NEW to, NEW type
    PROVE  /\ IsFound(DeltaEntries(from, to, type, graph, delta), delta.edges, from, to, type)
           /\ Len(DeltaEntries(from, to, type, graph, delta)) <= Len(delta.edges)
<1> DEFINE h == delta.edges
           fits == {i \in DOMAIN h : Fits(h[i], from, to, type)}
           main == At(h, fits)
           found == [k \in DOMAIN main |-> [from |-> main[k].from, to |-> main[k].to,
                                            fromName |-> Resolved(main[k].from, graph, delta),
                                            toName |-> Resolved(main[k].to, graph, delta),
                                            type |-> main[k].origin.type]]
<1>1. found = DeltaEntries(from, to, type, graph, delta)
    BY DEF DeltaEntries, Selected
<1>2. h \in Seq(EdgeType)
    BY InvTypes
<1>3. \A e \in Items(h) : Leads(e.from, e.src) /\ Leads(e.to, e.dst)
    BY DEF CatalogInv, NameInv, NamesEnds
<1> HIDE DEF h
<1>4. DOMAIN h = 1..Len(h) /\ Len(h) \in Nat /\ fits \subseteq 1..Len(h)
    BY <1>2
<1>5. PairsOnce(h)
    BY DEF h
<1>6. /\ main \in Seq(EdgeType) /\ Len(main) = Cardinality(fits) /\ PairsOnce(main)
      /\ Items(main) = {h[i] : i \in fits}
    BY <1>2, <1>4, <1>5, AtProperties, AtItems, PickedPairs
<1>7. Cardinality(fits) <= Len(h) /\ Cardinality(fits) \in Nat
    BY <1>4, Positions
<1>8. \A x : x \in Items(main) <=> x \in Items(h) /\ Fits(x, from, to, type)
    BY <1>4, <1>6 DEF Items
<1> HIDE DEF main
<1>9. \A x : SameEdge(x, x)
    BY DEF SameEdge
<1>10. \A x \in Items(main) : \E e \in Items(h) : SameEdge(x, e) /\ Fits(e, from, to, type)
    BY <1>8, <1>9
<1>11. \A e \in Items(h) : Fits(e, from, to, type) => \E x \in Items(main) : SameEdge(x, e)
    BY <1>8, <1>9
<1>12. ASSUME NEW e \in Items(h)
       PROVE  /\ Resolved(e.from, graph, delta) = e.src /\ Resolved(e.to, graph, delta) = e.dst
              /\ e.from \in Nat /\ e.to \in Nat
              /\ e.src \in Names /\ e.dst \in Names /\ e.origin.type \in EdgeTypes
    <2>1. e \in EdgeType
        BY <1>2, ItemsOf
    <2>2. /\ e.from \in Nat /\ e.to \in Nat
          /\ e.src \in Names /\ e.dst \in Names /\ e.origin.type \in EdgeTypes
        BY <2>1 DEF EdgeType
    <2>3. Leads(e.from, e.src) /\ Leads(e.to, e.dst)
        BY <1>3
    <2>4. Resolved(e.from, graph, delta) = e.src /\ Resolved(e.to, graph, delta) = e.dst
        BY <2>2, <2>3, ResolvesToName
    <2> QED
        BY <2>2, <2>4
<1>13. DOMAIN main = 1..Len(main)
    BY <1>6
<1>14. ASSUME NEW k \in 1..Len(main), NEW e \in Items(h), SameEdge(main[k], e)
       PROVE  Tells(found[k], e) /\ found[k] \in EntryType
    <2>1. main[k].from = e.from /\ main[k].to = e.to /\ main[k].origin = e.origin
        BY <1>14 DEF SameEdge
    <2>2. found[k] = [from |-> main[k].from, to |-> main[k].to,
                      fromName |-> Resolved(main[k].from, graph, delta),
                      toName |-> Resolved(main[k].to, graph, delta),
                      type |-> main[k].origin.type]
        BY <1>13
    <2> HIDE DEF found
    <2>3. found[k] = [from |-> e.from, to |-> e.to, fromName |-> e.src, toName |-> e.dst,
                      type |-> e.origin.type]
        BY <1>12, <2>1, <2>2
    <2>4. Tells(found[k], e)
        BY ONLY <2>3 DEF Tells
    <2>5. found[k] \in EntryType
        BY <1>12, <2>3 DEF EntryType
    <2> QED
        BY <2>4, <2>5
<1>15. \A k \in 1..Len(main) : main[k] \in Items(main)
    BY <1>6, ItemsOf
<1>16. found \in [1..Len(main) -> EntryType]
    <2>1. DOMAIN found = 1..Len(main) /\ found = [k \in 1..Len(main) |-> found[k]]
        BY <1>13
    <2> HIDE DEF found
    <2>2. \A k \in 1..Len(main) : found[k] \in EntryType
        BY <1>10, <1>14, <1>15
    <2> QED
        BY <2>1, <2>2
<1> HIDE DEF found
<1>17. IsFound(found, h, from, to, type) /\ Len(found) = Len(main)
    <2>1. main \in Seq(EdgeType) /\ PairsOnce(main)
        BY <1>6
    <2>2. \A k \in 1..Len(main) : \A e \in Items(h) : SameEdge(main[k], e) => Tells(found[k], e)
        BY <1>14
    <2> QED
        BY ONLY <1>10, <1>11, <1>16, <2>1, <2>2, EntriesFound
<1>18. Len(found) <= Len(h)
    BY <1>4, <1>6, <1>7, <1>17
<1> QED
    BY <1>1, <1>17, <1>18 DEF h

\* Without a merge under way, search_edges answers with the edges its callers
\* described: the ends they named, the type and each edge once, as long as no two
\* edges join the same ends in the same direction.
THEOREM EdgeSearchesAreExact ==
    ASSUME OneAtATime
    PROVE  Spec => []EdgeSearchExact
<1>1. CatalogInv => EdgeSearchExact
    <2> DEFINE all == AllEdges(graph) \o delta.edges
               pairs == [k \in DOMAIN all |-> <<all[k].src, all[k].dst>>]
               Ends(end) == {NameOf(graph.nodes, id) : id \in end}
    <2> SUFFICES ASSUME CatalogInv, Quiet, Distinct(EntsOf(graph.nodes \o delta.nodes)), Distinct(pairs),
                        NEW from \in Optional(Ids), NEW to \in Optional(Ids),
                        NEW type \in Optional(EdgeTypes)
                 PROVE  LET found == SearchEdges(from, to, type, NoLimit, read.graph, graph, delta)
                        IN  SameBag([k \in DOMAIN found |->
                                        [src |-> found[k].fromName, dst |-> found[k].toName,
                                         type |-> found[k].type]],
                                    Selected(Said(all), LAMBDA e :
                                        /\ Admits(Ends(from), e.src) /\ Admits(Ends(to), e.dst)
                                        /\ Admits(type, e.type)))
        BY DEF EdgeSearchExact
    <2> DEFINE p == GraphEntries(from, to, type, graph)
               q == DeltaEntries(from, to, type, graph, delta)
               D == {k \in 1..Len(all) : Fits(all[k], from, to, type)}
    <2>1. read.graph = graph /\ ~ merging /\ ~ failed /\ Distinct(issued)
        BY QuietState
    <2>2. AllEdges(graph) \in Seq(EdgeType) /\ delta.edges \in Seq(EdgeType)
        BY InvTypes
    <2>3. /\ all \in Seq(EdgeType) /\ Len(all) = Len(AllEdges(graph)) + Len(delta.edges)
          /\ \A i \in 1..Len(AllEdges(graph)) : all[i] = AllEdges(graph)[i]
          /\ \A i \in 1..Len(delta.edges) : all[Len(AllEdges(graph)) + i] = delta.edges[i]
          /\ \A e : e \in Items(all) <=> e \in Items(AllEdges(graph)) \/ e \in Items(delta.edges)
        BY <2>2, ConcatItems
    <2>4. SearchEdges(from, to, type, NoLimit, read.graph, graph, delta) = Listed(NoLimit, p, q)
        BY <2>1 DEF SearchEdges, GraphEntries, DeltaEntries, Resolved, Selected, Fits
    <2> HIDE DEF p, q, all
    <2>5. DOMAIN all = 1..Len(all) /\ Len(all) \in Nat
        BY <2>3
    <2>6. ASSUME NEW i \in 1..Len(all)
          PROVE  /\ all[i].from \in Nat /\ all[i].to \in Nat
                 /\ all[i].src \in Names /\ all[i].dst \in Names
                 /\ Leads(all[i].from, all[i].src) /\ Leads(all[i].to, all[i].dst)
        <3>1. all[i] \in EdgeType /\ all[i] \in Items(all)
            BY <2>3, ItemsOf
        <3>2. Leads(all[i].from, all[i].src) /\ Leads(all[i].to, all[i].dst)
            BY <2>3, <3>1 DEF CatalogInv, NameInv, NamesEnds
        <3> QED
            BY <3>1, <3>2 DEF EdgeType
    <2>7. ASSUME NEW i \in 1..Len(all), NEW j \in 1..Len(all), all[i].src = all[j].src, all[i].dst = all[j].dst
          PROVE  i = j
        <3>1. \A k \in 1..Len(all) : pairs[k] = <<all[k].src, all[k].dst>>
            BY <2>5
        <3>2. pairs \in [1..Len(all) -> Names \X Names]
            BY <2>5, <2>6
        <3> HIDE DEF pairs
        <3>3. pairs \in Seq(Names \X Names) /\ Len(pairs) = Len(all)
            BY <2>5, <3>2, DefinedSeq
        <3>4. pairs[i] = pairs[j]
            BY <2>7, <3>1
        <3> QED
            BY <3>3, <3>4, DistinctOnce
    <2>8. PairsOnce(all)
        <3> SUFFICES ASSUME NEW i \in 1..Len(all), NEW j \in 1..Len(all),
                            all[i].from = all[j].from, all[i].to = all[j].to
                     PROVE  i = j
            BY DEF PairsOnce
        <3>1. all[i].src = all[j].src /\ all[i].dst = all[j].dst
            BY <2>6 DEF Leads
        <3> QED
            BY <2>7, <3>1
    <2>9. Len(AllEdges(graph)) \in Nat /\ Len(delta.edges) \in Nat
        BY <2>2
    <2>10. PairsOnce(AllEdges(graph))
        <3>1. \A i \in 1..Len(AllEdges(graph)) : i \in 1..Len(all)
            BY <2>3, <2>9
        <3> QED
            BY <2>3, <2>8, <3>1 DEF PairsOnce
    <2>11. PairsOnce(delta.edges)
        <3> SUFFICES ASSUME NEW i \in 1..Len(delta.edges), NEW j \in 1..Len(delta.edges),
                            delta.edges[i].from = delta.edges[j].from,
                            delta.edges[i].to = delta.edges[j].to
                     PROVE  i = j
            BY DEF PairsOnce
        <3> DEFINE n == Len(AllEdges(graph))
        <3>1. n + i \in 1..Len(all) /\ n + j \in 1..Len(all) /\ (n + i = n + j => i = j)
            BY <2>3, <2>9
        <3>2. all[n + i] = delta.edges[i] /\ all[n + j] = delta.edges[j]
            BY <2>3
        <3> HIDE DEF n
        <3>3. n + i = n + j
            BY <2>8, <3>1, <3>2 DEF PairsOnce
        <3> QED
            BY <3>1, <3>3
    <2>12. /\ IsFound(p, AllEdges(graph), from, to, type) /\ Len(p) <= Len(graph.edges)
           /\ IsFound(q, delta.edges, from, to, type) /\ Len(q) <= Len(delta.edges)
        BY <2>1, <2>10, <2>11, GraphEntriesFound, DeltaEntriesFound DEF p, q
    <2>13. Listed(NoLimit, p, q) = p \o q
        <3>1. p \in Seq(EntryType) /\ q \in Seq(EntryType) /\ Len(p) \in Nat /\ Len(q) \in Nat
            BY <2>12 DEF IsFound
        <3>2. /\ NoLimit \in Nat /\ Len(graph.edges) \in Nat /\ Len(delta.edges) \in Nat
              /\ \A n, k \in Nat :
                    n <= Len(graph.edges) + Len(graph.edges) /\ k <= Len(delta.edges) + Len(delta.edges)
                        => n + k <= NoLimit
            BY LimitType
        <3>3. Len(p) <= Len(graph.edges) + Len(graph.edges) /\ Len(q) <= Len(delta.edges) + Len(delta.edges)
            BY <2>12, <3>1, <3>2
        <3>4. Len(p) + Len(q) <= NoLimit
            BY <3>1, <3>2, <3>3
        <3> QED
            BY <3>1, <3>2, <3>4, ListedAll
    <2>14. IsFound(p \o q, all, from, to, type)
        BY <2>2, <2>8, <2>12, FoundJoined DEF all
    <2>15. ASSUME NEW i \in 1..Len(all)
           PROVE  /\ Admits(Ends(from), all[i].src) <=> Admits(from, all[i].from)
                  /\ Admits(Ends(to), all[i].dst) <=> Admits(to, all[i].to)
        <3>1. ASSUME NEW end \in Optional(Ids), NEW id \in Nat, NEW name, Leads(id, name)
              PROVE  Admits(Ends(end), name) <=> Admits(end, id)
            <4>1. CASE end = {}
                BY <4>1 DEF Admits
            <4>2. CASE end # {}
                <5>1. PICK a \in Ids : end = {a}
                    BY <4>2 DEF Optional
                <5>2. a \in Nat /\ Leads(a, NameOf(graph.nodes, a))
                    BY NodeNamed
                <5>3. NameOf(graph.nodes, a) = name <=> a = id
                    BY <2>1, <3>1, <5>2, NamedOnce
                <5> QED
                    BY <5>1, <5>3 DEF Admits
            <4> QED
                BY <4>1, <4>2
        <3> HIDE DEF Ends
        <3> QED
            BY <2>6, <3>1
    <2>16. Selected(Said(all), LAMBDA e : /\ Admits(Ends(from), e.src) /\ Admits(Ends(to), e.dst)
                                          /\ Admits(type, e.type)) = At(Said(all), D)
        <3> DEFINE places == {k \in DOMAIN Said(all) :
                                 /\ Admits(Ends(from), Said(all)[k].src)
                                 /\ Admits(Ends(to), Said(all)[k].dst)
                                 /\ Admits(type, Said(all)[k].type)}
        <3>1. /\ Said(all) \in Seq(SaidType) /\ Len(Said(all)) = Len(all)
              /\ \A k \in 1..Len(all) : Said(all)[k] = SaidOf(all[k])
            BY <2>3, SaidItems
        <3>2. DOMAIN Said(all) = 1..Len(all)
            BY <3>1
        <3>3. Selected(Said(all), LAMBDA e : /\ Admits(Ends(from), e.src) /\ Admits(Ends(to), e.dst)
                                             /\ Admits(type, e.type)) = At(Said(all), places)
            BY DEF Selected
        <3>4. ASSUME NEW k \in 1..Len(all)
              PROVE  /\ Said(all)[k].src = all[k].src /\ Said(all)[k].dst = all[k].dst
                     /\ Said(all)[k].type = all[k].origin.type
            <4>1. Said(all)[k] = SaidOf(all[k])
                BY <3>1
            <4> QED
                BY ONLY <4>1 DEF SaidOf
        <3>5. places = D
            <4> HIDE DEF Ends
            <4> QED
                BY <2>15, <3>2, <3>4 DEF Fits, OfType
        <3> HIDE DEF places, D
        <3> QED
            BY <3>3, <3>5
    <2> DEFINE found == SearchEdges(from, to, type, NoLimit, read.graph, graph, delta)
    <2>17. IsFound(found, all, from, to, type)
        BY <2>4, <2>13, <2>14
    <2> HIDE DEF found
    <2>18. SameBag([k \in DOMAIN found |-> [src |-> found[k].fromName, dst |-> found[k].toName,
                                            type |-> found[k].type]],
                   At(Said(all), D))
        <3>1. all \in Seq(EdgeType)
            BY <2>3
        <3>2. \A i, j \in 1..Len(all) : all[i].src = all[j].src /\ all[i].dst = all[j].dst => i = j
            BY <2>7
        <3>3. SameBag(Told(found), At(Said(all), Fitting(all, from, to, type)))
            BY ONLY <2>17, <3>1, <3>2, FoundIsSaid
        <3> QED
            BY <3>3 DEF Told, Fitting
    <2> HIDE DEF D
    <2> QED
        BY <2>16, <2>18 DEF found
<1> QED
    BY <1>1, CatalogInvariant, PTL

(***************************************************************************)
(* What an import restores.                                                *)
(***************************************************************************)
\* The edges of graph, merge and buffer.
EveryEdge == (AllEdges(graph) \o drained.edges) \o delta.edges

\* Every node came with an import.
AllImported ==
    /\ \A n \in Items(graph.nodes) : n.origin = "none"
    /\ \A n \in Items(drained.nodes) : n.origin = "none"
    /\ \A n \in Items(delta.nodes) : n.origin = "none"

\* The file names every node once and links named nodes.
Restorable(f) ==
    /\ Distinct(f.nodes)
    /\ \A e \in Items(f.edges) : {e.from, e.to} \subseteq Items(f.nodes)

\* What the first edges of a file say.
FirstSaid(es, k) == [i \in 1..k |-> [src |-> es[i].from, dst |-> es[i].to, type |-> es[i].type]]

\* Edges and what was said of them, in different orders.
Matches(es, said) ==
    \E phi \in Bijection(1..Len(es), 1..Len(said)) :
        \A k \in 1..Len(es) : said[phi[k]] = SaidOf(es[k])

\* The IDs were handed out for the first names of the file.
GaveNames(f, n) == Len(issued) = n /\ \A i \in 1..n : issued[i] = f.nodes[i]

KnowsNames(f, n) == Len(import.ids) = n /\ \A i \in 1..n : import.ids[i][1] = f.nodes[i]

\* How far a first import into an instance without nodes has restored the file.
HalfRestored(f) ==
    /\ import.phase = "nodes" =>
          /\ import.next - 1 <= Len(f.nodes)
          /\ GaveNames(f, import.next - 1) /\ KnowsNames(f, import.next - 1)
          /\ Matches(EveryEdge, FirstSaid(f.edges, 0))
    /\ import.phase = "edges" =>
          /\ import.next - 1 <= Len(f.edges)
          /\ GaveNames(f, Len(f.nodes)) /\ KnowsNames(f, Len(f.nodes))
          /\ Matches(EveryEdge, FirstSaid(f.edges, import.next - 1))
    /\ import.phase = "idle" =>
          /\ GaveNames(f, Len(f.nodes)) /\ Matches(EveryEdge, FirstSaid(f.edges, Len(f.edges)))

RestoreInv ==
    /\ import.phase = "idle" => import.next = 1
    /\ import.runs = 0 => \A n \in Items(graph.nodes) : n.origin = "full"
    /\ import.runs = 1 /\ ~ failed /\ AllImported /\ Restorable(import.payload)
          => HalfRestored(import.payload)

LEMMA MatchSame ==
    ASSUME NEW es, NEW fs, NEW said, Matches(es, said), Len(fs) = Len(es),
           \A i \in 1..Len(es) : fs[i] = es[i]
    PROVE  Matches(fs, said)
BY DEF Matches

\* The one sequence continues the other with x.
OneMore(s, t, x) ==
    /\ Len(s) \in Nat /\ Len(t) = Len(s) + 1
    /\ \A i \in 1..Len(s) : t[i] = s[i]
    /\ t[Len(s) + 1] = x

\* One edge more and what was said of it.
LEMMA MatchOneMore ==
    ASSUME NEW es, NEW fs, NEW e, NEW said, NEW told, Matches(es, said),
           OneMore(es, fs, e), OneMore(said, told, SaidOf(e))
    PROVE  Matches(fs, told)
<1>0. PICK m, n \in Nat :
          /\ Len(es) = m /\ Len(fs) = m + 1 /\ \A i \in 1..m : fs[i] = es[i]
          /\ fs[m + 1] = e
          /\ Len(said) = n /\ Len(told) = n + 1 /\ \A i \in 1..n : told[i] = said[i]
          /\ told[n + 1] = SaidOf(e)
    BY DEF OneMore
<1>1. PICK phi \in Bijection(1..m, 1..n) : \A k \in 1..m : said[phi[k]] = SaidOf(es[k])
    BY <1>0 DEF Matches
<1>2. /\ \A k \in 1..m : phi[k] \in 1..n
      /\ \A i, j \in 1..m : phi[i] = phi[j] => i = j
      /\ \A k \in 1..n : \E i \in 1..m : phi[i] = k
    BY DEF Bijection, Injection, Surjection, IsInjective
<1> DEFINE psi == [k \in 1..(m + 1) |-> IF k = m + 1 THEN n + 1 ELSE phi[k]]
<1>3. \A k \in 1..(m + 1) : k = m + 1 \/ k \in 1..m
    OBVIOUS
<1>4. \A k \in 1..m : k \in 1..(m + 1) /\ k # m + 1
    OBVIOUS
<1>5. m + 1 \in 1..(m + 1) /\ n + 1 \in 1..(n + 1) /\ \A k \in 1..n : k \in 1..(n + 1) /\ k # n + 1
    OBVIOUS
<1>6. psi[m + 1] = n + 1 /\ \A k \in 1..m : psi[k] = phi[k]
    BY <1>4, <1>5
<1>7. psi \in [1..(m + 1) -> 1..(n + 1)]
    BY <1>2, <1>3, <1>5
<1> HIDE DEF psi
<1>8. \A i, j \in 1..(m + 1) : psi[i] = psi[j] => i = j
    BY <1>2, <1>3, <1>5, <1>6
<1>9. \A k \in 1..(n + 1) : \E i \in 1..(m + 1) : psi[i] = k
    <2> SUFFICES ASSUME NEW k \in 1..(n + 1) PROVE \E i \in 1..(m + 1) : psi[i] = k
        OBVIOUS
    <2>1. k = n + 1 \/ k \in 1..n
        OBVIOUS
    <2> QED
        BY <1>2, <1>4, <1>5, <1>6, <2>1
<1>10. psi \in Bijection(1..(m + 1), 1..(n + 1))
    BY <1>7, <1>8, <1>9 DEF Bijection, Injection, Surjection, IsInjective
<1>11. ASSUME NEW k \in 1..(m + 1) PROVE told[psi[k]] = SaidOf(fs[k])
    <2>1. CASE k = m + 1
        BY <1>0, <1>6, <2>1
    <2>2. CASE k \in 1..m
        <3>1. psi[k] = phi[k] /\ phi[k] \in 1..n /\ fs[k] = es[k] /\ said[phi[k]] = SaidOf(es[k])
            BY <1>0, <1>1, <1>2, <1>6, <2>2
        <3>2. told[phi[k]] = said[phi[k]]
            BY <1>0, <3>1
        <3> QED
            BY <3>1, <3>2
    <2> QED
        BY <1>3, <2>1, <2>2
<1> QED
    BY <1>0, <1>10, <1>11 DEF Matches

\* A permutation and its inverse.
LEMMA WayBack ==
    ASSUME NEW S, NEW place \in Bijection(S, S)
    PROVE  \E back \in Bijection(S, S) : \A k \in S : place[back[k]] = k
<1>1. /\ \A k \in S : place[k] \in S
      /\ \A i, j \in S : place[i] = place[j] => i = j
      /\ \A k \in S : \E i \in S : place[i] = k
    BY DEF Bijection, Injection, Surjection, IsInjective
<1> DEFINE back == [k \in S |-> CHOOSE i \in S : place[i] = k]
<1>2. \A k \in S : back[k] \in S /\ place[back[k]] = k
    BY <1>1
<1>3. back \in [S -> S]
    BY <1>2
<1> HIDE DEF back
<1>4. \A i, j \in S : back[i] = back[j] => i = j
    BY <1>2
<1>5. \A k \in S : back[place[k]] = k
    BY <1>1, <1>2
<1>6. \A k \in S : \E i \in S : back[i] = k
    BY <1>1, <1>5
<1>7. back \in Bijection(S, S)
    BY <1>3, <1>4, <1>6 DEF Bijection, Injection, Surjection, IsInjective
<1> QED
    BY <1>2, <1>7

\* A merge rearranges the first part of the edges.
LEMMA MatchRearranged ==
    ASSUME NEW p \in Seq(EdgeType), NEW r \in Seq(EdgeType), NEW q \in Seq(EdgeType), NEW said,
           Len(r) = Len(p), NEW place \in Bijection(1..Len(p), 1..Len(p)),
           \A j \in 1..Len(p) : r[place[j]] = p[j], Matches(p \o q, said)
    PROVE  Matches(r \o q, said)
<1>1. PICK m, n \in Nat : m = Len(p) /\ n = Len(q)
    OBVIOUS
<1>2. PICK back \in Bijection(1..m, 1..m) : \A k \in 1..m : place[back[k]] = k
    BY <1>1, WayBack
<1>3. /\ \A k \in 1..m : back[k] \in 1..m
      /\ \A i, j \in 1..m : back[i] = back[j] => i = j
      /\ \A k \in 1..m : \E i \in 1..m : back[i] = k
    BY DEF Bijection, Injection, Surjection, IsInjective
<1>4. /\ Len(p \o q) = m + n /\ \A i \in 1..m : (p \o q)[i] = p[i]
      /\ \A i \in 1..n : (p \o q)[m + i] = q[i]
      /\ Len(r \o q) = m + n /\ \A i \in 1..m : (r \o q)[i] = r[i]
      /\ \A i \in 1..n : (r \o q)[m + i] = q[i]
    <2>1. /\ Len(p \o q) = m + n /\ \A i \in 1..m : (p \o q)[i] = p[i]
          /\ \A i \in 1..n : (p \o q)[m + i] = q[i]
        BY <1>1
    <2>2. Len(r) = m
        BY <1>1
    <2>3. /\ Len(r \o q) = Len(r) + Len(q) /\ \A i \in 1..Len(r) : (r \o q)[i] = r[i]
          /\ \A i \in 1..Len(q) : (r \o q)[Len(r) + i] = q[i]
        <3>1. r \in Seq(EdgeType) /\ q \in Seq(EdgeType)
            OBVIOUS
        <3> QED
            BY ONLY <3>1, ConcatItems
    <2>4. /\ Len(r \o q) = m + n /\ \A i \in 1..m : (r \o q)[i] = r[i]
          /\ \A i \in 1..n : (r \o q)[m + i] = q[i]
        BY ONLY <1>1, <2>2, <2>3
    <2> QED
        BY <2>1, <2>4
<1>5. PICK phi \in Bijection(1..(m + n), 1..Len(said)) :
          \A k \in 1..(m + n) : said[phi[k]] = SaidOf((p \o q)[k])
    <2>1. \E phi \in Bijection(1..Len(p \o q), 1..Len(said)) :
              \A k \in 1..Len(p \o q) : said[phi[k]] = SaidOf((p \o q)[k])
        BY ONLY Matches(p \o q, said) DEF Matches
    <2>2. Len(p \o q) = m + n
        BY <1>4
    <2> QED
        BY ONLY <2>1, <2>2
<1>6. /\ \A k \in 1..(m + n) : phi[k] \in 1..Len(said)
      /\ \A i, j \in 1..(m + n) : phi[i] = phi[j] => i = j
      /\ \A k \in 1..Len(said) : \E i \in 1..(m + n) : phi[i] = k
    BY DEF Bijection, Injection, Surjection, IsInjective
<1> DEFINE way == [k \in 1..(m + n) |-> IF k \in 1..m THEN back[k] ELSE k]
           psi == [k \in 1..(m + n) |-> phi[way[k]]]
<1>7. \A k \in 1..m : k \in 1..(m + n)
    OBVIOUS
<1>8. \A k \in 1..(m + n) : (k \in 1..m /\ way[k] = back[k]) \/ (k \notin 1..m /\ way[k] = k)
    OBVIOUS
<1> HIDE DEF way
<1>9. \A k \in 1..(m + n) : way[k] \in 1..(m + n)
    BY <1>3, <1>7, <1>8
<1>10. ASSUME NEW i \in 1..(m + n), NEW j \in 1..(m + n), way[i] = way[j] PROVE i = j
    <2>1. CASE i \in 1..m /\ j \in 1..m
        <3>1. back[i] = back[j]
            BY <1>8, <1>10, <2>1
        <3> QED
            BY <1>3, <2>1, <3>1
    <2>2. CASE i \in 1..m /\ j \notin 1..m
        <3>1. back[i] = j /\ back[i] \in 1..m
            BY <1>3, <1>8, <1>10, <2>2
        <3> QED
            BY <2>2, <3>1
    <2>3. CASE i \notin 1..m /\ j \in 1..m
        <3>1. back[j] = i /\ back[j] \in 1..m
            BY <1>3, <1>8, <1>10, <2>3
        <3> QED
            BY <2>3, <3>1
    <2>4. CASE i \notin 1..m /\ j \notin 1..m
        BY <1>8, <1>10, <2>4
    <2> QED
        BY <2>1, <2>2, <2>3, <2>4
<1>11. ASSUME NEW k \in 1..(m + n) PROVE \E i \in 1..(m + n) : way[i] = k
    <2>1. CASE k \in 1..m
        <3>1. PICK i \in 1..m : back[i] = k
            BY ONLY <1>3, <2>1
        <3>2. i \in 1..(m + n) /\ way[i] = k
            BY ONLY <1>7, <1>8, <3>1
        <3> QED
            BY <3>2
    <2>2. CASE k \notin 1..m
        BY ONLY k \in 1..(m + n), <1>8, <2>2
    <2> QED
        BY <2>1, <2>2
<1>12. psi \in [1..(m + n) -> 1..Len(said)] /\ \A k \in 1..(m + n) : psi[k] = phi[way[k]]
    BY <1>6, <1>9
<1> HIDE DEF psi
<1>13. ASSUME NEW i \in 1..(m + n), NEW j \in 1..(m + n), psi[i] = psi[j] PROVE i = j
    <2>1. way[i] \in 1..(m + n) /\ way[j] \in 1..(m + n)
        BY <1>9
    <2>2. phi[way[i]] = phi[way[j]]
        BY <1>12, <1>13
    <2>3. way[i] = way[j]
        BY ONLY <1>6, <2>1, <2>2
    <2> QED
        BY <1>10, <2>3
<1>14. \A k \in 1..Len(said) : \E i \in 1..(m + n) : psi[i] = k
    <2> SUFFICES ASSUME NEW k \in 1..Len(said) PROVE \E i \in 1..(m + n) : psi[i] = k
        OBVIOUS
    <2>1. PICK j \in 1..(m + n) : phi[j] = k
        BY <1>6
    <2>2. PICK i \in 1..(m + n) : way[i] = j
        BY <1>11
    <2> QED
        BY <1>12, <2>1, <2>2
<1>15. psi \in Bijection(1..(m + n), 1..Len(said))
    BY <1>12, <1>13, <1>14 DEF Bijection, Injection, Surjection, IsInjective
<1>16. ASSUME NEW k \in 1..(m + n) PROVE (p \o q)[way[k]] = (r \o q)[k]
    <2>1. CASE k \in 1..m
        <3>1. way[k] = back[k] /\ back[k] \in 1..m
            BY <1>3, <1>8, <2>1
        <3>2. r[place[back[k]]] = p[back[k]] /\ place[back[k]] = k
            BY <1>1, <1>2, <2>1, <3>1
        <3> QED
            BY <1>4, <2>1, <3>1, <3>2
    <2>2. CASE k \notin 1..m
        <3>1. way[k] = k /\ k - m \in 1..n /\ m + (k - m) = k
            BY <1>8, <2>2
        <3>2. (p \o q)[m + (k - m)] = q[k - m] /\ (r \o q)[m + (k - m)] = q[k - m]
            BY <1>4, <3>1
        <3> QED
            BY <3>1, <3>2
    <2> QED
        BY <2>1, <2>2
<1>17. \A k \in 1..(m + n) : said[psi[k]] = SaidOf((r \o q)[k])
    <2> SUFFICES ASSUME NEW k \in 1..(m + n) PROVE said[psi[k]] = SaidOf((r \o q)[k])
        OBVIOUS
    <2>1. way[k] \in 1..(m + n) /\ psi[k] = phi[way[k]] /\ (p \o q)[way[k]] = (r \o q)[k]
        BY <1>9, <1>12, <1>16
    <2>2. said[phi[way[k]]] = SaidOf((p \o q)[way[k]])
        BY ONLY <1>5, <2>1
    <2> QED
        BY ONLY <2>1, <2>2
<1>18. /\ psi \in Bijection(1..Len(r \o q), 1..Len(said))
       /\ \A k \in 1..Len(r \o q) : said[psi[k]] = SaidOf((r \o q)[k])
    <2>1. Len(r \o q) = m + n
        BY <1>4
    <2> QED
        BY ONLY <1>15, <1>17, <2>1
<1> QED
    BY ONLY <1>18 DEF Matches


\* A longer buffer holds one edge more.
LEMMA EdgeMore ==
    ASSUME NEW S, NEW p \in Seq(S), NEW q \in Seq(S), NEW e \in S
    PROVE  OneMore(p \o q, p \o (q \o <<e>>), e)
<1>0. PICK m : m = Len(p \o q)
    OBVIOUS
<1>1. PICK a, b \in Nat : a = Len(p) /\ b = Len(q)
    OBVIOUS
<1> DEFINE r == q \o <<e>>
<1>2. /\ r \in Seq(S) /\ Len(r) = b + 1
      /\ \A i \in 1..b : r[i] = q[i]
      /\ r[b + 1] = e
    BY <1>1, PushItems
<1>3. /\ Len(p \o q) = a + b
      /\ \A i \in 1..a : (p \o q)[i] = p[i]
      /\ \A i \in 1..b : (p \o q)[a + i] = q[i]
    BY <1>1, ConcatItems
<1> HIDE DEF r
<1>4. /\ Len(p \o r) = a + (b + 1)
      /\ \A i \in 1..a : (p \o r)[i] = p[i]
      /\ \A i \in 1..(b + 1) : (p \o r)[a + i] = r[i]
    <2>1. p \in Seq(S) /\ r \in Seq(S)
        BY <1>2
    <2>2. /\ Len(p \o r) = Len(p) + Len(r)
          /\ \A i \in 1..Len(p) : (p \o r)[i] = p[i]
          /\ \A i \in 1..Len(r) : (p \o r)[Len(p) + i] = r[i]
        BY ONLY <2>1, ConcatItems
    <2>3. Len(p) = a /\ Len(r) = b + 1
        BY <1>1, <1>2
    <2> QED
        BY ONLY <2>2, <2>3
<1>5. m \in Nat /\ m = a + b /\ m + 1 = a + (b + 1) /\ Len(p \o r) = m + 1
    BY <1>0, <1>3, <1>4
<1>6. (p \o r)[m + 1] = e
    <2>1. b + 1 \in 1..(b + 1)
        OBVIOUS
    <2>2. (p \o r)[a + (b + 1)] = e
        BY <1>2, <1>4, <2>1
    <2> QED
        BY <1>5, <2>2
<1>7. ASSUME NEW i \in 1..m PROVE (p \o r)[i] = (p \o q)[i]
    <2>1. CASE i \in 1..a
        BY <1>3, <1>4, <2>1
    <2>2. CASE i \notin 1..a
        <3>1. i - a \in 1..b /\ i - a \in 1..(b + 1) /\ a + (i - a) = i
            BY <1>5, <2>2
        <3>2. (p \o r)[a + (i - a)] = q[i - a] /\ (p \o q)[a + (i - a)] = q[i - a]
            BY <1>2, <1>3, <1>4, <3>1
        <3> QED
            BY <3>1, <3>2
    <2> QED
        BY <2>1, <2>2
<1> QED
    BY <1>0, <1>5, <1>6, <1>7 DEF r, OneMore

LEMMA FirstSaidIs ==
    ASSUME NEW es, NEW k \in Nat
    PROVE  /\ Len(FirstSaid(es, k)) = k
           /\ \A i \in 1..k : FirstSaid(es, k)[i] = [src |-> es[i].from, dst |-> es[i].to, type |-> es[i].type]
<1> DEFINE f == FirstSaid(es, k)
           S == {f[i] : i \in 1..k}
<1>1. \A i \in 1..k : f[i] = [src |-> es[i].from, dst |-> es[i].to, type |-> es[i].type]
    BY DEF FirstSaid
<1>2. f \in [1..k -> S]
    BY DEF FirstSaid
<1> HIDE DEF f, S
<1>3. Len(f) = k
    BY <1>2, DefinedSeq
<1> QED
    BY <1>1, <1>3 DEF f

\* Steps that leave the importer and the IDs alone.
LEMMA RestoreCarried ==
    ASSUME RestoreInv, import' = import, issued' = issued,
           import.runs = 0 => \A n \in Items(graph'.nodes) : n.origin = "full",
           ~ failed' /\ AllImported' => ~ failed /\ AllImported,
           ~ failed' => \A said : Matches(EveryEdge, said) => Matches(EveryEdge', said)
    PROVE  RestoreInv'
<1>1. import.phase = "idle" => import.next = 1
    BY DEF RestoreInv
<1>2. ASSUME import.runs = 1, ~ failed', AllImported', Restorable(import.payload)
      PROVE  HalfRestored(import.payload)'
    <2> DEFINE f == import.payload
    <2>1. HalfRestored(f)
        BY <1>2 DEF RestoreInv
    <2>2. \A said : Matches(EveryEdge, said) => Matches(EveryEdge', said)
        BY <1>2
    <2>3. f' = f
        OBVIOUS
    <2> HIDE DEF f
    <2>4. \A n : GaveNames(f, n) => GaveNames(f, n)'
        BY <2>3 DEF GaveNames
    <2>5. \A n : KnowsNames(f, n) => KnowsNames(f, n)'
        BY <2>3 DEF KnowsNames
    <2> QED
        BY <2>1, <2>2, <2>3, <2>4, <2>5 DEF HalfRestored, f
<1> QED
    BY <1>1, <1>2 DEF RestoreInv

LEMMA RestoreSame ==
    ASSUME RestoreInv, import' = import, issued' = issued, graph' = graph, drained' = drained,
           delta' = delta, failed' = failed
    PROVE  RestoreInv'
<1>1. EveryEdge' = EveryEdge
    BY DEF EveryEdge
<1>2. AllImported' <=> AllImported
    BY DEF AllImported
<1>3. import.runs = 0 => \A n \in Items(graph'.nodes) : n.origin = "full"
    BY DEF RestoreInv
<1> QED
    BY <1>1, <1>2, <1>3, RestoreCarried


LEMMA RestoreInit == Init => RestoreInv
<1> SUFFICES ASSUME Init PROVE RestoreInv
    OBVIOUS
<1>1. PICK s \in Snapshots : graph = Build(s.nodes, s.edges)
    BY DEF Init
<1>2. graph.nodes = s.nodes
    BY <1>1, BuildFields
<1>3. \A i \in DOMAIN s.nodes : s.nodes[i].origin = "full"
    BY CatalogAssumption
<1>4. \A n \in Items(graph.nodes) : n.origin = "full"
    BY <1>2, <1>3 DEF Items
<1>5. import.phase = "idle" /\ import.next = 1 /\ import.runs = 0
    BY DEF Init, NotImporting
<1> QED
    BY <1>4, <1>5 DEF RestoreInv

\* A node that was ingested came with no import.
LEMMA RestoreIngestsNode ==
    ASSUME CatalogInv, RestoreInv, IngestNode
    PROVE  RestoreInv'
<1>1. PICK n \in pending : n.origin = "full" /\ Push(n)
    BY DEF IngestNode
<1>2. /\ Awaited(n)
      /\ delta' = [nodes |-> delta.nodes \o <<n>>, edges |-> delta.edges]
    BY <1>1, PushEffect
<1>3. /\ n \in NodeType
      /\ delta' = [nodes |-> delta.nodes \o <<n>>, edges |-> delta.edges]
    BY <1>2 DEF Awaited
<1>4. n.origin = "full"
    BY <1>1
<1>5. delta.nodes \in Seq(NodeType)
    BY InvTypes
<1>6. n \in Items(delta.nodes \o <<n>>)
    BY <1>3, <1>5, PushItems
<1>7. delta'.nodes = delta.nodes \o <<n>>
    BY ONLY <1>3
<1>8. ~ AllImported'
    BY <1>4, <1>6, <1>7 DEF AllImported
<1>9. import' = import /\ graph' = graph
    BY DEF IngestNode, indexVars
<1>10. import.phase = "idle" => import.next = 1
    BY DEF RestoreInv
<1>11. import.runs = 0 => \A x \in Items(graph.nodes) : x.origin = "full"
    BY DEF RestoreInv
<1> QED
    BY <1>8, <1>9, <1>10, <1>11 DEF RestoreInv

\* An edge that is ingested ends at nodes that came with no import.
LEMMA RestoreIngestsEdge ==
    ASSUME CatalogInv, RestoreInv, IngestEdge
    PROVE  RestoreInv'
<1>1. PICK x \in Names : Known(x) # {}
    BY DEF IngestEdge
<1>2. PICK n \in Items(graph.nodes) \cup Items(delta.nodes) : n.origin = "full"
    BY <1>1 DEF Known
<1>3. graph' = graph /\ import' = import /\ delta'.nodes = delta.nodes
    <2>1. graph' = graph /\ import' = import
        BY DEF IngestEdge, indexVars
    <2>2. PICK e : AddEdge(e)
        BY DEF IngestEdge
    <2>3. delta' = [delta EXCEPT !.edges = @ \o <<e>>]
        BY <2>2 DEF AddEdge, PushEdges
    <2>4. delta = [nodes |-> delta.nodes, edges |-> delta.edges]
        BY InvTypes
    <2> QED
        BY <2>1, <2>3, <2>4
<1>4. ~ AllImported'
    BY <1>2, <1>3 DEF AllImported
<1>5. import.phase = "idle" => import.next = 1
    BY DEF RestoreInv
<1>6. import.runs = 0 => \A y \in Items(graph.nodes) : y.origin = "full"
    BY DEF RestoreInv
<1> QED
    BY <1>3, <1>4, <1>5, <1>6 DEF RestoreInv

LEMMA RestoreDrains ==
    ASSUME CatalogInv, RestoreInv, Drain
    PROVE  RestoreInv'
<1>1. /\ ~ merging /\ drained' = delta /\ delta' = Empty
      /\ issued' = issued /\ graph' = graph /\ failed' = failed /\ import' = import
    BY DEF Drain, DrainDelta, indexVars
<1>2. drained = Empty
    BY <1>1 DEF CatalogInv, PlaceInv
<1>3. AllImported' => AllImported
    BY <1>1, <1>2, EmptyType DEF AllImported
<1> DEFINE p == AllEdges(graph)
           q == delta.edges
           m == Len(p \o q)
<1>4. p \in Seq(EdgeType) /\ q \in Seq(EdgeType) /\ Empty.edges \in Seq(EdgeType)
        /\ Len(Empty.edges) = 0
    BY InvTypes, EmptyType DEF GraphType
<1>5. EveryEdge = (p \o Empty.edges) \o q
    BY <1>2 DEF EveryEdge
<1>6. EveryEdge' = (p \o q) \o Empty.edges
    BY <1>1 DEF EveryEdge
<1> DEFINE z == Empty.edges
<1> HIDE DEF p, q, z
<1>7. z = <<>>
    BY EmptyType DEF z
<1>8. p \o z = p /\ (p \o q) \o z = p \o q
    <2>1. p \o q \in Seq(EdgeType)
        BY <1>4
    <2> QED
        BY <1>4, <1>7, <2>1
<1>9. EveryEdge' = EveryEdge
    BY <1>5, <1>6, <1>8 DEF z
<1>10. import.runs = 0 => \A n \in Items(graph'.nodes) : n.origin = "full"
    BY <1>1 DEF RestoreInv
<1> QED
    BY <1>1, <1>3, <1>9, <1>10, RestoreCarried

\* The edges of a merged graph are those before it, in another order.
LEMMA SwappedEdges ==
    ASSUME CatalogInv, ~ failed
    PROVE  LET es == AllEdges(graph) \o drained.edges
           IN  /\ es \in Seq(EdgeType) /\ AllEdges(MergedGraph) \in Seq(EdgeType)
               /\ Len(AllEdges(MergedGraph)) = Len(es)
               /\ \E place \in Bijection(1..Len(es), 1..Len(es)) :
                     \A j \in 1..Len(es) : AllEdges(MergedGraph)[place[j]] = es[j]
<1> DEFINE ns == graph.nodes \o drained.nodes
           es == AllEdges(graph) \o drained.edges
           Origins == [type : EdgeTypes, weight : Nat, dim : Dims]
           fs == AllEdges(Build(ns, es))
<1>1. /\ ns \in Seq(NodeType) /\ es \in Seq(EdgeType)
      /\ EndsInRange(es, Len(ns)) /\ MergedGraph = Build(ns, es)
    BY MergeBuilds
<1> HIDE DEF ns, es
<1>2. Len(ns) \in Nat /\ Inside(es, Len(ns)) /\ es \in Seq(EdgeSet(Names, Origins))
    BY <1>1, EdgeTypeIs DEF EndsInRange, Inside
<1>3. /\ fs \in Seq(EdgeSet(Names, Origins)) /\ Len(fs) = Len(es)
      /\ \E place \in Bijection(1..Len(es), 1..Len(es)) :
            \A j \in 1..Len(es) : fs[place[j]] = es[j]
    <2> HIDE DEF Origins
    <2> QED
        BY <1>2, PackingKeepsEdges
<1>4. fs \in Seq(EdgeType)
    BY <1>3, EdgeTypeIs
<1> QED
    BY <1>1, <1>3, <1>4 DEF es

LEMMA RestoreSwaps ==
    ASSUME CatalogInv, RestoreInv, MergeSwaps
    PROVE  RestoreInv'
<1>1. /\ graph' = MergedGraph /\ drained' = Empty /\ delta' = delta
      /\ issued' = issued /\ failed' = failed /\ import' = import /\ FilesOpen
    BY DEF MergeSwaps, AllWritten, NodesWritten, EndMerge
<1>2. ~ failed
    BY <1>1 DEF FilesOpen, CatalogInv, PlaceInv, ShapeInv
<1>3. /\ MergedGraph.nodes = graph.nodes \o drained.nodes
      /\ graph.nodes \in Seq(NodeType) /\ drained.nodes \in Seq(NodeType)
    BY <1>2, SwappedGraph, InvTypes
<1>4. \A n : n \in Items(graph'.nodes) <=> n \in Items(graph.nodes) \/ n \in Items(drained.nodes)
    BY <1>1, <1>3, ConcatItems
<1>5. AllImported' => AllImported
    BY <1>1, <1>4 DEF AllImported
<1>6. ASSUME import.runs = 0, NEW n \in Items(graph'.nodes) PROVE n.origin = "full"
    <2>1. AllFull(drained) /\ \A x \in Items(graph.nodes) : x.origin = "full"
        BY <1>6 DEF CatalogInv, FullInv, RestoreInv
    <2> QED
        BY <1>4, <1>6, <2>1 DEF AllFull
<1> DEFINE p == AllEdges(graph) \o drained.edges
           r == AllEdges(MergedGraph)
           q == delta.edges
<1>7. /\ p \in Seq(EdgeType) /\ r \in Seq(EdgeType) /\ Len(r) = Len(p)
      /\ \E place \in Bijection(1..Len(p), 1..Len(p)) : \A j \in 1..Len(p) : r[place[j]] = p[j]
    BY <1>2, SwappedEdges
<1>8. q \in Seq(EdgeType)
    BY InvTypes
<1>9. EveryEdge = p \o q
    BY DEF EveryEdge
<1>10. EveryEdge' = r \o q
    <2>1. EveryEdge' = (r \o Empty.edges) \o q
        BY <1>1 DEF EveryEdge
    <2>2. Empty.edges = <<>>
        BY EmptyType
    <2> HIDE DEF p, q, r
    <2>3. r \o <<>> = r
        BY <1>7
    <2> QED
        BY <2>1, <2>2, <2>3
<1> HIDE DEF p, q, r
<1>11. ASSUME NEW said, Matches(p \o q, said) PROVE Matches(r \o q, said)
    <2>1. PICK place \in Bijection(1..Len(p), 1..Len(p)) : \A j \in 1..Len(p) : r[place[j]] = p[j]
        BY <1>7
    <2> QED
        BY <1>7, <1>8, <1>11, <2>1, MatchRearranged
<1>12. \A said : Matches(EveryEdge, said) => Matches(EveryEdge', said)
    BY <1>9, <1>10, <1>11
<1> QED
    BY <1>1, <1>5, <1>6, <1>12, RestoreCarried

\* After a merge that died, nothing is promised.
LEMMA RestoreDies ==
    ASSUME RestoreInv, MergeDies
    PROVE  RestoreInv'
<1>1. failed' = TRUE /\ graph' = graph /\ import' = import
    BY DEF MergeDies
<1>2. import.phase = "idle" => import.next = 1
    BY DEF RestoreInv
<1>3. import.runs = 0 => \A n \in Items(graph.nodes) : n.origin = "full"
    BY DEF RestoreInv
<1> QED
    BY <1>1, <1>2, <1>3 DEF RestoreInv

LEMMA RestoreFresh ==
    ASSUME FreshInstance
    PROVE  RestoreInv'
<1>1. graph' = NoGraph /\ import' = NotImporting
    BY DEF FreshInstance
<1>2. Items(NoGraph.nodes) = {}
    BY NoGraphIsGraph DEF Items
<1>3. NotImporting.next = 1 /\ NotImporting.runs = 0
    BY DEF NotImporting
<1> QED
    BY <1>1, <1>2, <1>3 DEF RestoreInv


\* Before the first import, nothing that is imported is there yet.
LEMMA NothingYet ==
    ASSUME CatalogInv, RestoreInv, import.runs = 0, AllImported
    PROVE  Len(issued) = 0 /\ Len(graph.nodes) = 0 /\ Len(EveryEdge) = 0
<1>1. ~ failed /\ AllFull(delta) /\ AllFull(drained) /\ \A n \in Items(graph.nodes) : n.origin = "full"
    BY DEF CatalogInv, FullInv, RestoreInv
<1>2. \A s \in Seq(NodeType) : Items(s) = {} => Len(s) = 0
    <2> SUFFICES ASSUME NEW s \in Seq(NodeType), Items(s) = {} PROVE Len(s) = 0
        OBVIOUS
    <2>1. \A i \in 1..Len(s) : FALSE
        BY ItemsOf
    <2> QED
        BY <2>1
<1>3. Items(graph.nodes) = {} /\ Items(drained.nodes) = {} /\ Items(delta.nodes) = {}
    BY <1>1 DEF AllFull, AllImported
<1>4. Len(graph.nodes) = 0 /\ Len(drained.nodes) = 0 /\ Len(delta.nodes) = 0
    BY <1>2, <1>3, InvTypes
<1>5. Len(issued) = 0
    BY <1>1, <1>4 DEF CatalogInv, PlaceInv
<1>6. \A s \in Seq(EdgeType) : NamesEnds(s) => s = <<>>
    <2> SUFFICES ASSUME NEW s \in Seq(EdgeType), NamesEnds(s) PROVE s = <<>>
        OBVIOUS
    <2>1. \A e \in Items(s) : FALSE
        BY <1>5 DEF NamesEnds, Leads
    <2>2. \A i \in 1..Len(s) : FALSE
        BY <2>1, ItemsOf
    <2> QED
        BY <2>2
<1>7. AllEdges(graph) = <<>> /\ drained.edges = <<>> /\ delta.edges = <<>>
    BY <1>6, InvTypes DEF CatalogInv, NameInv
<1>8. EveryEdge = (<<>> \o <<>>) \o <<>>
    BY <1>7 DEF EveryEdge
<1>9. Len((<<>> \o <<>>) \o <<>>) = 0
    OBVIOUS
<1> QED
    BY <1>4, <1>5, <1>8, <1>9

LEMMA MatchNone ==
    ASSUME NEW es, NEW said, Len(es) = 0, Len(said) = 0
    PROVE  Matches(es, said)
<1> DEFINE phi == [k \in 1..0 |-> 0]
<1>1. \A k \in 1..0 : FALSE
    OBVIOUS
<1>2. phi \in [1..0 -> 1..0]
    BY <1>1
<1>3. phi \in Bijection(1..0, 1..0)
    BY <1>1, <1>2 DEF Bijection, Injection, Surjection, IsInjective
<1> QED
    BY <1>1, <1>3 DEF Matches

LEMMA RestoreStarts ==
    ASSUME CatalogInv, RestoreInv, ImportStarts
    PROVE  RestoreInv'
<1> DEFINE ids == [i \in DOMAIN graph.nodes |-> <<graph.nodes[i].ent, graph.nodes[i].id>>]
<1>1. /\ import.phase = "idle"
      /\ import' = [import EXCEPT !.phase = "nodes", !.payload = file, !.runs = @ + 1, !.ids = ids]
      /\ UNCHANGED <<storeVars, indexVars, mergeVars, read, file>>
    BY DEF ImportStarts
<1>2. /\ delta' = delta /\ issued' = issued /\ graph' = graph /\ drained' = drained /\ failed' = failed
    BY <1>1 DEF storeVars, indexVars, mergeVars
<1>3. import.next = 1
    BY <1>1 DEF RestoreInv
<1>4. /\ import'.phase = "nodes" /\ import'.payload = file /\ import'.runs = import.runs + 1
      /\ import'.ids = ids /\ import'.next = 1 /\ import.runs \in Nat
    BY <1>1, <1>3, ImportFacts
<1>5. EveryEdge' = EveryEdge /\ (AllImported' <=> AllImported)
    BY <1>2 DEF EveryEdge, AllImported
<1>6. ASSUME import.runs = 0, AllImported PROVE HalfRestored(import.payload)'
    <2>1. Len(issued) = 0 /\ Len(graph.nodes) = 0 /\ Len(EveryEdge) = 0
        BY <1>6, NothingYet
    <2>2. DOMAIN graph.nodes = 1..0
        BY <2>1, InvTypes
    <2>3. ids \in [1..0 -> {}]
        BY <2>2
    <2>4. Len(ids) = 0
        <3> HIDE DEF ids
        <3> QED
            BY <2>3, DefinedSeq
    <2>5. Len(FirstSaid(file.edges, 0)) = 0
        BY FirstSaidIs
    <2>6. Matches(EveryEdge', FirstSaid(import'.payload.edges, 0))
        BY <1>4, <1>5, <2>1, <2>5, MatchNone
    <2>7. Len(file.nodes) \in Nat
        BY DEF CatalogInv, ShapeInv, FileType
    <2>8. GaveNames(import.payload, 0)'
        BY <1>2, <2>1 DEF GaveNames
    <2>9. KnowsNames(import.payload, 0)'
        BY <1>4, <2>4 DEF KnowsNames
    <2>10. import'.next - 1 = 0 /\ 0 <= Len(import'.payload.nodes)
        BY <1>4, <2>7
    <2> QED
        BY <1>4, <2>6, <2>8, <2>9, <2>10 DEF HalfRestored
<1>7. import'.runs = 1 => import.runs = 0
    BY <1>4
<1>8. import'.runs # 0
    BY <1>4
<1> QED
    BY <1>4, <1>5, <1>6, <1>7, <1>8 DEF RestoreInv

\* The file's names, once each; an edge of it links two of them.
LEMMA RestorableFacts ==
    ASSUME CatalogInv, Restorable(import.payload)
    PROVE  LET f == import.payload
           IN  /\ f.nodes \in Seq(Names) /\ Len(f.nodes) \in Nat /\ Len(f.edges) \in Nat
               /\ \A i, j \in 1..Len(f.nodes) : f.nodes[i] = f.nodes[j] => i = j
               /\ \A k \in 1..Len(f.edges) :
                     /\ \E i \in 1..Len(f.nodes) : f.nodes[i] = f.edges[k].from
                     /\ \E i \in 1..Len(f.nodes) : f.nodes[i] = f.edges[k].to
<1> DEFINE f == import.payload
           End == [from : Names \cup {NoName}, to : Names \cup {NoName}, type : EdgeTypes]
<1>1. f.nodes \in Seq(Names) /\ f.edges \in Seq(End)
    BY ImportFacts DEF FileType
<1>2. Distinct(f.nodes) /\ \A e \in Items(f.edges) : {e.from, e.to} \subseteq Items(f.nodes)
    BY DEF Restorable
<1> HIDE DEF f, End
<1>3. \A i, j \in 1..Len(f.nodes) : f.nodes[i] = f.nodes[j] => i = j
    BY <1>1, <1>2, DistinctOnce
<1>4. \A k \in 1..Len(f.edges) : f.edges[k] \in Items(f.edges)
    BY <1>1, ItemsOf
<1>5. \A x \in Items(f.nodes) : \E i \in 1..Len(f.nodes) : f.nodes[i] = x
    BY <1>1, ItemsOf
<1>6. Len(f.nodes) \in Nat /\ Len(f.edges) \in Nat
    BY <1>1
<1> QED
    BY <1>1, <1>2, <1>3, <1>4, <1>5, <1>6 DEF f

\* A first import finds no name of its file that it knows.
LEMMA NamesAreNew ==
    ASSUME CatalogInv, RestoreInv, NodesLeft, import.runs = 1, ~ failed, AllImported,
           Restorable(import.payload)
    PROVE  /\ GaveNames(import.payload, import.next - 1)
           /\ KnowsNames(import.payload, import.next - 1)
           /\ Matches(EveryEdge, FirstSaid(import.payload.edges, 0))
           /\ NameToId(import.ids, NextName) = {}
<1> DEFINE f == import.payload
           n == import.next
           name == f.nodes[n]
<1>1. import.phase = "nodes" /\ n <= Len(f.nodes) /\ n \in Nat \ {0}
    BY ImportFacts DEF NodesLeft
<1>2. /\ f.nodes \in Seq(Names) /\ Len(f.nodes) \in Nat
      /\ \A i, j \in 1..Len(f.nodes) : f.nodes[i] = f.nodes[j] => i = j
    BY RestorableFacts
<1>3. HalfRestored(f)
    BY DEF RestoreInv
<1>4. GaveNames(f, n - 1) /\ KnowsNames(f, n - 1) /\ Matches(EveryEdge, FirstSaid(f.edges, 0))
    BY <1>1, <1>3 DEF HalfRestored
<1>5. Len(import.ids) = n - 1 /\ \A i \in 1..(n - 1) : import.ids[i][1] = f.nodes[i]
    BY <1>4 DEF KnowsNames
<1>6. import.ids \in Seq(Names \X Nat)
    BY ImportFacts
<1>7. DOMAIN import.ids = 1..(n - 1)
    BY <1>5, <1>6
<1>8. ASSUME NEW i \in DOMAIN import.ids PROVE import.ids[i][1] # name
    <2>1. i \in 1..(n - 1) /\ i \in 1..Len(f.nodes) /\ n \in 1..Len(f.nodes) /\ i # n
        BY <1>1, <1>2, <1>7
    <2> QED
        BY <1>2, <1>5, <2>1
<1>9. NameToId(import.ids, name) = {}
    BY <1>8 DEF NameToId
<1>10. NextName = name
    BY DEF NextName
<1> QED
    BY <1>4, <1>9, <1>10

LEMMA RestoreSkips ==
    ASSUME CatalogInv, RestoreInv, ImportSkips
    PROVE  RestoreInv'
<1>1. /\ NodesLeft /\ NameToId(import.ids, NextName) # {}
      /\ import' = [import EXCEPT !.next = @ + 1]
      /\ graph' = graph /\ drained' = drained /\ delta' = delta /\ failed' = failed
    BY DEF ImportSkips, storeVars, indexVars, mergeVars
<1>2. import.runs # 0 /\ import.phase = "nodes"
    BY <1>1, ImportFacts DEF NodesLeft
<1>3. import'.phase = "nodes" /\ import'.payload = import.payload /\ import'.runs = import.runs
    BY <1>1, <1>2, ImportFacts
<1>4. ASSUME import.runs = 1, ~ failed, AllImported', Restorable(import.payload) PROVE FALSE
    <2>1. AllImported
        BY <1>1, <1>4 DEF AllImported
    <2> QED
        BY <1>1, <1>4, <2>1, NamesAreNew
<1> QED
    BY <1>1, <1>2, <1>3, <1>4 DEF RestoreInv

\* A first import creates every node of its file.
LEMMA RestoreNode ==
    ASSUME CatalogInv, RestoreInv, ImportNode
    PROVE  RestoreInv'
<1> DEFINE f == import.payload
           n == import.next
           name == f.nodes[n]
<1>0. PICK x \in pending :
          /\ x.origin = "none" /\ Push(x)
          /\ import' = [import EXCEPT !.next = @ + 1, !.ids = Append(@, <<x.ent, x.id>>)]
    BY DEF ImportNode
<1> DEFINE pair == <<x.ent, x.id>>
<1>5. /\ Awaited(x) /\ x.id \in Nat /\ x.ent \in Names
      /\ delta' = [nodes |-> delta.nodes \o <<x>>, edges |-> delta.edges]
      /\ Len(issued) \in Nat /\ Len(issued') = Len(issued) + 1
      /\ \A i \in 1..Len(issued) : issued'[i] = issued[i]
      /\ issued'[Len(issued) + 1] = x.ent
    BY <1>0, PushEffect
<1>6. x \in NodeType /\ NodesLeft /\ x.ent = name
    BY <1>0, <1>5 DEF Awaited, NextName
<1>1. /\ import.phase = "nodes" /\ n <= Len(f.nodes)
      /\ graph' = graph /\ drained' = drained /\ failed' = failed
    BY <1>6 DEF ImportNode, NodesLeft, indexVars, mergeVars
<1>2. import.runs # 0 /\ import.runs \in Nat /\ n \in Nat \ {0} /\ name \in Names
    BY <1>1, PayloadTypes, ImportFacts
<1>3. /\ import'.phase = "nodes" /\ import'.payload = f /\ import'.runs = import.runs
      /\ import'.next = n + 1 /\ import'.ids = Append(import.ids, pair)
    BY <1>0, <1>1, ImportFacts
<1>4. ASSUME import.runs = 1, ~ failed, AllImported', Restorable(f)
      PROVE  HalfRestored(import.payload)'
    <2>1. Len(f.nodes) \in Nat
        BY <1>4, RestorableFacts
    <2>3. delta'.edges = delta.edges /\ \A y \in Items(delta.nodes) : y \in Items(delta'.nodes)
        <3>1. delta'.edges = delta.edges /\ delta'.nodes = delta.nodes \o <<x>>
            BY <1>5
        <3>2. delta.nodes \in Seq(NodeType)
            BY InvTypes
        <3> QED
            BY <1>6, <3>1, <3>2, PushItems
    <2>4. AllImported /\ EveryEdge' = EveryEdge
        BY <1>1, <1>4, <2>3 DEF AllImported, EveryEdge
    <2>5. /\ GaveNames(f, n - 1) /\ KnowsNames(f, n - 1)
          /\ Matches(EveryEdge, FirstSaid(f.edges, 0))
        BY <1>4, <1>6, <2>4, NamesAreNew
    <2>6. /\ Len(issued) = n - 1 /\ \A i \in 1..(n - 1) : issued[i] = f.nodes[i]
          /\ Len(import.ids) = n - 1 /\ \A i \in 1..(n - 1) : import.ids[i][1] = f.nodes[i]
          /\ Matches(EveryEdge, FirstSaid(f.edges, 0))
        BY <2>5 DEF GaveNames, KnowsNames
    <2>7. import.ids \in Seq(Names \X Nat)
        BY ImportFacts
    <2>13. pair \in Names \X Nat /\ pair[1] = name
        BY <1>5, <1>6
    <2>12. import'.ids = Append(import.ids, pair)
        BY <1>3
    <2> HIDE DEF pair
    <2>14. /\ Len(import'.ids) = n
           /\ \A i \in 1..(n - 1) : import'.ids[i] = import.ids[i]
           /\ import'.ids[n] = pair
        <3>1. /\ Len(Append(import.ids, pair)) = Len(import.ids) + 1
              /\ \A i \in 1..Len(import.ids) : Append(import.ids, pair)[i] = import.ids[i]
              /\ Append(import.ids, pair)[Len(import.ids) + 1] = pair
            BY <2>7, <2>13, AppendProperties
        <3>2. Len(import.ids) + 1 = n
            BY <1>2, <2>6
        <3> QED
            BY <2>6, <2>12, <3>1, <3>2
    <2>15. /\ Len(issued') = n /\ \A i \in 1..(n - 1) : issued'[i] = issued[i]
           /\ issued'[n] = name
        <3>1. Len(issued) + 1 = n
            BY <1>2, <2>6
        <3> QED
            BY <1>5, <1>6, <2>6, <3>1
    <2>16. \A i \in 1..n : i \in 1..(n - 1) \/ i = n
        BY <1>2
    <2>17. \A i \in 1..n : issued'[i] = f.nodes[i]
        BY <2>6, <2>15, <2>16
    <2>18. \A i \in 1..n : import'.ids[i][1] = f.nodes[i]
        BY <2>6, <2>13, <2>14, <2>16
    <2>19. PICK m \in Nat : m = n
        BY <1>2
    <2>20. import'.next - 1 = m
        BY <1>2, <1>3, <2>19
    <2>21. GaveNames(import.payload, m)'
        BY <1>3, <2>15, <2>17, <2>19 DEF GaveNames
    <2>22. KnowsNames(import.payload, m)'
        BY <1>3, <2>14, <2>18, <2>19 DEF KnowsNames
    <2>23. Matches(EveryEdge', FirstSaid(import'.payload.edges, 0))
        BY <1>3, <2>4, <2>6
    <2>24. m <= Len(import'.payload.nodes)
        BY <1>1, <1>3, <2>19
    <2> QED
        BY <1>3, <2>20, <2>21, <2>22, <2>23, <2>24 DEF HalfRestored
<1> QED
    BY <1>1, <1>2, <1>3, <1>4 DEF RestoreInv


LEMMA RestoreTurns ==
    ASSUME CatalogInv, RestoreInv, ImportNodesDone \/ ImportEnds
    PROVE  RestoreInv'
<1> DEFINE f == import.payload
<1>1. UNCHANGED <<storeVars, indexVars, mergeVars>>
    BY DEF ImportNodesDone, ImportEnds
<1>2. /\ issued' = issued /\ delta' = delta /\ graph' = graph /\ drained' = drained /\ failed' = failed
    BY <1>1 DEF storeVars, indexVars, mergeVars
<1>3. EveryEdge' = EveryEdge /\ (AllImported' <=> AllImported)
    BY <1>2 DEF EveryEdge, AllImported
<1>4. import.runs # 0 /\ import.next \in Nat
    BY ImportFacts DEF ImportNodesDone, ImportEnds
<1>5. import'.payload = f /\ import'.runs = import.runs /\ import'.next = 1
    BY ImportFacts DEF ImportNodesDone, ImportEnds
<1>6. ASSUME import.runs = 1, ~ failed, AllImported, Restorable(f)
      PROVE  HalfRestored(import.payload)'
    <2>1. HalfRestored(f)
        BY <1>6 DEF RestoreInv
    <2>2. Len(f.nodes) \in Nat /\ Len(f.edges) \in Nat
        BY <1>6, RestorableFacts
    <2>3. \A k : Matches(EveryEdge, FirstSaid(f.edges, k)) => Matches(EveryEdge', FirstSaid(import'.payload.edges, k))
        BY <1>3, <1>5
    <2>4. GaveNames(f, Len(f.nodes)) => GaveNames(import.payload, Len(import.payload.nodes))'
        BY <1>2, <1>5 DEF GaveNames
    <2>5. CASE ImportNodesDone
        <3>1. import.phase = "nodes" /\ import.next > Len(f.nodes) /\ import'.phase = "edges"
                /\ import'.ids = import.ids
            BY <2>5, ImportFacts DEF ImportNodesDone
        <3>2. import.next - 1 <= Len(f.nodes) /\ GaveNames(f, import.next - 1)
                /\ KnowsNames(f, import.next - 1) /\ Matches(EveryEdge, FirstSaid(f.edges, 0))
            BY <2>1, <3>1 DEF HalfRestored
        <3>3. import.next - 1 = Len(f.nodes)
            BY <1>4, <2>2, <3>1, <3>2
        <3>4. GaveNames(import.payload, Len(import.payload.nodes))'
            BY <2>4, <3>2, <3>3
        <3>5. KnowsNames(import.payload, Len(import.payload.nodes))'
            BY <1>5, <3>1, <3>2, <3>3 DEF KnowsNames
        <3>6. Matches(EveryEdge', FirstSaid(import'.payload.edges, 0))
            BY <2>3, <3>2
        <3>7. import'.next - 1 = 0 /\ 0 <= Len(import'.payload.edges)
            BY <1>5, <2>2
        <3> QED
            BY <3>1, <3>4, <3>5, <3>6, <3>7 DEF HalfRestored
    <2>6. CASE ImportEnds
        <3>1. import.phase = "edges" /\ import.next > Len(f.edges) /\ import'.phase = "idle"
            BY <2>6, ImportFacts DEF ImportEnds
        <3>2. import.next - 1 <= Len(f.edges) /\ GaveNames(f, Len(f.nodes))
                /\ Matches(EveryEdge, FirstSaid(f.edges, import.next - 1))
            BY <2>1, <3>1 DEF HalfRestored
        <3>3. import.next - 1 = Len(f.edges)
            BY <1>4, <2>2, <3>1, <3>2
        <3>4. GaveNames(import.payload, Len(import.payload.nodes))'
            BY <2>4, <3>2
        <3>5. Matches(EveryEdge', FirstSaid(import'.payload.edges, Len(import'.payload.edges)))
            BY <1>5, <2>3, <3>2, <3>3
        <3> QED
            BY <3>1, <3>4, <3>5 DEF HalfRestored
    <2> QED
        BY <2>5, <2>6
<1> QED
    BY <1>2, <1>3, <1>4, <1>5, <1>6 DEF RestoreInv

\* name_to_id knows the names it was told.
LEMMA KnownToImport ==
    ASSUME NEW S, NEW ids \in Seq(S), NEW i \in 1..Len(ids), NEW name, ids[i][1] = name
    PROVE  NameToId(ids, name) # {}
<1>1. i \in {j \in DOMAIN ids : ids[j][1] = name}
    OBVIOUS
<1> QED
    BY <1>1 DEF NameToId

\* A first import creates every edge of its file.
LEMMA RestoreEdge ==
    ASSUME CatalogInv, RestoreInv, ImportEdge
    PROVE  RestoreInv'
<1> DEFINE f == import.payload
           n == import.next
           e == f.edges[n]
           from == NameToId(import.ids, e.from)
           to == NameToId(import.ids, e.to)
           New(x, y) == [from |-> x, to |-> y, src |-> e.from, dst |-> e.to,
                         origin |-> [type |-> e.type, weight |-> WeightOf[e.type], dim |-> "none"]]
<1>1. /\ import.phase = "edges" /\ n <= Len(f.edges) /\ import' = [import EXCEPT !.next = @ + 1]
      /\ graph' = graph /\ drained' = drained /\ failed' = failed
    BY DEF ImportEdge, indexVars, mergeVars
<1>2. import.runs # 0 /\ import.runs \in Nat /\ n \in Nat \ {0} /\ e.type \in EdgeTypes
    BY <1>1, PayloadTypes, ImportFacts
<1>3. /\ import'.phase = "edges" /\ import'.payload = f /\ import'.runs = import.runs
      /\ import'.next = n + 1 /\ import'.ids = import.ids
    BY <1>1, ImportFacts
<1>4. delta = [nodes |-> delta.nodes, edges |-> delta.edges]
    BY InvTypes
<1>5. CASE from = {} \/ to = {}
    <2>1. delta' = delta
        BY <1>5 DEF ImportEdge, storeVars
    <2>2. ASSUME import.runs = 1, ~ failed, AllImported', Restorable(f) PROVE FALSE
        <3>1. AllImported
            BY <1>1, <2>1, <2>2 DEF AllImported
        <3>2. KnowsNames(f, Len(f.nodes))
            BY <1>1, <2>2, <3>1 DEF RestoreInv, HalfRestored
        <3>3. n \in 1..Len(f.edges)
            BY <1>1, <1>2, <2>2, RestorableFacts
        <3>4. PICK i, j \in 1..Len(f.nodes) : f.nodes[i] = e.from /\ f.nodes[j] = e.to
            <4>1. \A k \in 1..Len(f.edges) : \E i \in 1..Len(f.nodes) : f.nodes[i] = f.edges[k].from
                BY <2>2, RestorableFacts
            <4>2. \A k \in 1..Len(f.edges) : \E i \in 1..Len(f.nodes) : f.nodes[i] = f.edges[k].to
                BY <2>2, RestorableFacts
            <4>3. \E i \in 1..Len(f.nodes) : f.nodes[i] = e.from
                BY <3>3, <4>1
            <4>4. \E i \in 1..Len(f.nodes) : f.nodes[i] = e.to
                BY <3>3, <4>2
            <4> HIDE DEF e
            <4> QED
                BY ONLY <4>3, <4>4
        <3>5. import.ids \in Seq(Names \X Nat)
            BY ImportFacts
        <3>6. /\ i \in 1..Len(import.ids) /\ import.ids[i][1] = e.from
              /\ j \in 1..Len(import.ids) /\ import.ids[j][1] = e.to
            BY <3>2, <3>4 DEF KnowsNames
        <3> HIDE DEF e
        <3>7. NameToId(import.ids, e.from) # {}
            BY <3>5, <3>6, KnownToImport
        <3>8. NameToId(import.ids, e.to) # {}
            BY <3>5, <3>6, KnownToImport
        <3> QED
            BY <1>5, <3>7, <3>8
    <2> QED
        BY <1>1, <1>2, <1>3, <2>2 DEF RestoreInv
<1>6. CASE ~ (from = {} \/ to = {})
    <2>1. issued' = issued
        BY <1>6 DEF ImportEdge
    <2>2. PICK x \in from, y \in to : AddEdge(New(x, y))
        BY <1>6 DEF ImportEdge
    <2>3. e.from \in Names /\ x \in Nat
        BY NameToIdLeads
    <2>4. e.to \in Names /\ y \in Nat
        BY NameToIdLeads
    <2>5. WeightOf[e.type] \in Nat
        BY <1>2, CatalogAssumption
    <2> DEFINE edge == New(x, y)
    <2>6. edge \in EdgeType
        BY <1>2, <2>3, <2>4, <2>5 DEF EdgeType, Dims
    <2>7. SaidOf(edge) = [src |-> e.from, dst |-> e.to, type |-> e.type]
        BY DEF SaidOf
    <2>8. AddEdge(edge)
        BY <2>2
    <2> HIDE DEF New, edge
    <2>9. delta' = [nodes |-> delta.nodes, edges |-> delta.edges \o <<edge>>]
        <3>1. delta' = [delta EXCEPT !.edges = @ \o <<edge>>]
            BY <2>8 DEF AddEdge, PushEdges
        <3> QED
            BY <1>4, <3>1
    <2>10. delta'.nodes = delta.nodes /\ delta'.edges = delta.edges \o <<edge>>
        BY ONLY <2>9
    <2>11. AllImported' => AllImported
        BY <1>1, <2>10 DEF AllImported
    <2>12. ASSUME import.runs = 1, ~ failed, AllImported', Restorable(f)
           PROVE  HalfRestored(import.payload)'
        <3>1. /\ GaveNames(f, Len(f.nodes)) /\ KnowsNames(f, Len(f.nodes))
              /\ Matches(EveryEdge, FirstSaid(f.edges, n - 1))
            BY <1>1, <2>11, <2>12 DEF RestoreInv, HalfRestored
        <3> DEFINE p == AllEdges(graph) \o drained.edges
                   q == delta.edges
                   said == FirstSaid(f.edges, n - 1)
                   told == FirstSaid(f.edges, n)
        <3>2. p \in Seq(EdgeType) /\ q \in Seq(EdgeType)
            BY InvTypes, ConcatItems
        <3>3. EveryEdge = p \o q /\ EveryEdge' = p \o (q \o <<edge>>)
            BY <1>1, <2>10 DEF EveryEdge
        <3>4. n - 1 \in Nat /\ (n - 1) + 1 = n /\ n \in Nat /\ n \in 1..n
                /\ \A i \in 1..(n - 1) : i \in 1..n
            BY <1>2
        <3>5. Len(said) = n - 1
                /\ \A i \in 1..(n - 1) : said[i] = [src |-> f.edges[i].from, dst |-> f.edges[i].to,
                                                    type |-> f.edges[i].type]
            BY <3>4, FirstSaidIs
        <3>6. Len(told) = n
                /\ \A i \in 1..n : told[i] = [src |-> f.edges[i].from, dst |-> f.edges[i].to,
                                              type |-> f.edges[i].type]
            BY <3>4, FirstSaidIs
        <3> HIDE DEF p, q, said, told
        <3>7. \A i \in 1..(n - 1) : told[i] = said[i]
            BY <3>4, <3>5, <3>6
        <3>8. told[n] = SaidOf(edge)
            BY <2>7, <3>4, <3>6
        <3>9. OneMore(p \o q, p \o (q \o <<edge>>), edge)
            BY <2>6, <3>2, EdgeMore
        <3>10. Matches(p \o q, said)
            BY <3>1, <3>3 DEF said
        <3>11. Matches(p \o (q \o <<edge>>), told)
            <4>1. OneMore(said, told, SaidOf(edge))
                BY <3>4, <3>5, <3>6, <3>7, <3>8 DEF OneMore
            <4> QED
                BY ONLY <3>9, <3>10, <4>1, MatchOneMore
        <3>12. Matches(EveryEdge', FirstSaid(import'.payload.edges, n))
            BY <1>3, <3>3, <3>11 DEF told
        <3>13. PICK l \in Nat : l = n
            BY <1>2
        <3>14. import'.next - 1 = l /\ l <= Len(import'.payload.edges)
            BY <1>1, <1>2, <1>3, <3>13
        <3>15. GaveNames(import.payload, Len(import.payload.nodes))'
            BY <1>3, <2>1, <3>1 DEF GaveNames
        <3>16. KnowsNames(import.payload, Len(import.payload.nodes))'
            BY <1>3, <3>1 DEF KnowsNames
        <3>17. Matches(EveryEdge', FirstSaid(import'.payload.edges, l))
            BY <3>12, <3>13
        <3> QED
            BY <1>3, <3>14, <3>15, <3>16, <3>17 DEF HalfRestored
    <2> QED
        BY <1>1, <1>2, <1>3, <2>12 DEF RestoreInv
<1> QED
    BY <1>5, <1>6


LEMMA RestoreStep == CatalogInv /\ RestoreInv /\ [Next]_vars => RestoreInv'
<1> SUFFICES ASSUME CatalogInv, RestoreInv, [Next]_vars PROVE RestoreInv'
    OBVIOUS
<1>0. CASE IngestAllocates \/ ImportAllocates
    <2>1. /\ import' = import /\ issued' = issued /\ graph' = graph /\ drained' = drained
          /\ delta' = delta /\ failed' = failed
        BY <1>0 DEF IngestAllocates, ImportAllocates, Allocate, indexVars, mergeVars
    <2> QED
        BY <2>1, RestoreSame
<1>1. CASE IngestNode
    BY <1>1, RestoreIngestsNode
<1>2. CASE IngestEdge
    BY <1>2, RestoreIngestsEdge
<1>3. CASE Drain
    BY <1>3, RestoreDrains
<1>4. CASE MergeSwaps
    BY <1>4, RestoreSwaps
<1>5. CASE MergeDies
    BY <1>5, RestoreDies
<1>6. CASE ReadGraph \/ ReadDelta \/ ExportEnds
    <2>1. /\ import' = import /\ issued' = issued /\ graph' = graph /\ drained' = drained
          /\ delta' = delta /\ failed' = failed
        BY <1>6 DEF ReadGraph, ReadDelta, ExportEnds, storeVars, indexVars, mergeVars
    <2> QED
        BY <2>1, RestoreSame
<1>7. CASE ImportStarts
    BY <1>7, RestoreStarts
<1>8. CASE ImportNode
    BY <1>8, RestoreNode
<1>13. CASE ImportSkips
    BY <1>13, RestoreSkips
<1>9. CASE ImportEdge
    BY <1>9, RestoreEdge
<1>10. CASE ImportNodesDone \/ ImportEnds
    BY <1>10, RestoreTurns
<1>11. CASE FreshInstance
    BY <1>11, RestoreFresh
<1>12. CASE UNCHANGED vars
    <2>1. /\ import' = import /\ issued' = issued /\ graph' = graph /\ drained' = drained
          /\ delta' = delta /\ failed' = failed
        BY <1>12 DEF vars, storeVars, indexVars, mergeVars
    <2> QED
        BY <2>1, RestoreSame
<1> QED
    BY <1>0, <1>1, <1>2, <1>3, <1>4, <1>5, <1>6, <1>7, <1>8, <1>9, <1>10, <1>11, <1>12, <1>13
       DEF Next

LEMMA RestoreInvariant ==
    ASSUME OneAtATime
    PROVE  Spec => [](CatalogInv /\ RestoreInv)
<1>1. Init => CatalogInv /\ RestoreInv
    BY CatalogInit, RestoreInit
<1>2. CatalogInv /\ RestoreInv /\ [Next]_vars => CatalogInv' /\ RestoreInv'
    BY CatalogStep, RestoreStep
<1> QED
    BY <1>1, <1>2, PTL DEF Spec

\* A file with one node of each name, imported once into an instance without
\* nodes, gives back its nodes and its edges, each as often as the file has them,
\* whatever merges ran meanwhile (apply_import of handlers/export.rs).
THEOREM ImportsRestore ==
    ASSUME OneAtATime
    PROVE  Spec => []RestoreExact
<1>1. CatalogInv /\ RestoreInv => RestoreExact
    <2> DEFINE f == import.payload
               nodes == graph.nodes \o delta.nodes
               es == AllEdges(graph) \o delta.edges
               target == [k \in DOMAIN f.edges |-> [src  |-> f.edges[k].from,
                                                     dst  |-> f.edges[k].to,
                                                     type |-> f.edges[k].type]]
    <2> SUFFICES ASSUME CatalogInv, RestoreInv, import.runs = 1, import.phase = "idle",
                        ~ merging, ~ failed, \A n \in Items(nodes) : n.origin = "none",
                        Distinct(f.nodes),
                        \A e \in Items(f.edges) : {e.from, e.to} \subseteq Items(f.nodes)
                 PROVE  SameBag(EntsOf(nodes), f.nodes) /\ SameBag(Said(es), target)
        BY DEF RestoreExact
    <2>1. /\ graph.nodes \in Seq(NodeType) /\ delta.nodes \in Seq(NodeType)
          /\ AllEdges(graph) \in Seq(EdgeType) /\ delta.edges \in Seq(EdgeType)
        BY InvTypes
    <2>2. drained = Empty
        BY DEF CatalogInv, PlaceInv
    <2>3. AllImported
        <3>1. \A n \in Items(graph.nodes) : n.origin = "none"
            BY <2>1, ConcatItems
        <3>2. \A n \in Items(delta.nodes) : n.origin = "none"
            BY <2>1, ConcatItems
        <3> QED
            BY <2>2, <3>1, <3>2, EmptyType DEF AllImported
    <2>4. Restorable(f)
        BY DEF Restorable
    <2>5. HalfRestored(f)
        BY <2>3, <2>4 DEF RestoreInv
    <2>6. GaveNames(f, Len(f.nodes)) /\ Matches(EveryEdge, FirstSaid(f.edges, Len(f.edges)))
        BY <2>5 DEF HalfRestored
    <2>7. EntsOf(nodes) = issued /\ issued \in Seq(Names)
        BY NothingIsLost DEF CatalogInv, StoreInv
    <2>8. f.nodes \in Seq(Names) /\ Len(f.edges) \in Nat
        BY <2>4, RestorableFacts
    <2>9. issued = f.nodes
        <3> HIDE DEF f
        <3>1. Len(issued) = Len(f.nodes) /\ \A i \in 1..Len(f.nodes) : issued[i] = f.nodes[i]
            BY <2>6 DEF GaveNames
        <3> QED
            BY <2>7, <2>8, <3>1
    <2>10. SameBag(EntsOf(nodes), f.nodes)
        BY <2>7, <2>9 DEF SameBag
    <2>11. f.edges \in Seq([from : Names \cup {NoName}, to : Names \cup {NoName}, type : EdgeTypes])
        BY ImportFacts DEF FileType
    <2>12. DOMAIN f.edges = 1..Len(f.edges)
        BY <2>11
    <2>13. target = FirstSaid(f.edges, Len(f.edges))
        BY <2>12 DEF FirstSaid
    <2>14. EveryEdge = es
        <3>1. EveryEdge = (AllEdges(graph) \o Empty.edges) \o delta.edges
            BY <2>2 DEF EveryEdge
        <3>2. Empty.edges = <<>>
            BY EmptyType
        <3>3. AllEdges(graph) \o <<>> = AllEdges(graph)
            BY <2>1
        <3> QED
            BY <3>1, <3>2, <3>3
    <2>15. es \in Seq(EdgeType)
        BY <2>1, ConcatItems
    <2>16. Matches(es, target)
        BY <2>6, <2>13, <2>14
    <2>17. Len(target) = Len(f.edges)
        BY <2>8, <2>13, FirstSaidIs
    <2> DEFINE S == {target[k] : k \in 1..Len(f.edges)}
    <2>18. target \in Seq(S)
        <3>1. target \in [1..Len(f.edges) -> S]
            BY <2>12
        <3> HIDE DEF target, S
        <3> QED
            BY <2>8, <3>1, DefinedSeq
    <2> HIDE DEF f, es, target, S
    <2>19. /\ Said(es) \in Seq(SaidType) /\ Len(Said(es)) = Len(es)
           /\ \A k \in 1..Len(es) : Said(es)[k] = SaidOf(es[k])
        BY <2>15, SaidItems
    <2>20. PICK phi \in Bijection(1..Len(es), 1..Len(target)) :
               \A k \in 1..Len(es) : target[phi[k]] = SaidOf(es[k])
        BY <2>16 DEF Matches
    <2>21. phi \in Bijection(1..Len(Said(es)), 1..Len(target))
             /\ \A k \in 1..Len(Said(es)) : target[phi[k]] = Said(es)[k]
        BY <2>19, <2>20
    <2>22. SameBag(Said(es), target)
        BY <2>18, <2>19, <2>21, SameBagBy
    <2> QED
        BY <2>10, <2>22
<1> QED
    BY <1>1, RestoreInvariant, PTL

=============================================================================
