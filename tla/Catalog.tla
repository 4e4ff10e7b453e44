--------------------------------- MODULE Catalog ---------------------------------
(***************************************************************************)
(* What clients see of the graph as data: the lookups and searches of      *)
(* handlers/admin.rs, the export and import of handlers/export.rs, beside  *)
(* ingests and merges.                                                     *)
(*                                                                         *)
(* Engine takes an ingest and a merge apart; here both are two steps (an   *)
(* ingest or import allocates the ID of a node and later pushes the node,  *)
(* a merge drains and later swaps or dies), and so are the readers: each   *)
(* of them drops its guard of the graph before it reads the delta.  Since  *)
(* what it answers is a function of the graph it saw and of the delta it   *)
(* saw, one reader stands for all of them and for all their parameters.    *)
(*                                                                         *)
(* An entity is its name.  The `origin` of a node tells whether it has an  *)
(* embedding ("full") or not ("none": imported); that of an edge is        *)
(* [type, weight, dim].                                                    *)
(***************************************************************************)
EXTENDS DeltaStore, CsrGraph

CONSTANTS
    Names,        \* names that ingests and the first snapshot use
    EdgeTypes,
    WeightOf,     \* the weight each type of edge is given
    Snapshots,    \* the snapshots the instance may have booted from
    NoName,       \* the empty name that unwrap_or_default gives
    MaxNodes,     \* bound: IDs ever allocated
    MaxPending,   \* bound: IDs that are allocated and wait for their node
    MaxEdges,     \* bound: edges an ingest may leave behind
    MaxMerges,    \* bound: merges of an instance
    MaxImports    \* bound: imports of an instance

Dims == {"full", "none"}
NodeType == [id : Nat, ent : Names, origin : Dims]
EdgeType == [from : Nat, to : Nat, src : Names, dst : Names,
             origin : [type : EdgeTypes, weight : Nat, dim : Dims]]
GraphType == [nodes : Seq(NodeType), edges : Seq(EdgeType)]

\* A snapshot is one the first ingest left: with a vector for every node, edges
\* between the nodes they name, and some edge (CsrGraph has no weights without).
ASSUME CatalogAssumption ==
    /\ NoName \notin Names
    /\ WeightOf \in [EdgeTypes -> Nat \ {0}]
    /\ \A s \in Snapshots :
          /\ s \in GraphType
          /\ s.nodes # <<>> => s.edges # <<>>
          /\ \A i \in DOMAIN s.nodes : s.nodes[i].id = i - 1 /\ s.nodes[i].origin = "full"
          /\ \A k \in DOMAIN s.edges : \E i, j \in DOMAIN s.nodes :
                /\ s.edges[k].from = i - 1 /\ s.edges[k].src = s.nodes[i].ent
                /\ s.edges[k].to = j - 1 /\ s.edges[k].dst = s.nodes[j].ent
    /\ {MaxNodes, MaxPending, MaxEdges, MaxMerges, MaxImports} \subseteq Nat

VARIABLES
    graph,     \* AppState.graph, as CsrGraph!Build makes it
    vectors,   \* vectors.bin and edge_vectors.bin: the length of each vector, and
               \* which of the two files end before their last vector
    pending,   \* nodes whose requests have their IDs and have not pushed them yet
    issued,    \* the name each ID was handed out for: ID k, once its node was pushed,
               \* is issued[k + 1]
    merging,   \* a run_merge task has drained and not yet ended
    drained,   \* what it drained
    merges,    \* merges so far
    failed,    \* a merge died with what it had drained
    read,      \* the reader: has it seen the graph, which one, and no merge since
    file,      \* the last export
    import     \* the importer: its phase, its payload and how far it is in it,
               \* name_to_id, and how many imports this instance has seen

storeVars == <<delta, wal, walTorn, nextNodeId, pending, issued>>
indexVars == <<graph, vectors>>
mergeVars == <<merging, drained, merges, failed>>
vars == <<storeVars, indexVars, mergeVars, read, file, import>>

NoFile == [nodes |-> <<>>, edges |-> <<>>]

NameOf(nodes, id) == nodes[id + 1].ent

-----------------------------------------------------------------------------
(***************************************************************************)
(* Ingest.                                                                 *)
(***************************************************************************)
\* resolve(): an entity is known when a node with its embedding is in the main
\* graph or in the delta.  An imported node has no embedding and never matches.
Known(name) ==
    {n.id : n \in {n \in Items(graph.nodes) \cup Items(delta.nodes) :
                      n.ent = name /\ n.origin = "full"}}

AddNode(n) == AppendNodes(<<n>>, FALSE) /\ PushNodes(<<n>>)
AddEdge(e) == AppendEdges(<<e>>, FALSE) /\ PushEdges(<<e>>)

\* The ID of a new node: alloc_node_id.  A request that fails after it (the range
\* of IDs ends under its next entity) is one whose node waits for ever.
Allocate(name, dim) ==
    /\ nextNodeId < MaxNodes /\ Cardinality(pending) < MaxPending
    /\ AllocNodeId
    /\ pending' = pending \cup {[id |-> nextNodeId, ent |-> name, origin |-> dim]}
    /\ UNCHANGED <<delta, wal, walTorn, issued>>

\* Mutant: the node gets the ID that the counter has by now.
PushUnderNewId(n) ==
    /\ pending' = pending \ {n}
    /\ issued' = [k \in DOMAIN issued \cup {n.id + 1} |-> IF k = n.id + 1 THEN n.ent ELSE issued[k]]
    /\ AddNode([n EXCEPT !.id = nextNodeId])
    /\ UNCHANGED nextNodeId

\* The node itself: add_nodes_batch of an ingest, add_node of an import.
Push(n) ==
    /\ pending' = pending \ {n}
    /\ issued' = [k \in DOMAIN issued \cup {n.id + 1} |-> IF k = n.id + 1 THEN n.ent ELSE issued[k]]
    /\ AddNode(n)
    /\ UNCHANGED nextNodeId

\* Bound: one export, and no ingest that starts after it.
BeforeExport == file = NoFile

\* POST /ingest of one new entity: resolved and given its ID under the guards of
\* graph, hnsw and delta, and pushed when they are dropped.
IngestAllocates ==
    /\ BeforeExport
    /\ \E name \in Names : Known(name) = {} /\ Allocate(name, "full")
    /\ UNCHANGED <<indexVars, mergeVars, read, file, import>>

IngestNode ==
    /\ \E n \in pending : n.origin = "full" /\ Push(n)
    /\ UNCHANGED <<indexVars, mergeVars, read, file, import>>

\* POST /ingest of a relation between two known entities.
IngestEdge ==
    /\ BeforeExport
    /\ Len(graph.edges) + Len(delta.edges) + Len(drained.edges) < MaxEdges
    /\ \E x, y \in Names, t \in EdgeTypes :
          \E from \in Known(x), to \in Known(y) :
             AddEdge([from |-> from, to |-> to, src |-> x, dst |-> y,
                      origin |-> [type |-> t, weight |-> WeightOf[t], dim |-> "full"]])
    /\ UNCHANGED <<nextNodeId, pending, issued, indexVars, mergeVars, read, file, import>>

-----------------------------------------------------------------------------
(***************************************************************************)
(* Merge.                                                                  *)
(***************************************************************************)
\* Mutant: the merge copies the delta and leaves it in place.
DrainCloned ==
    /\ ~ merging /\ merges < MaxMerges
    /\ merging' = TRUE /\ merges' = merges + 1
    /\ drained' = delta
    /\ read' = [read EXCEPT !.quiet = FALSE]
    /\ UNCHANGED <<storeVars, indexVars, failed, file, import>>

Drain ==
    /\ ~ merging /\ merges < MaxMerges
    /\ merging' = TRUE /\ merges' = merges + 1
    /\ drained' = delta /\ DrainDelta
    /\ read' = [read EXCEPT !.quiet = FALSE]
    /\ UNCHANGED <<wal, walTorn, nextNodeId, pending, issued, indexVars, failed, file, import>>

NodeDims == vectors.nodes \o [i \in DOMAIN drained.nodes |-> drained.nodes[i].origin]
EdgeDims == vectors.edges \o [j \in DOMAIN drained.edges |-> drained.edges[j].origin.dim]

OneLength(dims) == Cardinality(Items(dims)) <= 1

\* VectorStore::open of both files, before anything is merged.
FilesOpen == vectors.short = {}

\* save_edge_hnsw_data leaves the file alone when its first vector has no length.
EdgeVectorsKept == \A j \in DOMAIN EdgeDims \cap {1} : EdgeDims[j] = "none"

NodesWritten == FilesOpen /\ OneLength(NodeDims)
AllWritten   == NodesWritten /\ (EdgeVectorsKept \/ OneLength(EdgeDims))

MergedGraph ==
    Build(MergedNodes(graph.nodes, drained.nodes),
          AllEdges(graph) \o RemappedEdges(NumNodes(graph), drained))

EndMerge == merging' = FALSE /\ drained' = Empty

MergeSwaps ==
    /\ merging /\ AllWritten
    /\ graph' = MergedGraph
    /\ vectors' = [vectors EXCEPT !.nodes = NodeDims,
                                  !.edges = IF EdgeVectorsKept THEN @ ELSE EdgeDims]
    /\ TruncateWal
    /\ EndMerge
    /\ UNCHANGED <<delta, nextNodeId, pending, issued, merges, failed, read, file, import>>

\* A file that ends early cannot be opened, and VectorStore::write asserts that
\* all vectors have the length of the first: the task is over, the file it was
\* writing is short, and what it drained is left in the WAL alone.
MergeDies ==
    /\ merging /\ ~ AllWritten
    /\ failed' = TRUE
    /\ vectors' =
          IF ~ FilesOpen THEN vectors
          ELSE IF ~ NodesWritten THEN [vectors EXCEPT !.short = @ \cup {"nodes"}]
          ELSE [vectors EXCEPT !.nodes = NodeDims, !.short = @ \cup {"edges"}]
    /\ EndMerge
    /\ UNCHANGED <<storeVars, graph, merges, read, file, import>>

-----------------------------------------------------------------------------
(***************************************************************************)
(* Readers.  The operators are what the handlers compute from the graph g  *)
(* and the delta d they saw.  An optional filter is a set: {} admits       *)
(* everything, {x} only x.                                                 *)
(***************************************************************************)
Admits(filter, x) == filter = {} \/ x \in filter
OfType(type, e) == Admits(type, e.origin.type)

Take(n, s) == SubSeq(s, 1, IF n < Len(s) THEN n ELSE Len(s))

\* Graph nodes first, then nodes of the delta up to the limit.
Listed(limit, fromGraph, fromDelta) ==
    Take(limit, fromGraph) \o Take(limit - Len(Take(limit, fromGraph)), fromDelta)

\* get_node: the index of the graph, else the ID of a buffered node.
Get(id, g, d) ==
    IF id < NumNodes(g) THEN {g.nodes[id + 1]}
    ELSE {n \in Items(d.nodes) : n.id = id}

\* search_nodes without related_to or edge_type.  `wanted` are the names that
\* pass the filters q and type.
SearchByName(wanted, limit, g, d) ==
    LET Hits(nodes) == Selected(nodes, LAMBDA n : n.ent \in wanted)
    IN  Listed(limit, Hits(g.nodes), Hits(d.nodes))

\* search_nodes with an edge_type alone: nodes with an outgoing edge of it.
SearchByEdgeType(type, wanted, limit, g, d) ==
    Listed(limit,
        Selected(g.nodes, LAMBDA n : n.ent \in wanted /\ \E e \in Items(Neighbors(g, n.id)) :
                                                             OfType(type, e)),
        Selected(d.nodes, LAMBDA n : n.ent \in wanted /\ \E e \in Items(d.edges) :
                                                             e.from = n.id /\ OfType(type, e)))

\* Mutant: the edge type is looked up against the direction of the edge.
EdgeTypeMatchesBackwards(g, from, to, type) ==
    type = {} \/ \E e \in Items(Between(g, to, from)) : OfType(type, e)

EdgeTypeMatches(g, from, to, type) ==
    type = {} \/ \E e \in Items(Between(g, from, to)) : OfType(type, e)

Outgoing(g, root, type) ==
    LET es == Selected(Neighbors(g, root), LAMBDA e : OfType(type, e))
    IN  [k \in DOMAIN es |-> es[k].to]
Incoming(g, root, type) ==
    Selected(RevNeighbors(g, root), LAMBDA from : EdgeTypeMatches(g, from, root, type))
\* The incoming part without the nodes the outgoing part has.
Both(out, in) == out \o Selected(in, LAMBDA id : id \notin Items(out))

DeltaOutgoing(d, root) ==
    LET es == Selected(d.edges, LAMBDA e : e.from = root) IN [k \in DOMAIN es |-> es[k].to]
DeltaIncoming(d, root) ==
    LET es == Selected(d.edges, LAMBDA e : e.to = root) IN [k \in DOMAIN es |-> es[k].from]

Toward(dir, out, in) ==
    CASE dir = "out" -> out [] dir = "in" -> in [] OTHER -> Both(out, in)

\* search_nodes with related_to.  Of the ends of the delta's edges only those
\* that are buffered themselves are listed, and their edge type is looked up in
\* both directions.
SearchRelated(root, dir, type, wanted, limit, g, d) ==
    LET near == Toward(dir, Outgoing(g, root, type), Incoming(g, root, type))
        deltaNear == Toward(dir, DeltaOutgoing(d, root), DeltaIncoming(d, root))
        Typed(id) == type = {} \/ \E e \in Items(d.edges) :
                        {e.from, e.to} = {root, id} /\ OfType(type, e)
        buffered == Selected(deltaNear, LAMBDA id :
                        /\ \E n \in Items(d.nodes) : n.id = id /\ n.ent \in wanted
                        /\ Typed(id))
    IN  Listed(limit,
               Selected([k \in DOMAIN near |-> g.nodes[near[k] + 1]],
                        LAMBDA n : n.ent \in wanted),
               [k \in DOMAIN buffered |-> CHOOSE n \in Items(d.nodes) : n.id = buffered[k]])

\* Mutant: an edge between two given nodes is looked up among all edges of the one.
ToEdgesAny(g, to) ==
    LET heads == RevNeighbors(g, to)
    IN  [k \in DOMAIN heads |-> [from |-> heads[k], to |-> to,
                                 origin |-> Neighbors(g, heads[k])[1].origin]]

\* For each edge into a node, the first edge of the index that joins its two ends.
ToEdges(g, to) ==
    LET heads == RevNeighbors(g, to)
    IN  [k \in DOMAIN heads |-> [from |-> heads[k], to |-> to,
                                 origin |-> Between(g, heads[k], to)[1].origin]]

GraphEdges(from, to, g) ==
    CASE from # {} /\ to # {} ->
            Take(1, Selected(AllEdges(g), LAMBDA e : e.from \in from /\ e.to \in to))
      [] from = {} /\ to # {} -> ToEdges(g, CHOOSE id \in to : TRUE)
      [] OTHER -> Selected(AllEdges(g), LAMBDA e : Admits(from, e.from))

\* search_edges.  The names of the delta's edges are looked up in the graph as it
\* is when the delta is read (g2).  A node that is no index gives a 404, unless
\* both ends are given.
SearchEdges(from, to, type, limit, g, g2, d) ==
    LET Resolve(id) == LET hits == Get(id, g2, d)
                       IN  IF hits = {} THEN NoName ELSE (CHOOSE n \in hits : TRUE).ent
        Wanted(e) == OfType(type, e)
        Entry(e, x, y) == [from |-> e.from, to |-> e.to, fromName |-> x, toName |-> y,
                           type |-> e.origin.type]
        main == Selected(GraphEdges(from, to, g), Wanted)
        new  == Selected(d.edges, LAMBDA e : Admits(from, e.from) /\ Admits(to, e.to) /\ Wanted(e))
    IN  Listed(limit,
               [k \in DOMAIN main |-> Entry(main[k], NameOf(g.nodes, main[k].from),
                                            NameOf(g.nodes, main[k].to))],
               [k \in DOMAIN new |-> Entry(new[k], Resolve(new[k].from), Resolve(new[k].to))])

EdgeSearchAnswers(from, to, g) ==
    (from = {} \/ to = {}) => \A id \in from \cup to : id < NumNodes(g)

-----------------------------------------------------------------------------
(***************************************************************************)
(* Export.  collect_export_data clones the graph, then reads the delta and *)
(* takes the nodes of the delta to be those that follow the graph's.       *)
(***************************************************************************)
\* Mutant: the position counts from the delta's first node.
ExportedNameInDelta(g, d, id) ==
    IF id < NumNodes(g) THEN NameOf(g.nodes, id)
    ELSE IF id < Len(d.nodes) THEN NameOf(d.nodes, id)
    ELSE NoName

ExportedName(g, d, id) ==
    IF id < NumNodes(g) THEN NameOf(g.nodes, id)
    ELSE IF id - NumNodes(g) < Len(d.nodes) THEN NameOf(d.nodes, id - NumNodes(g))
    ELSE NoName

Export(g, d) ==
    LET nodes == g.nodes \o d.nodes
        edges == AllEdges(g) \o d.edges
    IN  [nodes |-> [i \in DOMAIN nodes |-> nodes[i].ent],
         edges |-> [k \in DOMAIN edges |-> [from |-> ExportedName(g, d, edges[k].from),
                                            to   |-> ExportedName(g, d, edges[k].to),
                                            type |-> edges[k].origin.type]]]

NoGraph == Build(<<>>, <<>>)
NotReading == [active |-> FALSE, graph |-> NoGraph, quiet |-> FALSE]

\* The first half of every reader: the guard of the graph.
ReadGraph ==
    /\ ~ read.active
    /\ read' = [active |-> TRUE, graph |-> graph, quiet |-> ~ merging]
    /\ UNCHANGED <<storeVars, indexVars, mergeVars, file, import>>

\* The second half: the guard of the delta, and the answer.
ReadDelta ==
    /\ read.active
    /\ read' = NotReading
    /\ UNCHANGED <<storeVars, indexVars, mergeVars, file, import>>

ExportEnds ==
    /\ read.active /\ BeforeExport
    /\ read' = NotReading
    /\ file' = Export(read.graph, delta)
    /\ UNCHANGED <<storeVars, indexVars, mergeVars, import>>

-----------------------------------------------------------------------------
(***************************************************************************)
(* Import (apply_import): the names of the main graph first, then each     *)
(* node and each edge of the file with a lock of its own.                  *)
(***************************************************************************)
NotImporting == [phase |-> "idle", payload |-> NoFile, next |-> 1, ids |-> <<>>, runs |-> 0]

\* name_to_id as pairs, the last of a name counts.
NameToId(pairs, name) ==
    LET hits == {i \in DOMAIN pairs : pairs[i][1] = name}
    IN  IF hits = {} THEN {} ELSE {pairs[Last(hits)][2]}

ImportStarts ==
    /\ import.phase = "idle" /\ import.runs < MaxImports
    /\ file # NoFile
    /\ import' = [import EXCEPT !.phase = "nodes",
                                !.payload = file,
                                !.runs = @ + 1,
                                !.ids = [i \in DOMAIN graph.nodes |->
                                            <<graph.nodes[i].ent, graph.nodes[i].id>>]]
    /\ UNCHANGED <<storeVars, indexVars, mergeVars, read, file>>

NodesLeft == import.phase = "nodes" /\ import.next <= Len(import.payload.nodes)
NextName == import.payload.nodes[import.next]

\* A name that is in the map already is passed over.
ImportSkips ==
    /\ NodesLeft /\ NameToId(import.ids, NextName) # {}
    /\ import' = [import EXCEPT !.next = @ + 1]
    /\ UNCHANGED <<storeVars, indexVars, mergeVars, read, file>>

ImportAllocates ==
    /\ NodesLeft /\ NameToId(import.ids, NextName) = {}
    /\ \A n \in pending : n.origin # "none"
    /\ Allocate(NextName, "none")
    /\ UNCHANGED <<indexVars, mergeVars, read, file, import>>

\* Mutant: the new node's name is not remembered.
ImportNodeForgets ==
    /\ \E n \in pending :
          /\ n.origin = "none" /\ Push(n)
          /\ import' = [import EXCEPT !.next = @ + 1]
    /\ UNCHANGED <<indexVars, mergeVars, read, file>>

ImportNode ==
    /\ \E n \in pending :
          /\ n.origin = "none" /\ Push(n)
          /\ import' = [import EXCEPT !.next = @ + 1, !.ids = Append(@, <<n.ent, n.id>>)]
    /\ UNCHANGED <<indexVars, mergeVars, read, file>>

ImportNodesDone ==
    /\ import.phase = "nodes" /\ import.next > Len(import.payload.nodes)
    /\ import' = [import EXCEPT !.phase = "edges", !.next = 1]
    /\ UNCHANGED <<storeVars, indexVars, mergeVars, read, file>>

\* An edge with an end that is no name of the file or of the main graph is skipped.
ImportEdge ==
    /\ import.phase = "edges" /\ import.next <= Len(import.payload.edges)
    /\ LET e    == import.payload.edges[import.next]
           from == NameToId(import.ids, e.from)
           to   == NameToId(import.ids, e.to)
       IN  IF from = {} \/ to = {}
           THEN /\ import' = [import EXCEPT !.next = @ + 1]
                /\ UNCHANGED storeVars
           ELSE /\ \E x \in from, y \in to :
                      AddEdge([from |-> x, to |-> y, src |-> e.from, dst |-> e.to,
                               origin |-> [type |-> e.type, weight |-> WeightOf[e.type],
                                           dim |-> "none"]])
                /\ import' = [import EXCEPT !.next = @ + 1]
                /\ UNCHANGED <<nextNodeId, pending, issued>>
    /\ UNCHANGED <<indexVars, mergeVars, read, file>>

ImportEnds ==
    /\ import.phase = "edges" /\ import.next > Len(import.payload.edges)
    /\ import' = [import EXCEPT !.phase = "idle", !.next = 1, !.ids = <<>>]
    /\ UNCHANGED <<storeVars, indexVars, mergeVars, read, file>>

-----------------------------------------------------------------------------
NoVectors == [nodes |-> <<>>, edges |-> <<>>, short |-> {}]

\* The operator takes the file to an instance that was just set up.
FreshInstance ==
    /\ file # NoFile /\ import.phase = "idle" /\ ~ merging /\ ~ read.active
    /\ graph' = NoGraph
    /\ vectors' = NoVectors
    /\ delta' = Empty /\ TruncateWal
    /\ InitNodeIds(0) /\ pending' = {} /\ issued' = <<>>
    /\ merges' = 0 /\ failed' = FALSE
    /\ import' = NotImporting
    /\ UNCHANGED <<merging, drained, read, file>>

Init ==
    /\ \E s \in Snapshots :
          /\ graph = Build(s.nodes, s.edges)
          /\ vectors = [NoVectors EXCEPT !.nodes = [i \in DOMAIN s.nodes |-> s.nodes[i].origin]]
          /\ issued = [i \in DOMAIN s.nodes |-> s.nodes[i].ent]
          /\ nextNodeId = Len(s.nodes) /\ pending = {}
    /\ delta = Empty /\ wal = Empty /\ walTorn = FALSE
    /\ merging = FALSE /\ drained = Empty /\ merges = 0 /\ failed = FALSE
    /\ read = NotReading /\ file = NoFile /\ import = NotImporting

Next ==
    \/ IngestAllocates \/ IngestNode \/ IngestEdge
    \/ Drain \/ MergeSwaps \/ MergeDies
    \/ ReadGraph \/ ReadDelta \/ ExportEnds
    \/ ImportStarts \/ ImportSkips \/ ImportAllocates \/ ImportNode \/ ImportNodesDone
    \/ ImportEdge \/ ImportEnds
    \/ FreshInstance

Spec == Init /\ [][Next]_vars

-----------------------------------------------------------------------------
(***************************************************************************)
(* Properties.                                                             *)
(***************************************************************************)
\* Every variable has its type, and a node's ID is its index in the main graph.
TypeOK ==
    /\ delta \in GraphType /\ wal \in GraphType /\ drained \in GraphType
    /\ [nodes |-> graph.nodes, edges |-> AllEdges(graph)] \in GraphType
    /\ \A i \in DOMAIN graph.nodes : graph.nodes[i].id = i - 1
    /\ vectors \in [nodes : Seq(Dims), edges : Seq(Dims), short : SUBSET {"nodes", "edges"}]
    /\ pending \subseteq NodeType /\ Cardinality(pending) <= MaxPending
    /\ DOMAIN issued \cup {n.id + 1 : n \in pending} = 1..nextNodeId
    /\ \A k \in DOMAIN issued : issued[k] \in Names
    /\ import.phase \in {"idle", "nodes", "edges"}

Ids == {n.id : n \in Items(graph.nodes)}
EntsOf(nodes) == [i \in DOMAIN nodes |-> nodes[i].ent]
Distinct(s) == Cardinality(Items(s)) = Len(s)
Times(s, x) == Cardinality({i \in DOMAIN s : s[i] = x})
SameBag(s, t) == Len(s) = Len(t) /\ \A x \in Items(s) : Times(s, x) = Times(t, x)

\* What callers said of an edge, whatever IDs it has now.
Said(es) == [k \in DOMAIN es |-> [src |-> es[k].src, dst |-> es[k].dst, type |-> es[k].origin.type]]
Optional(S) == {{}} \cup {{x} : x \in S}

\* No search finds more than this.
NoLimit == Len(graph.nodes) + Len(delta.nodes) + 2 * (Len(graph.edges) + Len(delta.edges))

\* A search lists a node at most once, also when a merge moves the node from the
\* delta to the graph between the two halves of the search (search_nodes).
NoNodeTwice ==
    read.active =>
        \A name \in Names :
            Times(EntsOf(SearchByName(Names, NoLimit, read.graph, delta)), name)
                <= Times(issued, name)

\* The reader saw a graph and a delta that belong together.
Quiet == read.active /\ read.quiet /\ ~ failed

Near(said, x, dir, type) ==
    {e.dst : e \in {e \in Items(said) : dir # "in" /\ e.src = x /\ Admits(type, e.type)}}
        \cup {e.src : e \in {e \in Items(said) : dir # "out" /\ e.dst = x /\ Admits(type, e.type)}}

Directions == {"out", "in", "both"}
RelatedFound(root, dir, type) ==
    Items(EntsOf(SearchRelated(root, dir, type, Names, NoLimit, read.graph, delta)))
SaidOfAll == Said(AllEdges(graph)) \o Said(delta.edges)

\* What search_nodes makes of the delta's edges is exact when each of them leads
\* to a buffered node, and no two of them join the same nodes in both directions.
LeadsToBuffered(x) ==
    \A e \in Items(delta.edges) :
        /\ e.src = x => e.dst \in Items(EntsOf(delta.nodes))
        /\ e.dst = x => e.src \in Items(EntsOf(delta.nodes))
OneWayEach ==
    \A e, f \in Items(delta.edges) : ~ (e.src = f.dst /\ e.dst = f.src)

\* Without a merge under way, search_nodes by relation lists the nodes that callers
\* linked to a node of the main graph in the direction and with the type asked for,
\* by edges of the graph or of the delta, outside the two cases that
\* RelatedSearchFindsAll and RelatedSearchFindsOnly show.
RelatedSearchExact ==
    (Quiet /\ Distinct(EntsOf(graph.nodes \o delta.nodes)) /\ OneWayEach) =>
        \A root \in Ids :
            LeadsToBuffered(NameOf(graph.nodes, root)) =>
                \A dir \in Directions, type \in Optional(EdgeTypes) :
                    RelatedFound(root, dir, type) = Near(SaidOfAll, NameOf(graph.nodes, root), dir, type)

\* The neighbours that an edge of the delta joins to a node of the main graph are
\* listed too, those of the main graph "were already collected above" (the comment
\* at admin.rs:194).
RelatedSearchFindsAll ==
    (Quiet /\ Distinct(EntsOf(graph.nodes \o delta.nodes))) =>
        \A root \in Ids, dir \in Directions, type \in Optional(EdgeTypes) :
            Near(SaidOfAll, NameOf(graph.nodes, root), dir, type) \subseteq RelatedFound(root, dir, type)

\* A node is listed for an edge in the direction and of the type that were asked
\* for (docs/API_REFERENCE.md:575: the parameters direction and edge_type).
RelatedSearchFindsOnly ==
    (Quiet /\ Distinct(EntsOf(graph.nodes \o delta.nodes))) =>
        \A root \in Ids, dir \in Directions, type \in Optional(EdgeTypes) :
            RelatedFound(root, dir, type) \subseteq Near(SaidOfAll, NameOf(graph.nodes, root), dir, type)

\* Without a merge under way, search_edges answers with the edges its callers
\* described: the ends they named, the type and each edge once, as long as no two
\* edges join the same ends in the same direction.
EdgeSearchExact ==
    LET all == AllEdges(graph) \o delta.edges
    IN  (Quiet /\ Distinct(EntsOf(graph.nodes \o delta.nodes))
               /\ Distinct([k \in DOMAIN all |-> <<all[k].src, all[k].dst>>])) =>
            \A from, to \in Optional(Ids), type \in Optional(EdgeTypes) :
                LET found == SearchEdges(from, to, type, NoLimit, read.graph, graph, delta)
                    Ends(end) == {NameOf(graph.nodes, id) : id \in end}
                IN  EdgeSearchAnswers(from, to, read.graph) =>
                        SameBag([k \in DOMAIN found |->
                                    [src |-> found[k].fromName, dst |-> found[k].toName,
                                     type |-> found[k].type]],
                                Selected(Said(all), LAMBDA e :
                                    /\ Admits(Ends(from), e.src) /\ Admits(Ends(to), e.dst)
                                    /\ Admits(type, e.type)))

\* GET /nodes/:id answers for every ID whose node was pushed with that node, before
\* and after its merge; while a merge holds the node it answers with none, and never
\* with another one.  Until something is imported.
IdsKeepTheirNodes ==
    import.runs = 0 =>
        \A k \in DOMAIN issued :
            LET found == {n.ent : n \in Get(k - 1, graph, delta)}
            IN  \/ found = {issued[k]}
                \/ found = {} /\ \E n \in Items(drained.nodes) : n.id = k - 1

\* What the reader's export says of an edge.
ExportedEdge(k) ==
    LET e == Export(read.graph, delta).edges[k]
    IN  [src |-> e.from, dst |-> e.to, type |-> e.type]

\* An export has the nodes that its reader met and the edges of the main graph with
\* the ends their callers named, whatever merges cross it, and without a merge that
\* of the delta as well (collect_export_data resolves IDs by position).
ExportExact ==
    read.active =>
        LET main == AllEdges(read.graph)
            said == Said(main \o delta.edges)
        IN  /\ Export(read.graph, delta).nodes = EntsOf(read.graph.nodes \o delta.nodes)
            /\ \A k \in DOMAIN main : ExportedEdge(k) = said[k]
            /\ Quiet => /\ read.graph = graph
                        /\ \A k \in DOMAIN said : ExportedEdge(k) = said[k]

\* The edges of the delta have the ends their callers named in every export, as
\* "IDs start after CSR node count" (the comment at export.rs:92).
DeltaEdgesExported ==
    read.active =>
        LET said == Said(AllEdges(read.graph) \o delta.edges)
        IN  \A k \in DOMAIN said : ExportedEdge(k) = said[k]

\* A file with one node of each name, imported once into a fresh instance, gives
\* back the graph it was taken from ("self-contained and can be re-imported into
\* a fresh instance", dto/export.rs), with merges meanwhile or without.  (What is
\* still in the delta is no name to a second import, which creates it again.)
RestoreExact ==
    LET f == import.payload
        nodes == graph.nodes \o delta.nodes
    IN  (/\ import.runs = 1 /\ import.phase = "idle" /\ ~ merging /\ ~ failed
         /\ \A n \in Items(nodes) : n.origin = "none"
         /\ Distinct(f.nodes)
         /\ \A e \in Items(f.edges) : {e.from, e.to} \subseteq Items(f.nodes)) =>
            /\ SameBag(EntsOf(nodes), f.nodes)
            /\ SameBag(Said(AllEdges(graph) \o delta.edges),
                       [k \in DOMAIN f.edges |-> [src  |-> f.edges[k].from,
                                                  dst  |-> f.edges[k].to,
                                                  type |-> f.edges[k].type]])

\* Both indices of the graph, its weights and edges_between tell what callers
\* said, after any number of merges that unpacked and packed it again.
CsrMirrors ==
    LET said == Said(AllEdges(graph))
        Name(id) == NameOf(graph.nodes, id)
    IN  Distinct(EntsOf(graph.nodes)) =>
            /\ \A id \in Ids :
                  /\ SameBag([k \in DOMAIN RevNeighbors(graph, id) |-> Name(RevNeighbors(graph, id)[k])],
                             LET es == Selected(said, LAMBDA e : e.dst = Name(id))
                             IN  [k \in DOMAIN es |-> es[k].src])
                  /\ \A e \in Items(Neighbors(graph, id)) : e.src = Name(id) /\ e.dst = Name(e.to)
            /\ \A p \in EdgesBetween(graph, Ids), e \in Items(AllEdges(graph)) :
                  e.from = p[1] /\ e.to = p[2].to => e.origin.weight <= p[2].origin.weight
            /\ said # <<>> => \E id \in Ids : graph.weights[id + 1][1] = graph.weights[id + 1][2]

\* The nodes within k hops of a seed.
Ball(seeds, k, dir) ==
    LET said == Said(AllEdges(graph))
        ball[i \in 0..k] ==
            IF i = 0 THEN seeds
            ELSE ball[i - 1] \cup UNION {Near(said, x, dir, {}) : x \in ball[i - 1]}
    IN  ball[k]

\* One node or two to walk from.
SeedChoices == {<<i>> : i \in Ids} \cup {<<i, j>> : i, j \in Ids}

\* bfs_expand finds each node once and with its distance from the nearest seed,
\* and all of them up to the depth unless it has found as many as the limit says.
BfsExact ==
    (delta = Empty /\ ~ read.active /\ import.phase = "idle" /\ Distinct(EntsOf(graph.nodes))) =>
        \A seeds \in SeedChoices, depth \in 1..2, limit \in {1, 2, NoLimit},
           bidirectional \in BOOLEAN :
            LET found == BfsExpand(graph, seeds, depth, limit, bidirectional)
                dir   == IF bidirectional THEN "both" ELSE "out"
                from  == {NameOf(graph.nodes, s) : s \in Items(seeds)}
                Name(k) == NameOf(graph.nodes, found[k].id)
            IN  /\ Distinct([k \in DOMAIN found |-> found[k].id])
                /\ \A k \in DOMAIN found :
                      /\ Name(k) \in Ball(from, found[k].hop, dir)
                      /\ found[k].hop > 0 => Name(k) \notin Ball(from, found[k].hop - 1, dir)
                /\ \/ {Name(k) : k \in DOMAIN found} = Ball(from, depth, dir)
                   \/ Len(found) >= limit

\* A walk collects no more nodes than it is allowed ("max nodes to collect during
\* BFS", query.rs:46).
BfsWithinLimit ==
    \A seeds \in SeedChoices, depth \in 1..2, limit \in {1, 2, NoLimit},
       bidirectional \in BOOLEAN :
        Len(BfsExpand(graph, seeds, depth, limit, bidirectional)) <= limit

\* A merge flushes what was imported into the main graph: no ID that was handed
\* out belongs to a node that is in neither the graph, the delta nor a merge.
MergeFlushesImports ==
    nextNodeId = Len(graph.nodes) + Len(delta.nodes) + Len(drained.nodes) + Cardinality(pending)

\* Every node's weight is a number between 0 and 1 (NodeInfo.weight).
WeightsInRange ==
    \A i \in DOMAIN graph.weights :
        graph.weights[i][2] > 0 /\ graph.weights[i][1] <= graph.weights[i][2]

=============================================================================
