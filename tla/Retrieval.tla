-------------------------------- MODULE Retrieval --------------------------------
(***************************************************************************)
(* What a query hands to the plugin and to its client: the retrieval of    *)
(* core/src/query.rs (seeds, walk, score, rank, cut) and the context that  *)
(* a multi-hop query gathers from one call of the plugin to the next,      *)
(* while merges replace the graph between them.                            *)
(*                                                                         *)
(* QueryPath has the calls, their failures and the cache, HotSwap the      *)
(* locks: here a graph is read at once, a call that fails is a query that  *)
(* is not asked, and a merge swaps a graph in that extends the old one     *)
(* (GraphNodesStable of Engine).  The indices are approximate: a search    *)
(* finds any few nodes and edges.  f32 is integers: similarities,          *)
(* proximities and weights in Scale-ths, the mode's weights in tenths.     *)
(***************************************************************************)
EXTENDS Integers, CsrGraph

CONSTANTS
    Entities, Types, Weights,  \* entities, types of edges, what an edge may weigh
    Graphs,      \* the graphs the instance may serve at first: [nodes, edges]
    Growths,     \* what a merge may add
    Sims,        \* similarities of the entities to the query: functions
    Modes,       \* [alpha, beta, gamma, bidirectional], as resolve_weights gives them
    Scale,
    HnswK,       \* hnsw_k
    Depth,       \* bfs_depth
    MaxFound,    \* bfs_max_nodes
    TopN,        \* context_top_n
    MinScore,    \* context_min_score of a text query; a node query has none
    MaxHops,     \* max_hops
    MaxNames,    \* follow-ups the plugin names at most
    MaxMerges    \* bound: merges during a query

NodeType == [id : Nat, ent : Entities, origin : {"full"}]
EdgeType == [from : Nat, to : Nat, src : Entities, dst : Entities,
             origin : [type : Types, weight : Weights, dim : {"full"}]]

\* Edges are between nodes, those of a merge also between its own and any earlier
\* ones; there is some edge (CsrGraph has no weights without).
ASSUME GraphsAssumption ==
    /\ Weights \subseteq Nat
    /\ \A g \in Graphs \cup Growths : g.nodes \in Seq(NodeType) /\ g.edges \in Seq(EdgeType)
    /\ \A g \in Graphs :
          /\ g.edges # <<>>
          /\ \A k \in DOMAIN g.edges : {g.edges[k].from, g.edges[k].to} \subseteq 0..Len(g.nodes) - 1
          /\ \A m \in Growths : \A k \in DOMAIN m.edges :
                {m.edges[k].from, m.edges[k].to} \subseteq 0..Len(g.nodes) + Len(m.nodes) - 1

\* A node the plugin asks for reaches the least score by its similarity and
\* proximity: so with the defaults and any mode; options of a client need not be so.
ASSUME RetrievalAssumption ==
    /\ \A m \in Modes : /\ {m.alpha, m.beta, m.gamma} \subseteq Nat /\ m.bidirectional \in BOOLEAN
                        /\ MinScore <= (m.alpha + m.beta) * Scale
    /\ Sims \subseteq [Entities -> Int]
    /\ {Scale, TopN} \subseteq Nat \ {0}
    /\ {HnswK, Depth, MaxFound, MinScore, MaxHops, MaxNames, MaxMerges} \subseteq Nat

VARIABLES
    graph,     \* AppState.graph, as CsrGraph!Build makes it
    sim,       \* the similarity of each entity to the query
    merges,
    query      \* the query: its kind, mode and phase; the seeds of its next walk;
               \* nodes and edges gathered; hops; where its answer comes from.
               \* history: all a walk offered, and the merges at the last one

vars == <<graph, sim, merges, query>>

IdsOf(nodes) == {nodes[k].id : k \in DOMAIN nodes}

-----------------------------------------------------------------------------
(***************************************************************************)
(* One retrieval (retrieve_context; run_pipeline up to its call).          *)
(***************************************************************************)
\* Mutant: the hits of the search are not handed to score_nodes.
SimilarityOfStored(q, g, id) == IF q.kind = "node" THEN 0 ELSE sim[g.nodes[id + 1].ent]

\* The node a client or the plugin asked for has the similarity of a hit at
\* distance 0.  A text query's hits have the one their vectors have as well.
Similarity(q, g, id) ==
    IF (q.kind = "node" \/ q.hops > 0) /\ id \in Items(q.seeds) THEN Scale
    ELSE IF q.kind = "node" THEN 0
    ELSE sim[g.nodes[id + 1].ent]

Score(q, g, found) ==
    LET similar   == Similarity(q, g, found.id)
        proximity == IF found.hop = 0 THEN Greatest({similar, 0})
                     ELSE (Scale * found.weight) \div (found.hop + 1)
        weight    == g.weights[found.id + 1]
    IN  q.mode.alpha * similar + q.mode.beta * proximity
            + q.mode.gamma * ((Scale * weight[1]) \div weight[2])

\* score_nodes: a walk's node that the graph does not have is left out.
Scored(q, g) ==
    LET found == Selected(BfsExpand(g, q.seeds, Depth, MaxFound, q.mode.bidirectional),
                          LAMBDA f : f.id < NumNodes(g))
    IN  [k \in DOMAIN found |-> [id |-> found[k].id, weight |-> Score(q, g, found[k])]]

\* A stable sort, the greatest weight first.
Ranked(nodes) ==
    LET Before(i, j) == \/ nodes[i].weight > nodes[j].weight
                        \/ nodes[i].weight = nodes[j].weight /\ i < j
        Place(j) == Cardinality({i \in DOMAIN nodes : Before(i, j)}) + 1
    IN  [k \in DOMAIN nodes |-> nodes[CHOOSE j \in DOMAIN nodes : Place(j) = k]]

Cut(nodes) == SubSeq(nodes, 1, IF Len(nodes) < TopN THEN Len(nodes) ELSE TopN)

\* History: what a walk found, and what of it was new to the context and within
\* the limit of one walk.
Offers(q, nodes) ==
    {[id |-> n.id, weight |-> n.weight,
      brought |-> n \in Items(Cut(nodes)) /\ n.id \notin IdsOf(q.nodes)] : n \in Items(nodes)}

\* What scored well enough, the best first.
Offered(q, g) ==
    LET least == IF q.kind = "node" THEN 0 ELSE MinScore
    IN  Selected(Ranked(Scored(q, g)), LAMBDA n : least > 0 => n.weight >= least)

EdgesAmong(g, ids) ==
    {[from |-> p[1], to |-> p[2].to, weight |-> p[2].origin.weight, type |-> p[2].origin.type] :
        p \in EdgesBetween(g, ids)}

-----------------------------------------------------------------------------
(***************************************************************************)
(* The context from hop to hop (query_multihop).                           *)
(***************************************************************************)
\* Mutant: the limit is applied before the sort.
GatherUnranked(nodes, more) ==
    Ranked(Cut(nodes \o Selected(more, LAMBDA n : n.id \notin IdsOf(nodes))))

\* merge_context, the sort and the limit: a node keeps the weight it came with.
Gather(nodes, more) ==
    Cut(Ranked(nodes \o Selected(more, LAMBDA n : n.id \notin IdsOf(nodes))))

\* Mutant: the edges are told apart by more than their ends.
JoinAll(edges, more) == edges \cup more

\* merge_edges: a pair keeps the edge it came with.
Join(edges, more) ==
    edges \cup {e \in more : ~ \E f \in edges : f.from = e.from /\ f.to = e.to}

\* build_edges, for the plugin, and the response: of the edges gathered those
\* whose ends are both in the context, which the limit may have cut.
Relations(q) == {e \in q.edges : {e.from, e.to} \subseteq IdsOf(q.nodes)}

-----------------------------------------------------------------------------
Asked(kind, mode, seeds) ==
    [kind |-> kind, mode |-> mode, phase |-> "retrieve", seeds |-> seeds,
     nodes |-> <<>>, edges |-> {}, hops |-> 0, answer |-> "none",
     offered |-> {}, readAt |-> 0]

\* Any order of a few nodes, as a HashSet has them.
FewNodes(n) == UNION {Seqs!SetToSeqs(S) : S \in {S \in SUBSET (0..NumNodes(graph) - 1) :
                                                    Cardinality(S) <= n}}

\* merge_seeds: the nodes found, then the new ends of the edges found.
MergeSeeds(hits, edgeHits) ==
    LET Insert(seeds, id) == IF id \in Items(seeds) THEN seeds ELSE Append(seeds, id)
    IN  Folded(LAMBDA seeds, e : Insert(Insert(seeds, e.from), e.to), hits, edgeHits)

Idle(mode) == [Asked("text", mode, <<>>) EXCEPT !.phase = "idle"]

\* search_hnsw for the embedding of a text, or for a vector.
Search(kind) ==
    /\ query.phase = "idle"
    /\ \E hits \in FewNodes(HnswK), edgeHits \in
              {<<>>} \cup {<<e>> : e \in Items(AllEdges(graph))} :
          query' = Asked(kind, query.mode, MergeSeeds(hits, edgeHits))
    /\ UNCHANGED <<graph, sim, merges>>

AskNode ==
    /\ query.phase = "idle"
    /\ \E id \in 0..NumNodes(graph) - 1 : query' = Asked("node", query.mode, <<id>>)
    /\ UNCHANGED <<graph, sim, merges>>

\* The first walk.  A node query has no answer, a text query may have one.
Retrieve ==
    /\ query.phase = "retrieve" /\ query.hops = 0
    /\ LET offered == Offered(query, graph)
           nodes   == Cut(offered)
       IN  query' = [query EXCEPT !.nodes = nodes,
                                  !.edges = EdgesAmong(graph, IdsOf(nodes)),
                                  !.offered = Offers(query, offered),
                                  !.readAt = merges,
                                  !.phase = CASE query.kind = "multihop" -> "reason"
                                              [] query.kind = "text"     -> "generate"
                                              [] OTHER                   -> "done"]
    /\ UNCHANGED <<graph, sim, merges>>

\* The walk from the nodes that the plugin asked for.
RetrieveMore ==
    /\ query.phase = "retrieve" /\ query.hops > 0
    /\ LET offered == Offered(query, graph)
           more    == Cut(offered)
       IN  query' = [query EXCEPT !.nodes = Gather(@, more),
                                  !.edges = Join(@, EdgesAmong(graph, IdsOf(more))),
                                  !.offered = @ \cup Offers(query, offered),
                                  !.readAt = merges,
                                  !.phase = "reason"]
    /\ UNCHANGED <<graph, sim, merges>>

\* The plugin has its answer.
Reasoned ==
    /\ query.phase = "reason"
    /\ query' = [query EXCEPT !.phase = "done", !.answer = "final"]
    /\ UNCHANGED <<graph, sim, merges>>

\* It has none, and either names nothing to look at or the limit is reached: what
\* it says is the answer.
Unfinished ==
    /\ query.phase = "reason"
    /\ query' = [query EXCEPT !.phase = "done", !.answer = "missing"]
    /\ UNCHANGED <<graph, sim, merges>>

\* It names entities: each may be found by its name, or not.
FollowUp ==
    /\ query.phase = "reason" /\ query.hops < MaxHops
    /\ \E seeds \in FewNodes(MaxNames) :
          query' = [query EXCEPT !.hops = @ + 1, !.seeds = seeds,
                                 !.phase = IF seeds = <<>> THEN "generate" ELSE "retrieve"]
    /\ UNCHANGED <<graph, sim, merges>>

Generate ==
    /\ query.phase = "generate"
    /\ query' = [query EXCEPT !.phase = "done", !.answer = "generated"]
    /\ UNCHANGED <<graph, sim, merges>>

\* run_merge: the served graph unpacked, extended and packed again.
Swap ==
    /\ merges < MaxMerges /\ query.phase # "done"
    /\ merges' = merges + 1
    /\ \E more \in Growths :
          graph' = Build(graph.nodes \o more.nodes, AllEdges(graph) \o more.edges)
    /\ UNCHANGED <<sim, query>>

\* The response is sent.
Answered == query.phase = "done" /\ UNCHANGED vars

Init ==
    /\ \E g \in Graphs : graph = Build(g.nodes, g.edges)
    /\ sim \in Sims
    /\ merges = 0
    /\ \E mode \in Modes : query = Idle(mode)

Next ==
    \/ Search("text") \/ Search("multihop") \/ AskNode
    \/ Retrieve \/ RetrieveMore
    \/ Reasoned \/ Unfinished \/ FollowUp \/ Generate
    \/ Swap
    \/ Answered

Spec == Init /\ [][Next]_vars

-----------------------------------------------------------------------------
(***************************************************************************)
(* Properties.                                                             *)
(***************************************************************************)
Shown == query.phase \in {"reason", "generate", "done"}

Kept(o) ==
    \/ o.id \in IdsOf(query.nodes)
    \/ /\ Len(query.nodes) = TopN
       /\ \A k \in DOMAIN query.nodes : query.nodes[k].weight >= o.weight

\* The shape of the state; beside it, a context never has a node twice or more
\* nodes than context_top_n, and no two edges of one pair, however many walks it
\* was gathered in (query.rs:353-355, 582-602).
TypeOK ==
    /\ merges \in 0..MaxMerges /\ query.hops \in 0..MaxHops
    /\ \A k \in DOMAIN query.nodes : query.nodes[k].id \in 0..NumNodes(graph) - 1
    /\ Cardinality(IdsOf(query.nodes)) = Len(query.nodes)
    /\ Len(query.nodes) <= TopN
    /\ \A e, f \in query.edges : e.from = f.from /\ e.to = f.to => e = f

\* The context is the best of what the walks brought: such a node is missing only
\* if the context is full and has nothing that weighs less.
BestKept ==
    Shown => \A o \in query.offered : o.brought => Kept(o)

\* The same of all they found, also of nodes that were in the context already
\* ("Top-N nodes passed to the LLM as context", API_REFERENCE.md:236).
BestKnownKept == Shown => \A o \in query.offered : Kept(o)

\* What was asked for is seen: the plugin is called again with each node it named
\* unless the context is full, and a node query keeps its node "top-ranked"
\* (query.rs:254), as long as edges weigh 1 at most.
AskedForIsSeen ==
    /\ query.phase = "reason" /\ query.hops > 0 =>
          \/ Items(query.seeds) \subseteq IdsOf(query.nodes)
          \/ Len(query.nodes) = TopN
    /\ query.phase = "done" /\ query.kind = "node" =>
          query.nodes # <<>> /\ query.nodes[1].id = query.seeds[1]

\* The relations handed over with the nodes are edges of the graph, also after a
\* merge, and after the first walk they are all there are between the nodes, each
\* pair with its heaviest.
RelationsTrue ==
    Shown =>
        /\ \A r \in Relations(query) : \E e \in Items(AllEdges(graph)) :
              /\ e.from = r.from /\ e.to = r.to
              /\ e.origin.weight = r.weight /\ e.origin.type = r.type
        /\ query.hops = 0 /\ query.readAt = merges =>
              \A e \in Items(AllEdges(graph)) :
                 {e.from, e.to} \subseteq IdsOf(query.nodes) =>
                     \E r \in Relations(query) : /\ r.from = e.from /\ r.to = e.to
                                                 /\ r.weight >= e.origin.weight

\* The relations of every call are all there are between its nodes ("Edges between
\* context nodes", PLUGIN_INTERFACE.md:413).
RelationsComplete ==
    Shown /\ merges = 0 =>
        \A e \in Items(AllEdges(graph)) : {e.from, e.to} \subseteq IdsOf(query.nodes) =>
            \E r \in Relations(query) : r.from = e.from /\ r.to = e.to

\* A multi-hop answer is one the plugin calls final or one it generates ("final
\* /generate on last iteration", query.rs:298).
AnswerIsFinal ==
    query.phase = "done" /\ query.kind = "multihop" => query.answer \in {"final", "generated"}

=============================================================================
