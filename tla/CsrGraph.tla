-------------------------------- MODULE CsrGraph --------------------------------
(***************************************************************************)
(* The main graph of core/src/graph/csr.rs, as operators: CsrGraph::build  *)
(* packs an edge list by source and, for the way back, by target; the      *)
(* other operators read the packed arrays through their offsets.           *)
(*                                                                         *)
(* Nodes and edges are those of DeltaStore; an edge's `origin` holds its   *)
(* type and weight, [type, weight, dim].  IDs count from 0, sequences from *)
(* 1: offsets[i + 1] is where node i's slice starts.                       *)
(***************************************************************************)
EXTENDS Naturals, Sequences, FiniteSets
Seqs == INSTANCE SequencesExt

Greatest(S) == CHOOSE x \in S : \A y \in S : y <= x
Items(s) == {s[i] : i \in DOMAIN s}

\* A fold and a filter, defined by what the proofs of this module's operators use:
\* a function of the elements folded so far, and the places that are kept.
Folded(Op(_, _), base, s) ==
    LET f[k \in 0..Len(s)] == IF k = 0 THEN base ELSE Op(f[k - 1], s[k])
    IN  f[Len(s)]

\* The elements of s at the given places, in their order.
At(s, places) ==
    [k \in 1..Cardinality(places) |->
        s[CHOOSE i \in places : Cardinality({j \in places : j <= i}) = k]]

Selected(s, Test(_)) == At(s, {i \in DOMAIN s : Test(s[i])})

\* Where the slice of a node starts: behind all edges of lower ends.
SliceStart(ends, id) == Cardinality({k \in DOMAIN ends : ends[k] < id})

Offsets(n, ends) == [i \in 1..(n + 1) |-> SliceStart(ends, i - 1)]

\* A counting sort of the edges by one of their ends; equal ends keep the order
\* of the list, since each end has a cursor that goes through its slice.
Placed(ends, j) == SliceStart(ends, ends[j]) + Cardinality({k \in 1..j : ends[k] = ends[j]})

Packed(es, ends) == [p \in DOMAIN es |-> es[CHOOSE j \in DOMAIN es : Placed(ends, j) = p]]

Sources(es) == [k \in DOMAIN es |-> es[k].from]
Targets(es) == [k \in DOMAIN es |-> es[k].to]

\* Mutant: the reverse index packs the targets.
RevTargets(es) == Targets(Packed(es, Targets(es)))

RevSources(es) == Sources(Packed(es, Targets(es)))

\* A node's weight is the fraction degree / greatest degree, kept as a pair:
\* where no node has an edge it is 0/0, which f32 makes NaN.
Build(nodes, es) ==
    LET n          == Len(nodes)
        forward    == Packed(es, Sources(es))
        Degree(id) == Cardinality({k \in DOMAIN es : es[k].from = id})
                          + Cardinality({k \in DOMAIN es : es[k].to = id})
        most       == IF n = 0 THEN 1 ELSE Greatest({Degree(i - 1) : i \in 1..n})
    IN  [nodes      |-> nodes,
         weights    |-> [i \in 1..n |-> <<Degree(i - 1), most>>],
         offsets    |-> Offsets(n, Sources(es)),
         edges      |-> [k \in DOMAIN es |-> [to     |-> forward[k].to,
                                              src    |-> forward[k].src,
                                              dst    |-> forward[k].dst,
                                              origin |-> forward[k].origin]],
         revOffsets |-> Offsets(n, Targets(es)),
         revEdges   |-> RevSources(es)]

NumNodes(g) == Len(g.nodes)

\* An ID beyond the nodes has no neighbours.
Slice(offsets, packed, id) ==
    IF id + 1 >= Len(offsets) THEN <<>> ELSE SubSeq(packed, offsets[id + 1] + 1, offsets[id + 2])

\* neighbors, neighbor_weights, neighbor_types and the contexts are parallel.
Neighbors(g, id)    == Slice(g.offsets, g.edges, id)
RevNeighbors(g, id) == Slice(g.revOffsets, g.revEdges, id)

AllEdges(g) ==
    Seqs!FlattenSeq([i \in 1..NumNodes(g) |->
        [k \in DOMAIN Neighbors(g, i - 1) |->
            LET e == Neighbors(g, i - 1)[k]
            IN  [from |-> i - 1, to |-> e.to, src |-> e.src, dst |-> e.dst, origin |-> e.origin]]])

\* The edges that lead from one node to another, in the order of the index.
Between(g, from, to) == Selected(Neighbors(g, from), LAMBDA e : e.to = to)

\* Mutant: the first edge of a pair is the one that is kept.
FirstEdge(es) == es[1]

Heaviest(es) ==
    Folded(LAMBDA best, e : IF e.origin.weight > best.origin.weight THEN e ELSE best,
           es[1], es)

\* One edge for each linked pair of ids, the first of the greatest weight.
EdgesBetween(g, ids) ==
    {<<p[1], Heaviest(Between(g, p[1], p[2]))>> :
        p \in {p \in ids \X ids : Between(g, p[1], p[2]) # <<>>}}

-----------------------------------------------------------------------------
(***************************************************************************)
(* bfs_expand.  What it found so far is its result, its queue and its set  *)
(* of visited nodes in one: every node it visits enters all three, and the *)
(* queue is read in the order of the result.                               *)
(***************************************************************************)
\* Mutant: a node is found once by each edge that reaches it.
VisitAgain(maxNodes, acc, found) ==
    IF acc.full THEN acc
    ELSE [seen |-> Append(acc.seen, found), full |-> Len(acc.seen) + 1 >= maxNodes]

\* The limit is looked at after a node was added, never before.
Visit(maxNodes, acc, found) ==
    IF acc.full \/ \E k \in DOMAIN acc.seen : acc.seen[k].id = found.id THEN acc
    ELSE [seen |-> Append(acc.seen, found), full |-> Len(acc.seen) + 1 >= maxNodes]

\* The neighbours of the k-th node found; a reverse edge has no weight of its own.
Expand(g, maxDepth, maxNodes, bidirectional, acc, k) ==
    LET at  == acc.seen[k]
        out == [j \in DOMAIN Neighbors(g, at.id) |->
                    [id |-> Neighbors(g, at.id)[j].to, hop |-> at.hop + 1,
                     weight |-> Neighbors(g, at.id)[j].origin.weight]]
        in  == [j \in DOMAIN RevNeighbors(g, at.id) |->
                    [id |-> RevNeighbors(g, at.id)[j], hop |-> at.hop + 1, weight |-> 1]]
    IN  IF at.hop >= maxDepth THEN acc
        ELSE Folded(LAMBDA a, found : Visit(maxNodes, a, found),
                    acc, IF bidirectional THEN out \o in ELSE out)

\* Every seed is found at once, beyond the limit and beyond the graph as well.
BfsSeeds(seeds) ==
    Folded(LAMBDA seen, s : IF \E k \in DOMAIN seen : seen[k].id = s THEN seen
                            ELSE Append(seen, [id |-> s, hop |-> 0, weight |-> 1]),
           <<>>, seeds)

BfsExpand(g, seeds, maxDepth, maxNodes, bidirectional) ==
    Folded(LAMBDA acc, k : IF acc.full \/ k > Len(acc.seen) THEN acc
                           ELSE Expand(g, maxDepth, maxNodes, bidirectional, acc, k),
           [seen |-> BfsSeeds(seeds), full |-> FALSE],
           [k \in 1..(NumNodes(g) + Len(seeds)) |-> k]).seen

=============================================================================
