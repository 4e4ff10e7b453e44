------------------------------- MODULE DeltaStore -------------------------------
(***************************************************************************)
(* The delta store of core/src/delta.rs: the in-memory buffer of nodes and *)
(* edges that are not yet in the main graph, its write-ahead log           *)
(* (delta.wal), and the node-ID counter.  This module gives the store's    *)
(* state and one action per method; Engine composes them with the ingest   *)
(* handlers, run_merge and boot, which decide when each method runs.       *)
(*                                                                         *)
(* A node is [id, ent, origin] and an edge is                              *)
(* [from, to, src, dst, origin]: `ent` stands for the node's name, text    *)
(* and embedding, `src` and `dst` are the entities the caller named as the *)
(* edge's ends (what its full_context says), `origin` says which request   *)
(* wrote the entry.  IDs are 0-based as in the code, so the node with ID   *)
(* k of a graph is element k + 1 of its sequence.                          *)
(***************************************************************************)
EXTENDS Naturals, Sequences

VARIABLES
    delta,        \* inner: the buffered nodes and edges
    wal,          \* delta.wal, its readable add_node and add_edge lines
    walTorn,      \* delta.wal ends in the middle of a line
    nextNodeId    \* next_node_id, far below the limit of its instance range

Empty == [nodes |-> <<>>, edges |-> <<>>]

DeltaSize == Len(delta.nodes) + Len(delta.edges)

Last(S) == CHOOSE i \in S : \A j \in S : j <= i

(***************************************************************************)
(* Allocation, the write path and replay.  add_nodes_batch and             *)
(* add_edges_batch append to the WAL, release its mutex, and only then     *)
(* take the lock of the buffer: each is two actions.                       *)
(***************************************************************************)
AllocNodeId == nextNodeId' = nextNodeId + 1

InitNodeIds(start) == nextNodeId' = start

\* A batch is written behind whatever the file ends with.  Behind a torn line
\* its first line completes that line, and replay_wal skips the two as one.
Readable(batch) == IF walTorn /\ batch # <<>> THEN Tail(batch) ELSE batch

\* `cut`: the process died within the line that follows the batch's.
AppendNodes(ns, cut) ==
    /\ wal' = [wal EXCEPT !.nodes = @ \o Readable(ns)]
    /\ walTorn' = (cut \/ (walTorn /\ ns = <<>>))
AppendEdges(es, cut) ==
    /\ wal' = [wal EXCEPT !.edges = @ \o Readable(es)]
    /\ walTorn' = (cut \/ (walTorn /\ es = <<>>))

PushNodes(ns) == delta' = [delta EXCEPT !.nodes = @ \o ns]
PushEdges(es) == delta' = [delta EXCEPT !.edges = @ \o es]

\* A fresh buffer, then every readable line of the log in order, as it is and
\* whatever the main graph already holds.
ReplayWal == delta' = wal

DrainDelta == delta' = Empty

TruncateWal == wal' = Empty /\ walTorn' = FALSE

(***************************************************************************)
(* The pure part of merge_into.  The i-th drained node gets the CSR index  *)
(* that follows the base graph's; an edge end is remapped when it is the   *)
(* ID of a drained node (the last one with that ID) and kept otherwise.    *)
(***************************************************************************)
\* Mutant: the new nodes are taken to follow the last but one of the base graph.
RemapIdTooLow(baseCount, ns, id) ==
    LET hits == {i \in DOMAIN ns : ns[i].id = id}
    IN  IF hits = {} THEN id ELSE (baseCount + Last(hits)) - 2

RemapId(baseCount, ns, id) ==
    LET hits == {i \in DOMAIN ns : ns[i].id = id}
    IN  IF hits = {} THEN id ELSE (baseCount + Last(hits)) - 1

\* Mutant: the new nodes come before the old ones.
MergedNodesFirst(baseNodes, ns) ==
    [i \in DOMAIN ns |-> [id |-> i - 1, ent |-> ns[i].ent, origin |-> ns[i].origin]]
        \o baseNodes

MergedNodes(baseNodes, ns) ==
    baseNodes \o
        [i \in DOMAIN ns |-> [id     |-> (Len(baseNodes) + i) - 1,
                              ent    |-> ns[i].ent,
                              origin |-> ns[i].origin]]

RemappedEdges(baseCount, d) ==
    [j \in DOMAIN d.edges |->
        [from   |-> RemapId(baseCount, d.nodes, d.edges[j].from),
         to     |-> RemapId(baseCount, d.nodes, d.edges[j].to),
         src    |-> d.edges[j].src,
         dst    |-> d.edges[j].dst,
         origin |-> d.edges[j].origin]]

EndsInRange(es, n) == \A j \in DOMAIN es : es[j].from < n /\ es[j].to < n

=============================================================================
