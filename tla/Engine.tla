--------------------------------- MODULE Engine ---------------------------------
(***************************************************************************)
(* The engine's write side: ingest handlers, run_merge, the snapshot files *)
(* and boot, interleaved as the tokio runtime may interleave them.         *)
(*                                                                         *)
(* Each writer is one POST /ingest request, each merger is a slot for a    *)
(* run_merge task.  Nothing in the code keeps two merges apart: the number *)
(* of slots bounds how many of them overlap.                               *)
(***************************************************************************)
EXTENDS DeltaStore, FiniteSets

CONSTANTS
    Writers,        \* ingest requests; each arrives at most once
    Mergers,        \* slots for run_merge tasks that overlap
    Entities,       \* equal entities have embeddings above the threshold
    Request,        \* what each writer ingests: [ents, rels, mode]
    Seeder,         \* the origin of the nodes of the first snapshot
    SeedEnts,       \* the entities of the first snapshot
    MergeThreshold, \* delta.merge_threshold
    MaxInFlight,    \* bound: ingest requests being handled at the same time
    MaxForced,      \* bound: calls of POST /delta/merge
    FaultKinds,     \* faults that may happen, a subset of AllFaultKinds
    MaxFaults       \* bound: how many faults happen

AllFaultKinds == {"crash", "wal", "read", "write", "rebuild", "disconnect"}

RequestType ==
    [ents : Seq(Entities), rels : Seq((Nat \ {0}) \X (Nat \ {0})),
     mode : {"none", "embedding"}]

ASSUME RequestAssumption ==
    /\ Request \in [Writers -> RequestType]
    /\ \A w \in Writers : \A j \in DOMAIN Request[w].rels :
          /\ Request[w].rels[j][1] <= Len(Request[w].ents)
          /\ Request[w].rels[j][2] <= Len(Request[w].ents)

ASSUME BoundsAssumption ==
    /\ SeedEnts \in Seq(Entities) /\ SeedEnts # <<>>
    /\ Seeder \notin Writers
    /\ MergeThreshold \in Nat
    /\ MaxInFlight \in Nat
    /\ MaxForced \in Nat
    /\ MaxFaults \in Nat
    /\ FaultKinds \subseteq AllFaultKinds

VARIABLES
    stage,       \* the process: "up", "closing" (draining connections), "down" or "exited"
    graph,       \* AppState.graph: nodes in CSR order, and edges
    hnsw,        \* AppState.hnsw: the entity embedded at each index
    store,       \* AppState.store: num_vecs of the mapped vectors.bin
    edgeHnsw,    \* AppState.edge_hnsw: embeddings and endpoints
    disk,        \* nodes.json, edges.bin & labels, vectors.bin, edge_vectors.bin and
                 \* edge_endpoints.json; linked: the last one exists; cut: truncated
                 \* for a rewrite that is not complete; mixed: by two merges at once
    pc,          \* per writer: where its handler is
    ids,         \* per writer: idx_to_id, the IDs of the entities resolved so far
    toAdd,       \* per writer: to_add, the nodes it creates
    owner,       \* per merger: who awaits it, a "request", "main" or nobody ("task")
    phase,       \* per merger: where its run_merge is
    base,        \* per merger: the graph it started from
    drained,     \* per merger: the delta it drained
    built,       \* per merger: what it merged, as it will be on disk
    reopened,    \* per merger: num_vecs of the store it reopened
    spawns,      \* merge tasks spawned or requested and not yet started
    forced,      \* calls of POST /delta/merge so far
    faults       \* faults so far

walVars   == <<wal, walTorn>>
indexVars == <<graph, hnsw, store, edgeHnsw>>
writeVars == <<pc, ids, toAdd>>
mergeVars == <<owner, phase, base, drained, built, reopened>>
envVars   == <<spawns, forced, faults>>
vars == <<delta, walVars, nextNodeId, stage, indexVars, disk, writeVars,
          mergeVars, envVars>>

\* The files of a snapshot, and for each the phase in which it is written.
Files == {"nodes", "edges", "vecs", "evecs", "eps"}

WritingOf(file) ==
    CASE file = "nodes" -> "writeNodes"
      [] file = "edges" -> "writeEdges"
      [] file = "vecs"  -> "writeVecs"
      [] file = "evecs" -> "writeEvecs"
      [] file = "eps"   -> "writeEps"

WritePhases == {"writeNodes", "writeEdges", "writeVecs", "writeEvecs", "writeEps"}

EmptySnapshot ==
    [nodes |-> <<>>, edges |-> <<>>, vecs |-> <<>>, evecs |-> <<>>, eps |-> <<>>,
     linked |-> FALSE, cut |-> {}, mixed |-> {}]
EmptyEdgeIndex == [evecs |-> <<>>, eps |-> <<>>]

\* A snapshot as ingest.rs of bin/ leaves it: nodes and their vectors, an edge,
\* no edge embeddings.  A graph without any edge has no finite node weights
\* (CsrGraph), and its nodes.json could not be loaded.
FirstSnapshot ==
    [nodes  |-> [i \in DOMAIN SeedEnts |->
                    [id |-> i - 1, ent |-> SeedEnts[i], origin |-> <<Seeder, i>>]],
     edges  |-> <<[from |-> 0, to |-> 0, src |-> SeedEnts[1], dst |-> SeedEnts[1],
                   origin |-> <<Seeder, 1>>]>>,
     vecs   |-> SeedEnts,
     evecs  |-> <<>>,
     eps    |-> <<>>,
     linked |-> FALSE,
     cut    |-> {},
     mixed  |-> {}]

GraphOf(d) == [nodes |-> d.nodes, edges |-> d.edges]

\* edge_vectors.bin does not exist before it has a vector to hold.
EdgeFilesExist(d) == d.linked /\ (d.evecs # <<>> \/ "evecs" \in d.cut)

\* The edge embeddings and their endpoints are read when both files exist.
EdgeFiles(d) ==
    IF EdgeFilesExist(d)
    THEN [evecs |-> d.evecs, eps |-> d.eps]
    ELSE EmptyEdgeIndex

\* load_edge_hnsw: files that disagree give an empty index.
EdgeIndexOf(d) ==
    IF Len(EdgeFiles(d).evecs) = Len(EdgeFiles(d).eps) THEN EdgeFiles(d) ELSE EmptyEdgeIndex

\* VectorStore::open and serde_json refuse a file that holds a part of its
\* content.
VectorsReadable(d) ==
    /\ "vecs" \notin d.cut
    /\ EdgeFilesExist(d) => d.cut \cap {"evecs", "eps"} = {}

Up == stage \in {"up", "closing"}

Fault(kind) ==
    /\ kind \in FaultKinds
    /\ faults < MaxFaults
    /\ faults' = faults + 1

-----------------------------------------------------------------------------
(***************************************************************************)
(* Ingest handlers (ingest_text and ingest_json).                          *)
(***************************************************************************)
InFlight == {w \in Writers : pc[w] \notin {"idle", "done", "failed"}}

\* While a handler resolves, it holds the read locks of graph, hnsw and the
\* delta, so nobody pushes, drains or swaps.
NobodyResolves == \A w \in Writers : pc[w] # "resolve"

GraphMatches(e) == {i - 1 : i \in {i \in DOMAIN hnsw : hnsw[i] = e}}
Matches(ns, e)  == {ns[i].id : i \in {i \in DOMAIN ns : ns[i].ent = e}}

\* resolve(), then resolve_in_batch(): the main graph first, then the delta,
\* then the nodes this request is already going to add.
ResolvesTo(w, e) ==
    IF Request[w].mode = "none"        THEN {}
    ELSE IF GraphMatches(e) # {}       THEN GraphMatches(e)
    ELSE IF Matches(delta.nodes, e) # {} THEN Matches(delta.nodes, e)
    ELSE Matches(toAdd[w], e)

NextEnt(w) == Request[w].ents[Len(ids[w]) + 1]
Resolving(w) == pc[w] = "resolve" /\ Len(ids[w]) < Len(Request[w].ents)

MatchIsNoNode(w) ==
    /\ Request[w].mode # "none"
    /\ \E id \in GraphMatches(NextEnt(w)) : id >= Len(graph.nodes)

EdgesOf(w) ==
    [j \in DOMAIN Request[w].rels |->
        LET r == Request[w].rels[j]
        IN  [from |-> ids[w][r[1]], to |-> ids[w][r[2]],
             src |-> Request[w].ents[r[1]], dst |-> Request[w].ents[r[2]],
             origin |-> <<w, j>>]]

\* The request arrived, was extracted and embedded, and takes its read locks.
Begin(w) ==
    /\ stage = "up" /\ pc[w] = "idle"
    /\ Cardinality(InFlight) < MaxInFlight
    /\ pc' = [pc EXCEPT ![w] = "resolve"]
    /\ UNCHANGED <<delta, walVars, nextNodeId, stage, indexVars, disk, ids,
                   toAdd, mergeVars, envVars>>

\* The entity is known: reuse its ID.
ResolveExisting(w) ==
    /\ Resolving(w) /\ ~ MatchIsNoNode(w)
    /\ \E id \in ResolvesTo(w, NextEnt(w)) : ids' = [ids EXCEPT ![w] = Append(@, id)]
    /\ UNCHANGED <<delta, walVars, nextNodeId, stage, indexVars, disk, pc,
                   toAdd, mergeVars, envVars>>

\* resolve_by_embedding indexes graph.nodes with every match of the HNSW: one
\* beyond the graph panics and the request dies, its IDs spent.
ResolvePanics(w) ==
    /\ Resolving(w) /\ MatchIsNoNode(w)
    /\ pc' = [pc EXCEPT ![w] = "failed"]
    /\ UNCHANGED <<delta, walVars, nextNodeId, stage, indexVars, disk, ids,
                   toAdd, mergeVars, envVars>>

\* The entity is new: allocate an ID for it.
ResolveNew(w) ==
    /\ Resolving(w)
    /\ ResolvesTo(w, NextEnt(w)) = {}
    /\ AllocNodeId
    /\ ids' = [ids EXCEPT ![w] = Append(@, nextNodeId)]
    /\ toAdd' = [toAdd EXCEPT ![w] =
                    Append(@, [id     |-> nextNodeId,
                               ent    |-> NextEnt(w),
                               origin |-> <<w, Len(ids[w]) + 1>>])]
    /\ UNCHANGED <<delta, walVars, stage, indexVars, disk, pc, mergeVars,
                   envVars>>

\* Mutant: the handler goes on before it has resolved every entity.
ResolveDoneEarly(w) ==
    /\ pc[w] = "resolve"
    /\ pc' = [pc EXCEPT ![w] = "appendNodes"]
    /\ UNCHANGED <<delta, walVars, nextNodeId, stage, indexVars, disk, ids,
                   toAdd, mergeVars, envVars>>

\* All entities are resolved: drop the read locks.
ResolveDone(w) ==
    /\ pc[w] = "resolve" /\ Len(ids[w]) = Len(Request[w].ents)
    /\ pc' = [pc EXCEPT ![w] = "appendNodes"]
    /\ UNCHANGED <<delta, walVars, nextNodeId, stage, indexVars, disk, ids,
                   toAdd, mergeVars, envVars>>

\* A failed write, or a crash, may cut the batch a handler is appending: k whole
\* lines reach the file, and perhaps a part of the next one.
CutAppend(w, k, cut) ==
    \/ /\ pc[w] = "appendNodes"
       /\ k <= Len(toAdd[w]) /\ (cut => k < Len(toAdd[w]))
       /\ AppendNodes(SubSeq(toAdd[w], 1, k), cut)
    \/ /\ pc[w] = "appendEdges"
       /\ k <= Len(EdgesOf(w)) /\ (cut => k < Len(EdgesOf(w)))
       /\ AppendEdges(SubSeq(EdgesOf(w), 1, k), cut)

LongestBatch(w) == Len(Request[w].ents) + Len(Request[w].rels)

AppendsPart(w) ==
    \E k \in 0..LongestBatch(w), cut \in BOOLEAN : CutAppend(w, k, cut)

\* append_wal_batch logs an I/O error and returns: the entries are pushed to
\* memory all the same.
WriteNodesWal(w) ==
    /\ pc[w] = "appendNodes"
    /\ \/ AppendNodes(toAdd[w], FALSE) /\ UNCHANGED faults
       \/ Fault("wal") /\ AppendsPart(w)
    /\ pc' = [pc EXCEPT ![w] = "pushNodes"]
    /\ UNCHANGED <<delta, nextNodeId, stage, indexVars, disk, ids, toAdd,
                   mergeVars, spawns, forced>>

AddNodes(w) ==
    /\ pc[w] = "pushNodes" /\ NobodyResolves
    /\ PushNodes(toAdd[w])
    /\ pc' = [pc EXCEPT ![w] = "appendEdges"]
    /\ UNCHANGED <<walVars, nextNodeId, stage, indexVars, disk, ids, toAdd,
                   mergeVars, envVars>>

WriteEdgesWal(w) ==
    /\ pc[w] = "appendEdges"
    /\ \/ AppendEdges(EdgesOf(w), FALSE) /\ UNCHANGED faults
       \/ Fault("wal") /\ AppendsPart(w)
    /\ pc' = [pc EXCEPT ![w] = "pushEdges"]
    /\ UNCHANGED <<delta, nextNodeId, stage, indexVars, disk, ids, toAdd,
                   mergeVars, spawns, forced>>

AddEdges(w) ==
    /\ pc[w] = "pushEdges" /\ NobodyResolves
    /\ PushEdges(EdgesOf(w))
    /\ pc' = [pc EXCEPT ![w] = "finish"]
    /\ UNCHANGED <<walVars, nextNodeId, stage, indexVars, disk, ids, toAdd,
                   mergeVars, envVars>>

\* needs_merge() and the answer to the client.
Finish(w) ==
    /\ pc[w] = "finish"
    /\ pc' = [pc EXCEPT ![w] = "done"]
    /\ spawns' = IF DeltaSize >= MergeThreshold THEN spawns + 1 ELSE spawns
    /\ UNCHANGED <<delta, walVars, nextNodeId, stage, indexVars, disk, ids,
                   toAdd, mergeVars, forced, faults>>

-----------------------------------------------------------------------------
(***************************************************************************)
(* run_merge and DeltaStore::merge_into.                                   *)
(***************************************************************************)
\* The task is over, with or without a result: its locals are dropped.
EndTask(m) ==
    /\ phase' = [phase EXCEPT ![m] = "idle"]
    /\ owner' = [owner EXCEPT ![m] = "task"]
    /\ base' = [base EXCEPT ![m] = Empty]
    /\ drained' = [drained EXCEPT ![m] = Empty]
    /\ built' = [built EXCEPT ![m] = EmptySnapshot]
    /\ reopened' = [reopened EXCEPT ![m] = 0]

\* run_merge(s): s.graph.read().await.clone()
Launch(m, who) ==
    /\ phase[m] = "idle"
    /\ base' = [base EXCEPT ![m] = graph]
    /\ phase' = [phase EXCEPT ![m] = "drain"]
    /\ owner' = [owner EXCEPT ![m] = who]
    /\ UNCHANGED <<delta, walVars, nextNodeId, indexVars, disk, writeVars,
                   drained, built, reopened, faults>>

\* Mutant: the spawned task ends without a merge.
StartMergeDropped(m) ==
    /\ Up /\ spawns > 0 /\ phase[m] = "idle"
    /\ spawns' = spawns - 1
    /\ UNCHANGED <<delta, walVars, nextNodeId, stage, indexVars, disk, writeVars,
                   mergeVars, forced, faults>>

\* A task spawned by an ingest is polled for the first time.
StartMerge(m) ==
    /\ Up /\ spawns > 0
    /\ spawns' = spawns - 1
    /\ Launch(m, "task")
    /\ UNCHANGED <<stage, forced>>

\* POST /delta/merge awaits its merge.
ForceMerge(m) ==
    /\ stage = "up" /\ forced < MaxForced
    /\ forced' = forced + 1
    /\ Launch(m, "request")
    /\ UNCHANGED <<stage, spawns>>

\* Mutant: the merge copies the delta and leaves it in place.
DrainCloned(m) ==
    /\ phase[m] = "drain" /\ NobodyResolves
    /\ drained' = [drained EXCEPT ![m] = delta]
    /\ phase' = [phase EXCEPT ![m] = "build"]
    /\ UNCHANGED <<delta, walVars, nextNodeId, stage, indexVars, disk, writeVars,
                   owner, base, built, reopened, envVars>>

\* std::mem::take under the write lock.
Drain(m) ==
    /\ phase[m] = "drain" /\ NobodyResolves
    /\ DrainDelta
    /\ drained' = [drained EXCEPT ![m] = delta]
    /\ phase' = [phase EXCEPT ![m] = "build"]
    /\ UNCHANGED <<walVars, nextNodeId, stage, indexVars, disk, writeVars,
                   owner, base, built, reopened, envVars>>

\* What the merge makes of the base graph, the drained delta and the vectors
\* it reads back from disk.
Merged(m) ==
    LET new == RemappedEdges(Len(base[m].nodes), drained[m])
        old == EdgeFiles(disk)
    IN  [nodes |-> MergedNodes(base[m].nodes, drained[m].nodes),
         edges |-> base[m].edges \o new,
         vecs  |-> disk.vecs \o
                     [i \in DOMAIN drained[m].nodes |-> drained[m].nodes[i].ent],
         evecs |-> old.evecs \o [j \in DOMAIN new |-> <<new[j].src, new[j].dst>>],
         eps   |-> old.eps \o [j \in DOMAIN new |-> <<new[j].from, new[j].to>>],
         linked |-> TRUE, cut |-> {}, mixed |-> {}]

\* Mutant: the WAL is truncated before anything is persisted.
BuildThenTruncate(m) ==
    /\ phase[m] = "build"
    /\ EndsInRange(Merged(m).edges, Len(Merged(m).nodes))
    /\ built' = [built EXCEPT ![m] = Merged(m)]
    /\ phase' = [phase EXCEPT ![m] = "truncate"]
    /\ UNCHANGED <<delta, walVars, nextNodeId, stage, indexVars, disk,
                   writeVars, owner, base, drained, reopened, envVars>>

\* The vectors are read back and CsrGraph::build succeeds: no edge end lies
\* beyond the nodes.
Build(m) ==
    /\ phase[m] = "build"
    /\ VectorsReadable(disk)
    /\ EndsInRange(Merged(m).edges, Len(Merged(m).nodes))
    /\ built' = [built EXCEPT ![m] = Merged(m)]
    /\ phase' = [phase EXCEPT ![m] = "nodes"]
    /\ UNCHANGED <<delta, walVars, nextNodeId, stage, indexVars, disk,
                   writeVars, owner, base, drained, reopened, envVars>>

\* A file of vectors that another merge writes, or has left unfinished, is an
\* error.  CsrGraph::build indexes its degree arrays with the edge ends: one
\* that is no index panics.  What the task drained is gone from memory.
BuildPanics(m) ==
    /\ phase[m] = "build"
    /\ ~ VectorsReadable(disk) \/ ~ EndsInRange(Merged(m).edges, Len(Merged(m).nodes))
    /\ EndTask(m)
    /\ UNCHANGED <<delta, walVars, nextNodeId, stage, indexVars, disk,
                   writeVars, envVars>>

\* merge_into returns an error before or while it writes, or run_merge fails to
\* rebuild an index; it logs the error and returns.  A handler whose client has
\* hung up is dropped at its next await.
MergeFails(m) ==
    /\ \/ phase[m] = "build" /\ Fault("read")
       \/ phase[m] \in Files \cup WritePhases /\ Fault("write")
       \/ phase[m] = "rebuild" /\ Fault("rebuild")
       \/ /\ owner[m] = "request" /\ phase[m] \in {"rebuild", "swap"}
          /\ Fault("disconnect")
    /\ EndTask(m)
    /\ UNCHANGED <<delta, walVars, nextNodeId, stage, indexVars, disk,
                   writeVars, spawns, forced>>

OthersWrite(m, file) == \E n \in Mergers \ {m} : phase[n] = WritingOf(file)

\* What a reader gets of a file that is not complete.  The records of edges.bin
\* count one by one, any other file is unreadable.
Remnants(m, file) ==
    IF file = "edges"
    THEN {SubSeq(built[m].edges, 1, k) : k \in 0..Len(built[m].edges)}
    ELSE {<<>>}

\* fs::write and VectorStore::write truncate the file in place.
\* save_edge_hnsw_data writes no vectors when there are none.
Open(m, file) ==
    /\ phase[m] = file
    /\ file = "evecs" => built[m].evecs # <<>>
    /\ \E left \in Remnants(m, file) :
          disk' = [disk EXCEPT
                      ![file]  = left,
                      !.linked = @ \/ file = "eps",
                      !.cut    = @ \cup {file},
                      !.mixed  = IF OthersWrite(m, file) THEN @ \cup {file} ELSE @ \ {file}]
    /\ phase' = [phase EXCEPT ![m] = WritingOf(file)]
    /\ UNCHANGED <<delta, walVars, nextNodeId, stage, indexVars, writeVars,
                   owner, base, drained, built, reopened, envVars>>

\* The last byte is written.  What two merges wrote at the same time may be the
\* content of this one, or of neither.
Save(m, file, next) ==
    /\ phase[m] = WritingOf(file)
    /\ LET unmixed == IF OthersWrite(m, file) THEN disk.mixed ELSE disk.mixed \ {file}
       IN  \/ disk' = [disk EXCEPT ![file] = built[m][file], !.cut = @ \ {file},
                                   !.mixed = unmixed]
           \/ file \in disk.mixed /\ disk' = [disk EXCEPT !.mixed = unmixed]
    /\ phase' = [phase EXCEPT ![m] = next]
    /\ UNCHANGED <<delta, walVars, nextNodeId, stage, indexVars, writeVars,
                   owner, base, drained, built, reopened, envVars>>

\* Mutant: nodes.json gets the nodes of the graph that the merge started from.
SaveNodesOfBase(m) ==
    /\ phase[m] = "writeNodes"
    /\ disk' = [disk EXCEPT !.nodes = base[m].nodes, !.cut = @ \ {"nodes"}]
    /\ phase' = [phase EXCEPT ![m] = "edges"]
    /\ UNCHANGED <<delta, walVars, nextNodeId, stage, indexVars, writeVars,
                   owner, base, drained, built, reopened, envVars>>

SaveNodes(m)     == Save(m, "nodes", "edges")
SaveEdges(m)     == Save(m, "edges", "vecs")
SaveVecs(m)      == Save(m, "vecs", "evecs")
SaveEdgeVecs(m)  == Save(m, "evecs", "eps")
SaveEndpoints(m) == Save(m, "eps", "truncate")

\* save_edge_hnsw_data writes no vectors when there are none.
SkipEdgeVecs(m) ==
    /\ phase[m] = "evecs" /\ built[m].evecs = <<>>
    /\ phase' = [phase EXCEPT ![m] = "eps"]
    /\ UNCHANGED <<delta, walVars, nextNodeId, stage, indexVars, disk,
                   writeVars, owner, base, drained, built, reopened, envVars>>

\* truncate_wal logs an I/O error and returns: the merge goes on.
Truncate(m) ==
    /\ phase[m] = "truncate"
    /\ \/ TruncateWal /\ UNCHANGED faults
       \/ Fault("wal") /\ UNCHANGED walVars
    /\ phase' = [phase EXCEPT ![m] = "rebuild"]
    /\ UNCHANGED <<delta, nextNodeId, stage, indexVars, disk, writeVars, owner,
                   base, drained, built, reopened, spawns, forced>>

\* Both HNSW builds, then VectorStore::open of the file as it is now.
Rebuild(m) ==
    /\ phase[m] = "rebuild"
    /\ Len(built[m].evecs) = Len(built[m].eps) /\ "vecs" \notin disk.cut
    /\ reopened' = [reopened EXCEPT ![m] = Len(disk.vecs)]
    /\ phase' = [phase EXCEPT ![m] = "swap"]
    /\ UNCHANGED <<delta, walVars, nextNodeId, stage, indexVars, disk,
                   writeVars, owner, base, drained, built, envVars>>

\* EdgeHnswIndex::build asserts that the two lists have one length, and the
\* store does not open while another merge writes it.
RebuildPanics(m) ==
    /\ phase[m] = "rebuild"
    /\ Len(built[m].evecs) # Len(built[m].eps) \/ "vecs" \in disk.cut
    /\ EndTask(m)
    /\ UNCHANGED <<delta, walVars, nextNodeId, stage, indexVars, disk,
                   writeVars, envVars>>

\* Mutants: the swap empties the delta it believes merged; the swap forgets
\* the store.
SwapClearsDelta(m) ==
    /\ phase[m] = "swap" /\ NobodyResolves
    /\ graph' = GraphOf(built[m])
    /\ hnsw' = built[m].vecs
    /\ edgeHnsw' = [evecs |-> built[m].evecs, eps |-> built[m].eps]
    /\ store' = reopened[m]
    /\ DrainDelta
    /\ EndTask(m)
    /\ UNCHANGED <<walVars, nextNodeId, stage, disk, writeVars, envVars>>

SwapKeepsStore(m) ==
    /\ phase[m] = "swap" /\ NobodyResolves
    /\ graph' = GraphOf(built[m])
    /\ hnsw' = built[m].vecs
    /\ edgeHnsw' = [evecs |-> built[m].evecs, eps |-> built[m].eps]
    /\ EndTask(m)
    /\ UNCHANGED <<delta, walVars, nextNodeId, stage, store, disk, writeVars,
                   envVars>>

\* All four write locks are held before the first of the four is replaced.
Swap(m) ==
    /\ phase[m] = "swap" /\ NobodyResolves
    /\ graph' = GraphOf(built[m])
    /\ hnsw' = built[m].vecs
    /\ edgeHnsw' = [evecs |-> built[m].evecs, eps |-> built[m].eps]
    /\ store' = reopened[m]
    /\ EndTask(m)
    /\ UNCHANGED <<delta, walVars, nextNodeId, stage, disk, writeVars,
                   envVars>>

-----------------------------------------------------------------------------
(***************************************************************************)
(* Crash and boot.                                                         *)
(***************************************************************************)
\* The memory of the process is gone; a request being handled gets no answer.
Vanish ==
    /\ delta' = Empty
    /\ graph' = Empty /\ hnsw' = <<>> /\ store' = 0 /\ edgeHnsw' = EmptyEdgeIndex
    /\ pc' = [w \in Writers |-> IF w \in InFlight THEN "failed" ELSE pc[w]]
    /\ phase' = [m \in Mergers |-> "idle"]
    /\ owner' = [m \in Mergers |-> "task"]
    /\ base' = [m \in Mergers |-> Empty]
    /\ drained' = [m \in Mergers |-> Empty]
    /\ built' = [m \in Mergers |-> EmptySnapshot]
    /\ reopened' = [m \in Mergers |-> 0]
    /\ spawns' = 0
    /\ UNCHANGED <<nextNodeId, disk, ids, toAdd, forced>>

Crash ==
    /\ Up /\ Fault("crash")
    /\ stage' = "down"
    /\ \/ UNCHANGED walVars
       \/ \E w \in Writers : AppendsPart(w)
    /\ Vanish

\* builder::load builds the CSR, which panics on an edge end that is no index.
SnapshotLoads ==
    /\ "nodes" \notin disk.cut /\ VectorsReadable(disk)
    /\ EndsInRange(disk.edges, Len(disk.nodes))

Boot ==
    /\ stage = "down" /\ SnapshotLoads
    /\ stage' = "up"
    /\ graph' = GraphOf(disk)
    /\ store' = Len(disk.vecs)
    /\ hnsw' = disk.vecs
    /\ edgeHnsw' = EdgeIndexOf(disk)
    /\ ReplayWal
    /\ InitNodeIds(Len(disk.nodes) + Len(wal.nodes))
    /\ UNCHANGED <<walVars, disk, writeVars, mergeVars, envVars>>

\* Mutant: main() exits without a look at the delta.
ShutdownAtOnce ==
    /\ stage = "up" /\ InFlight = {}
    /\ \A m \in Mergers : owner[m] # "request"
    /\ stage' = "closing"
    /\ UNCHANGED <<delta, walVars, nextNodeId, indexVars, disk, writeVars,
                   mergeVars, envVars>>

\* main() after the signal: every connection was served to its end; what the
\* delta still holds is merged before the process exits.
Shutdown ==
    /\ stage = "up" /\ InFlight = {}
    /\ \A m \in Mergers : owner[m] # "request"
    /\ stage' = "closing"
    /\ UNCHANGED <<spawns, forced>>
    /\ IF DeltaSize > 0
       THEN \E m \in Mergers : Launch(m, "main")
       ELSE UNCHANGED <<delta, walVars, nextNodeId, indexVars, disk, writeVars,
                        mergeVars, faults>>

\* main() returns.  Dropping the runtime lets a task run to its next await and
\* then drops it, and merge_into has none: it is finished or not begun.
Exit ==
    /\ stage = "closing"
    /\ \A m \in Mergers : phase[m] \in {"idle", "rebuild", "swap"} /\ owner[m] # "main"
    /\ stage' = "exited"
    /\ Vanish
    /\ UNCHANGED <<walVars, faults>>

\* Every request was answered and no merge is left to do, main() returned, or
\* the process does not come up again.
Quiescent ==
    /\ \/ stage = "exited"
       \/ stage = "down" /\ ~ SnapshotLoads
       \/ /\ stage = "up"
          /\ \A w \in Writers : pc[w] \in {"done", "failed"}
          /\ \A m \in Mergers : phase[m] = "idle"
          /\ spawns = 0
    /\ UNCHANGED vars

-----------------------------------------------------------------------------
Init ==
    /\ stage = "up"
    /\ disk = FirstSnapshot
    /\ graph = GraphOf(FirstSnapshot)
    /\ hnsw = FirstSnapshot.vecs
    /\ store = Len(FirstSnapshot.vecs)
    /\ edgeHnsw = EmptyEdgeIndex
    /\ delta = Empty
    /\ wal = Empty /\ walTorn = FALSE
    /\ nextNodeId = Len(FirstSnapshot.nodes)
    /\ pc = [w \in Writers |-> "idle"]
    /\ ids = [w \in Writers |-> <<>>]
    /\ toAdd = [w \in Writers |-> <<>>]
    /\ phase = [m \in Mergers |-> "idle"]
    /\ owner = [m \in Mergers |-> "task"]
    /\ base = [m \in Mergers |-> Empty]
    /\ drained = [m \in Mergers |-> Empty]
    /\ built = [m \in Mergers |-> EmptySnapshot]
    /\ reopened = [m \in Mergers |-> 0]
    /\ spawns = 0
    /\ forced = 0
    /\ faults = 0

WriterStep(w) ==
    \/ ResolveExisting(w) \/ ResolveNew(w) \/ ResolvePanics(w) \/ ResolveDone(w)
    \/ WriteNodesWal(w) \/ AddNodes(w)
    \/ WriteEdgesWal(w) \/ AddEdges(w) \/ Finish(w)

MergeStep(m) ==
    \/ StartMerge(m) \/ Drain(m) \/ Build(m) \/ BuildPanics(m)
    \/ \E file \in Files : Open(m, file)
    \/ SaveNodes(m) \/ SaveEdges(m) \/ SaveVecs(m)
    \/ SaveEdgeVecs(m) \/ SkipEdgeVecs(m) \/ SaveEndpoints(m)
    \/ Truncate(m) \/ Rebuild(m) \/ RebuildPanics(m) \/ Swap(m)

Next ==
    \/ \E w \in Writers : Begin(w) \/ WriterStep(w)
    \/ \E m \in Mergers : MergeStep(m) \/ MergeFails(m) \/ ForceMerge(m)
    \/ Crash \/ Boot
    \/ Shutdown \/ Exit
    \/ Quiescent

Spec == Init /\ [][Next]_vars

\* The runtime keeps polling every task that can make progress.  Nothing
\* makes a client send a request, an operator force a merge or a fault happen.
Fairness ==
    /\ \A w \in Writers : WF_vars(WriterStep(w))
    /\ \A m \in Mergers : WF_vars(MergeStep(m))

FairSpec == Spec /\ Fairness

-----------------------------------------------------------------------------
(***************************************************************************)
(* Properties.                                                             *)
(***************************************************************************)
Origin == (Writers \cup {Seeder}) \X Nat
NodeType == [id : Nat, ent : Entities, origin : Origin]
EdgeType == [from : Nat, to : Nat, src : Entities, dst : Entities, origin : Origin]
GraphType == [nodes : Seq(NodeType), edges : Seq(EdgeType)]
SnapshotType ==
    [nodes : Seq(NodeType), edges : Seq(EdgeType), vecs : Seq(Entities),
     evecs : Seq(Entities \X Entities), eps : Seq(Nat \X Nat), linked : BOOLEAN,
     cut : SUBSET Files, mixed : SUBSET Files]
Pcs == {"idle", "resolve", "appendNodes", "pushNodes", "appendEdges",
        "pushEdges", "finish", "done", "failed"}
Phases == {"idle", "drain", "build", "truncate", "rebuild", "swap"}
             \cup Files \cup WritePhases

EdgeIndexType == [evecs : Seq(Entities \X Entities), eps : Seq(Nat \X Nat)]

DeltaTypeOK ==
    /\ delta \in GraphType
    /\ wal \in GraphType
    /\ walTorn \in BOOLEAN
    /\ nextNodeId \in Nat

IndexTypeOK ==
    /\ graph \in GraphType
    /\ hnsw \in Seq(Entities)
    /\ store \in Nat
    /\ edgeHnsw \in EdgeIndexType

WriterTypeOK ==
    /\ pc \in [Writers -> Pcs]
    /\ ids \in [Writers -> Seq(Nat)]
    /\ toAdd \in [Writers -> Seq(NodeType)]
    /\ \A w \in Writers :
          /\ Len(ids[w]) <= Len(Request[w].ents)
          /\ pc[w] \notin {"idle", "resolve", "failed"} =>
                Len(ids[w]) = Len(Request[w].ents)

MergerTypeOK ==
    /\ owner \in [Mergers -> {"task", "request", "main"}]
    /\ phase \in [Mergers -> Phases]
    /\ base \in [Mergers -> GraphType]
    /\ drained \in [Mergers -> GraphType]
    /\ built \in [Mergers -> SnapshotType]
    /\ reopened \in [Mergers -> Nat]

\* Every variable has its type; in particular an edge's ends are always IDs
\* (EdgesOf never looks up an entity that its handler has not resolved).
TypeOK ==
    /\ stage \in {"up", "closing", "down", "exited"}
    /\ disk \in SnapshotType
    /\ spawns \in Nat /\ forced \in Nat /\ faults \in Nat
    /\ DeltaTypeOK
    /\ IndexTypeOK
    /\ WriterTypeOK
    /\ MergerTypeOK

Origins(s) == {s[i].origin : i \in DOMAIN s}

\* The merges that hold entries in neither the delta nor the graph.
Merging == {m \in Mergers : phase[m] \notin {"idle", "drain"}}

\* What the running process still holds of an entry's origin.
HeldNodes == Origins(graph.nodes) \cup Origins(delta.nodes)
                \cup UNION {Origins(drained[m].nodes) : m \in Merging}
HeldEdges == Origins(graph.edges) \cup Origins(delta.edges)
                \cup UNION {Origins(drained[m].edges) : m \in Merging}

\* An answered ingest is never forgotten by the running process: each node and
\* edge it created is in the graph, in the delta or in a merge under way
\* (merge_into and run_merge hand over everything they drained).
NoWriteForgotten ==
    Up => \A w \in Writers :
             pc[w] = "done" => /\ Origins(toAdd[w]) \subseteq HeldNodes
                               /\ Origins(EdgesOf(w)) \subseteq HeldEdges

\* An edge of the main graph joins the two entities its request named, across
\* ID allocation, resolution, buffering and the remap of merge_into.
EdgesJoinNamedEntities ==
    \A j \in DOMAIN graph.edges :
        LET e == graph.edges[j]
        IN  /\ e.from < Len(graph.nodes) /\ graph.nodes[e.from + 1].ent = e.src
            /\ e.to < Len(graph.nodes) /\ graph.nodes[e.to + 1].ent = e.dst

\* The four hot-swapped indices describe one graph: node k and the k-th HNSW
\* point are the same entity, every edge but the first snapshot's has an
\* embedding, and each leads to the two ends its text names.  The k-th mapped
\* vector is that entity's too, also after the next merge has rewritten the file
\* that the store maps; while it is being rewritten nothing is promised
\* (OldDataStands).
IndicesAgree ==
    Up => /\ Len(hnsw) = Len(graph.nodes) /\ store = Len(graph.nodes)
          /\ \A i \in DOMAIN graph.nodes : hnsw[i] = graph.nodes[i].ent
          /\ "vecs" \notin disk.cut =>
                /\ store <= Len(disk.vecs)
                /\ \A i \in DOMAIN graph.nodes : disk.vecs[i] = graph.nodes[i].ent
          /\ Len(edgeHnsw.eps) + Len(FirstSnapshot.edges) = Len(graph.edges)
          /\ \A j \in DOMAIN edgeHnsw.eps :
                LET p == edgeHnsw.eps[j]
                IN  <<graph.nodes[p[1] + 1].ent, graph.nodes[p[2] + 1].ent>> = edgeHnsw.evecs[j]

\* Queries in flight hold a reference to the old data and are never interrupted
\* (ALGORITHMS.md): the vectors that the serving store maps stay in their file,
\* also while a merge saves.
OldDataStands == Up => "vecs" \notin disk.cut /\ store <= Len(disk.vecs)

Extends(s, t) == Len(s) <= Len(t) /\ \A i \in DOMAIN s : t[i] = s[i]

\* A hot swap only adds nodes: one that has an index keeps it and what it
\* stands for, so seeds and edges that queries hold stay valid.
GraphNodesStable == [][Up /\ Up' => Extends(graph.nodes, graph'.nodes)]_vars

\* An entry is merged by one merge at most, however many overlap: what two of
\* them hold, and what is left in the delta, is disjoint (mem::take).
DrainExclusive ==
    /\ \A m \in Merging :
          /\ Origins(drained[m].nodes) \cap Origins(delta.nodes) = {}
          /\ Origins(drained[m].edges) \cap Origins(delta.edges) = {}
    /\ \A m, n \in Merging :
          m # n => /\ Origins(drained[m].nodes) \cap Origins(drained[n].nodes) = {}
                   /\ Origins(drained[m].edges) \cap Origins(drained[n].edges) = {}

\* The WAL is given up only for what the snapshot holds: after truncate_wal
\* all a merge drained is in nodes.json and edges.bin.
TruncatedIsOnDisk ==
    \A m \in Mergers :
        phase[m] \in {"rebuild", "swap"} =>
            /\ Origins(drained[m].nodes) \subseteq Origins(disk.nodes)
            /\ Origins(drained[m].edges) \subseteq Origins(disk.edges)

\* Whole files load, also files of two merges, or of a merge and the boot before
\* it: whatever IDs concurrent and failed requests left in the edges, no end of one
\* in edges.bin is beyond nodes.json, on which every boot would panic.  A merge
\* that fails after it wrote edges.bin is excepted: the next one starts from the
\* graph without those edges, and writes the shorter nodes.json first.
WholeFilesLoad ==
    (Up /\ disk.cut = {} /\ Origins(disk.edges) \subseteq HeldEdges) => SnapshotLoads

\* A crash leaves a snapshot that boot can load (DEPLOYMENT.md: "If the engine
\* crashes during a delta merge, the main graph remains intact").
CrashKeepsGraph == stage = "down" => SnapshotLoads

\* An answered ingest can be recovered: each node and edge it created is in
\* the snapshot or in a readable line of the WAL.
AckedRecoverable ==
    \A w \in Writers :
        pc[w] = "done" =>
            /\ Origins(toAdd[w]) \subseteq Origins(wal.nodes) \cup Origins(disk.nodes)
            /\ Origins(EdgesOf(w)) \subseteq Origins(wal.edges) \cup Origins(disk.edges)

\* The WAL "guarantees crash recovery for written data" (docs/SYSTEM_DESIGN.md:372):
\* each node and edge of an answered ingest is in memory, in the snapshot or in a
\* readable line of the WAL, also after a merge that drained it has failed.
NothingLost ==
    stage = "up" => \A w \in Writers :
        pc[w] = "done" =>
            /\ Origins(toAdd[w]) \subseteq HeldNodes \cup Origins(wal.nodes) \cup Origins(disk.nodes)
            /\ Origins(EdgesOf(w)) \subseteq HeldEdges \cup Origins(wal.edges) \cup Origins(disk.edges)

\* The flush of a clean exit (main()) leaves nothing behind: each node and edge
\* of an answered ingest is in the snapshot, whether the delta held it when the
\* signal came or a merge under way.
FlushedOnExit ==
    stage = "exited" => \A w \in Writers :
        pc[w] = "done" => /\ Origins(toAdd[w]) \subseteq Origins(disk.nodes)
                          /\ Origins(EdgesOf(w)) \subseteq Origins(disk.edges)

\* A clean exit loses nothing: what was answered can be recovered (main():
\* "so no writes are lost").
CleanExit == stage = "exited" => AckedRecoverable

\* The ID counter is past every ID the process knows.
CounterPastKnownIds ==
    Up => /\ Len(graph.nodes) <= nextNodeId
          /\ \A i \in DOMAIN delta.nodes : delta.nodes[i].id < nextNodeId

\* Clients that ask for resolution never describe one entity twice: it has one
\* node in the graph (README: merged "instead of creating a duplicate").
OneNodePerEntity ==
    \A i, j \in DOMAIN graph.nodes :
        (i < j /\ graph.nodes[i].ent = graph.nodes[j].ent) =>
            Request[graph.nodes[j].origin[1]].mode = "none"

\* Once a merge is due, whatever the delta holds reaches the main graph.
MergeCompletes ==
    \A w \in Writers :
        (spawns > 0 /\ pc[w] = "done") ~> (Origins(toAdd[w]) \subseteq Origins(graph.nodes) \/ stage = "exited")

=============================================================================
