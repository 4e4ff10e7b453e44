# LinkingMem in TLA+

LinkingMem is a knowledge-graph engine in Rust (`core/src`). Clients ingest text or structured
entities, a plugin extracts and embeds them, and the engine stores nodes and edges with their
embeddings, finds seeds for a query in two HNSW indices, walks the graph around them and lets a
plugin write the answer. This directory models the engine's own logic: what it keeps in memory
and on disk, how the two are brought together, and what its tasks do to each other.

All paths below are relative to `src/` of the repository; `delta.rs` etc. are under `core/src/`.

## The system

| Component | State it keeps | Operations | Works with |
|---|---|---|---|
| Delta store (`delta.rs`) | buffer of new nodes and edges under a `std::sync::RwLock`, `delta.wal` under a mutex, ID counters | `alloc_node_id`, `add_nodes_batch`, `add_edges_batch`, `merge_into`, `replay_wal`, `init_node_ids`, `read` | ingest, merge, boot, admin handlers, export |
| Main graph and indices (`app_state.rs`, `graph/`, `vector/`) | `CsrGraph`, node HNSW, edge HNSW, mapped `vectors.bin`, each under its own `tokio::sync::RwLock` | read by queries and ingest, replaced as a group by `run_merge` | merge, queries, ingest |
| Snapshot files (`graph/builder.rs`, `vector/`, `storage/`) | `nodes.json`, `edges.bin` and labels, `vectors.bin`, `edge_vectors.bin`, `edge_endpoints.json` | `save`, `load`, `VectorStore::write/open`, `save_edge_hnsw_data`, `load_edge_hnsw` | merge, boot |
| Ingest (`api/handlers/ingest.rs`, `entity_resolution.rs`) | nothing beyond a request | resolve, allocate, commit nodes, commit edges, spawn a merge | delta store, indices, plugin |
| Merge (`run_merge`) | nothing beyond a task | drain, build, persist, truncate, rebuild, swap | spawned by ingest, `POST /delta/merge`, the exit flush |
| Queries (`query.rs`) | query and embedding caches | text, vector, node, multi-hop, image | indices, plugin; the swap invalidates the query cache |
| Boot and shutdown (`app_state.rs`, `main.rs`) | nothing | load, replay, start the ID counter; drain connections, flush | everything above |
| Admin, export, import (`api/handlers/`) | nothing | lookups, counts, forced merge, dump, bulk load | graph, delta |
| Plugin client (`plugin.rs`) | cached readiness | calls with timeouts | ingest, queries |
| Auth and rate limits (`middleware/auth.rs`) | token buckets | `check`, `prune` | every request |
| Metrics, configuration, DTOs | counters | `inc` on every path of a query handler | queries |

What is hard in this code, and what makes each part correct:

* **Delta store.** A batch goes to the WAL first and to memory later, under two locks; the WAL
  is cut as a whole by whichever merge ends. Correct when an answered write is in memory, in a
  merge or in the graph (`NoWriteForgotten`), when it can be recovered from disk
  (`AckedRecoverable`), and when a failed merge leaves it somewhere (`NothingLost`).
* **Merge.** Many steps with awaits, panics and I/O errors between them, files that are
  truncated and written in place, and nothing that keeps two merges apart. Correct when each
  entry is merged once (`DrainExclusive`), when the WAL is given up only for what the snapshot
  holds (`TruncatedIsOnDisk`), when all of it keeps the facts that were written
  (`ImplementsKnowledgeGraph`) and when the graph only grows (`GraphNodesStable`).
* **Snapshot files.** Correct when the files between two writes are ones that boot loads
  (`WholeFilesLoad`), when a crash leaves such files too (`CrashKeepsGraph`), and when the store
  that serves keeps its vectors while a merge saves (`OldDataStands`).
* **Indices.** Four structures that index each other by position. Correct when they describe one
  graph whenever their file is whole (`IndicesAgree`), also for a query that reads them under
  separate guards (`OneSnapshot`, `SeedsKnown`).
* **Boot.** It must come up from whatever a crash left (`CrashKeepsGraph`) with an ID counter
  that is past every known ID (`CounterPastKnownIds`).
* **Shutdown.** It must leave nothing behind (`FlushedOnExit`, `CleanExit`).
* **Queries.** A context is gathered from walks over a graph that merges replace between them.
  Correct when it keeps the best of what the walks brought (`BestKept`), what was asked for by
  name or index (`AskedForIsSeen`) and true relations (`RelationsTrue`).
* **Caches.** Answers outlive the indices they come from. Correct when a merge leaves none that
  was right when it was stored (`MergeDropsOldAnswers`), when one that slips in is soon gone
  (`StaleIsBounded`), and when readiness is recent although probes overwrite each other's
  results (`ReadyIsRecent`).
* **Time.** A query makes several calls with timeouts, some in a loop. Between them it waits at
  locks, where a queued swap keeps it out. Correct when it is answered within the sum of its
  calls and of the waits at its guards (`AnsweredInTime`) and counted once (`MetricsBalance`).
* **The graph as data.** Every merge unpacks and repacks it, and lookups, searches and the
  export read graph and delta one after the other. IDs are handed out before nodes are pushed.
  Correct when they answer with what callers described (`RelatedSearchExact`, `EdgeSearchExact`,
  `IdsKeepTheirNodes`, `ExportExact`), list nothing twice (`NoNodeTwice`), when the packed
  arrays mirror the edges (`CsrMirrors`, `BfsExact`) and an import restores an export
  (`RestoreExact`).
* **Rate limits.** Buckets are refilled lazily and dropped when idle. Correct when nobody can
  tell (`ImplementsPromise`, `WindowBound`).
* **Locks.** Handlers hold guards across awaits and take several. Correct when they never wait
  for each other in a circle (`NoWaitCycle`) and everybody finishes (`EveryoneFinishes`).

`PROJECT.json` lists every component and every hazard with the line where it bites.

## Modules

| Module | Models | State and actions |
|---|---|---|
| `DeltaStore` | `delta.rs` | `delta`, `wal`, `walTorn`, `nextNodeId`; one action or operator per method, and the pure part of `merge_into` |
| `Engine` | ingest handlers, `run_merge`, snapshot, boot, shutdown | extends `DeltaStore`; per writer `pc`, `ids`, `toAdd`; per merge slot `phase`, `base`, `drained`, `built`, `reopened`, `owner`; `disk`, with what is `cut` or `mixed` of it; the four indices |
| `Engine_proofs` | theorems about `Engine`, and about it with one client and one merge at a time, the refinement among them | |
| `KnowledgeGraph` | what ingest promises a client that writes alone (abstract) | `content`, `served`, `progress`; `Describe`, `Relate`, `Answer`, `Publish` |
| `EngineRefinement` | how `Engine` implements it | the facts that graph, merge, delta and snapshot hold |
| `MCEngine` | instances of `Engine` and `EngineRefinement` | the requests of each run |
| `IdAlloc` | `alloc_node_id`, `init_node_ids` | `counter` (an `AtomicU32`), `seen` per call, `issued`; `FetchAdd`, `Issue`, `PutBack` |
| `MCIdAlloc`, `IdAlloc_proofs` | an instance of `IdAlloc` and theorems about it | |
| `Locks` | tokio's and std's reader-writer locks (external) | `queue`, `readers`, `writer`; `Acquire`, `Serve`, `Release`, `Abandon` |
| `HotSwap` | the lock programs of queries, ingest, admin handlers and `run_merge` | extends `Locks`; `at` (program counter per task), `gen` (swaps per index), `seeds`, `scored` |
| `MCHotSwap` | instances of `HotSwap` | which handlers run at once |
| `HotSwap_proofs` | theorems about `HotSwap` and `Locks` | |
| `CsrGraph` | `graph/csr.rs` | operators only: `Build`, the slices, `AllEdges`, `EdgesBetween`, `BfsExpand` |
| `CsrGraph_proofs` | theorems about the operators of `CsrGraph`, and the lemmas on sequences that they and their users need | |
| `Catalog` | lookups, searches, export, import, merges of vectors of different lengths | extends `DeltaStore` and `CsrGraph`; `graph`, `vectors`, `pending` and `issued` IDs, `merging`, `drained`; one `read`er, a `file`, an `import`er |
| `Catalog_proofs` | theorems about `Catalog` | |
| `Retrieval` | `query.rs` from the seeds to the context, and from hop to hop | extends `CsrGraph`; `graph`, `sim`, `query` |
| `Retrieval_proofs` | theorems about `Retrieval` | |
| `QueryPath` | query handlers, engine entry points, `QueryCache`, the readiness cache, query counters | per request `req` (phase, shape, wait, generation, hops, age); `health`, `cache`, `gen`, `replaced`, the `swap` and who it is `stuck` with, `metrics`, the plugin |
| `QueryPath_proofs` | theorems about `QueryPath` | |
| `TokenBucket` | what a rate limiter promises (abstract) | `level`, `verdict`; `Tick`, `Allow`, `Refuse` |
| `RateLimiter` | `middleware/auth.rs`, the pruner of `main.rs` | `master`, `buckets`, `sleep`; implements `TokenBucket` |
| `RateLimiter_proofs` | theorems about `RateLimiter` | |
| `MCCatalog`, `MCRetrieval`, `MCQueryPath`, `MCRateLimiter` | instances of the modules they are named for | |

### Engine

A writer is one `POST /ingest/*` request. `Begin` takes the read guards, `ResolveExisting`,
`ResolveNew` and `ResolvePanics` handle one entity each, `ResolveDone` drops the guards,
`WriteNodesWal`/`AddNodes` and `WriteEdgesWal`/`AddEdges` are the two halves of each batch
commit, `Finish` answers and may spawn a merge. Steps that take a write lock wait while a
handler resolves (`NobodyResolves`), since it holds read guards of graph, HNSW and delta.

A merge slot runs `StartMerge`, `ForceMerge` or the flush of `Shutdown`, then `Drain`, `Build`
(or `BuildPanics`), `Open` and `Save` for each file, `Truncate`, `Rebuild` (or `RebuildPanics`)
and `Swap`. `MergeFails` is every early return, and the drop of a handler whose client hung up.
The number of slots bounds how many merges overlap; the code has no such bound, so one slot is a
hypothesis ("merges do not overlap") and two slots are what the code allows.

`disk` holds the snapshot as five files. `LocalStorage::write_bytes` (`fs::write`) and
`VectorStore::write` truncate a file and write it in place, so each write is two steps. `Open`
leaves what a reader meets of an incomplete file: the records of `edges.bin` count one by one,
so any number of the first ones; any other file cannot be read (`cut`). `Save` writes the last
byte. When two merges write one file at the same time (`mixed`), it ends with the content of
either or of none. A crash or a failed write between the two leaves the file cut, and boot,
`Build` and `Rebuild` meet it so. `store` is only the length the mapped store was opened with:
its contents are `disk.vecs`, because it maps that very file.

`Crash` can happen anywhere, also within the write of a file or an append (a part of a batch,
then a torn line, see `CutAppend`); `Boot` loads and replays. `Exit` follows the end of
`main()`: dropping the runtime lets a task run to its next await, and `merge_into` has none, so
a merge is either finished with its files or not begun.

Faults are one action each, bounded by `MaxFaults`: a crash, a failed WAL write or truncation, a
failed read or write of a snapshot file, a failed rebuild, a client that disconnects.

### KnowledgeGraph and EngineRefinement

`KnowledgeGraph` has no buffers, no IDs, no log and no merges: entities, relations between two
of them, and the part that queries see. A request adds all its entities, then all its relations,
and is answered; nothing is taken back. `EngineRefinement` reads these facts from the engine's
state: nodes and edges of graph, merge under way and delta in this order, an edge's ends looked
up by ID. So a step that merges, remaps, swaps or exits must leave them as they are, and a
commit must add the relations of the request, whatever IDs it went by. After a clean exit the
facts are those of the snapshot. Entities are a set: a second node of one is not told from the
first, and there can be one (`Engine_one_node.cfg`).

`served`, the part that queries see, is the main graph: `query.rs` reads the graph, the HNSW
indices and the store, and never the delta. (`docs/ARCHITECTURE.md:238` has a query search the
delta too; in the code only resolution, the admin handlers and the export do.) So the abstract
graph lets an answered fact be unseen until a merge publishes it, and `MergeCompletes` says that
one that is due does.

### IdAlloc

`Engine` allocates an ID in one step and never meets the end of the range. `IdAlloc` looks at
the two atomic operations of `alloc_node_id`: `FetchAdd` bumps the counter before the limit is
known, `Issue` returns the ID, `PutBack` undoes the bump of a call that fails. The widths (256
instances, 2^24 IDs each) are parameters. The highest ID of a range is never handed out, since
the code compares with `>=`.

### HotSwap

A task is a handler, written as the sequence of its lock operations and of the steps that read
or replace what the locks protect. `Locks` gives the two lock disciplines: tokio's queue is
fair, std's lets a waiting writer pass waiting readers. `join` is the second future of a
`tokio::join!`: it is polled although the first one waits. `GivesUp` is a plugin call that fails
or a client that hangs up, of a query, an ingest or a merge that `POST /delta/merge` runs in its
handler: the guards and queue places are dropped.

### CsrGraph and Catalog

`CsrGraph` is the packed graph as it is in memory: offsets and packed edges for both directions,
built by a counting sort. A node weight is a pair, degree over greatest degree, because it is
0/0 in a graph without edges.

`Catalog` looks at the data. An ingest is two steps, as in `ingest.rs` and `export.rs`: the ID
of a new node is allocated, and the node is pushed later (`pending` between the two).
`MaxPending` bounds how many wait at once. With one, requests come one after the other, though a
reader, a merge, or for good a request that failed after its allocation, may stand between the
two steps; with two, they overlap, push in another order than they allocated, and leave gaps
under later nodes. A merge is two steps as well (it drains; it swaps or dies); `Engine` takes
both apart. The readers are taken apart: each handler drops its guard of the graph before it
asks for the delta's. `ReadGraph` remembers the graph, and the properties evaluate what each
handler would answer from it and the delta of each later moment, for every value of its
parameters; so one reader stands for all of them. An entity is its name; `origin` tells whether
it has an embedding, which an imported one has not. `MergeDies` is the assertion of
`VectorStore::write` on such a mixture. `FreshInstance` is the operator who takes an export to
an instance that was just set up.

Four of its properties say exactly what the code computes, and where that is less than a comment
or a document says, a configuration shows the difference (see below): `RelatedSearchExact`
beside `RelatedSearchFindsAll` and `RelatedSearchFindsOnly`, `ExportExact` beside
`DeltaEdgesExported`, `BfsExact` beside `BfsWithinLimit`, and `IdsKeepTheirNodes` beside the
same property with two ingests at once (`Catalog_ids_overlap.cfg`).

### Retrieval

A query chooses seeds (any few nodes and edges: the indices are approximate), walks, scores,
ranks and cuts (`Retrieve`). A multi-hop query then alternates calls of the plugin (`Reasoned`,
`Unfinished`, `FollowUp`) with further walks (`RetrieveMore`), whose nodes and edges it merges
into what it has (`Gather`, `Join`). `Swap` lets a merge extend the graph between any two of
these. Scores are integers, so that the three products of `score_nodes` and the sort are exact.

### QueryPath

A request passes the phases of its handler and of the engine. The phases in `Calls` await the
plugin and have a limit; the others take no time, but for what they wait at a lock. `Tick` waits
for local work and lets no call go past its limit, so a request that local work could not take
on would be a deadlock, and TLC looks for one. An answer is reduced to the generation of the
indices that were searched for it, and whether that generation was still served when it was
stored (`raced`). `Swap` and `Invalidate` are two steps, as in `run_merge`.

Of the locks it has what costs time. `resolve_entity_names` (`query.rs:554`) keeps a guard of
the graph across its calls, so a swap that comes meanwhile is `queued`, and since tokio's locks
are fair it keeps later readers of the graph out (`Blocked`), for as long as those calls last
(`LockWait`). They pay for it in `age`. A swap that has the graph can get `stuck` at
`edge_hnsw`, against the joined reads of `search_hnsw` (`swap_deadlock`); then time passes until
a client leaves, and no budget can hold: `Tick` does not charge what is spent behind a stuck
swap. `POST /delta/merge` may be given up while its swap waits (`SwapGivenUp`). Merges follow
one another, a tick apart: the code would let two of them queue back to back, and a reader would
then wait for the one's readers and for the other's.

### RateLimiter and TokenBucket

`check` and `prune` each run under one mutex, so they are one step. A bucket has its tokens and
the time since its last use; `Refilled` is what `consume` computes from them. `TokenBucket`
refills every bucket at every tick and forgets none. `RateLimiter` implements it, with `level`
the refilled tokens, under `PruneAssumption`: a bucket that is pruned would be full. The
defaults satisfy it; the code does not require it of `RATE_LIMIT_BURST` and
`RATE_LIMIT_PER_MINUTE`.

## Abstractions

* Two entities are similar enough to be one exactly when they are equal; HNSW recall is exact.
  Type matching and thresholds only change which entities are equal.
* `ent` stands for name, text and embedding; `src` and `dst` of an edge are the entities the
  request named. Every node and edge has an embedding.
* Edges are kept in the order of insertion; CSR order changes the place of an edge, never its
  ends.
* `edges.bin` and its label files are one file, which is truncated and written in place like the
  others. What two merges write into one file at the same time ends as the content of one of
  them or as an incomplete file; a mixture of the two that can be read is left out.
* The WAL is kept per kind of entry: replay fills nodes and edges separately, so only the order
  within a kind matters.
* `Engine` is instance 0, far from the end of the ID range. It leaves out weights and caches,
  which have modules of their own. Edge IDs and logging are left out everywhere.
* `QueryPath` has one swap at a time, and only the waits at the guards of the graph and of the
  HNSW indices; what is spent behind a swap that is stuck counts for nobody.
* In `Catalog`, edges join known nodes and snapshots with nodes have edges (see
  `Catalog_edgeless.cfg` below).
* `QueryPath` has one plugin for all routes and the HTTP transport, whose timeout spans a whole
  call. Local work takes less than a tick.
* `RateLimiter` computes exactly, in parts of a token; the limiter of the public routes is the
  same structure keyed by address, without the master key and without the pruner.
* Plugin failures before resolution are requests that never begin.

## Runs

| Run | Instance | Shows |
|---|---|---|
| `serial` | three requests, one at a time, one merge slot, no faults, fairness | all its properties hold when clients and merges do not overlap |
| `crash` | two concurrent requests, a forced merge, one slot, one fault of any of the six kinds, also within a file | `TruncatedIsOnDisk`, `WholeFilesLoad`, `GraphNodesStable` survive every single fault: the log is given up only for what is on disk, old and new files together boot, and the graph only grows |
| `retrieval` | a text, node or multi-hop query with two hops in three modes, three graphs of three nodes, a merge | `BestKept`, `AskedForIsSeen`, `RelationsTrue` |
| `hot_swap` | search, multi-hop query, ingest and merge at once, fairness | `OneSnapshot`, `SeedsKnown`, `EveryoneFinishes` |
| `id_alloc` | three overlapping calls, the second of three ranges of six IDs, graphs of 2, 9 and 14 nodes | `UniqueIds`, `FreshIds`, `NoGaps` hold up to and beyond the end of the range |
| `catalog` | three names, two edge types, three nodes, two edges, one ingest at a time, one merge, an export and its import, from an empty snapshot or one of two nodes | the searches, lookups, export, import, packed graph and walk of `Catalog` |
| `rate_limit` | three headers, with and without a master key, two tokens of burst, half a token a tick | `RateLimiter` implements `TokenBucket`; `WindowBound` |
| `request_path` | two requests at a time and three in all, of all five kinds, one hop, a merge whose swap queues behind them, one flip of the plugin, every timeout one tick | `AnsweredInTime`, `MergeDropsOldAnswers`, `MetricsBalance`, `StaleIsBounded`, `ReadyIsRecent` |

`serial` checks, beside the types: `NoWriteForgotten`, `IndicesAgree`, `FlushedOnExit`, the
liveness property `MergeCompletes` and the refinement `ImplementsKnowledgeGraph`, with it that
every request that has begun to write is answered. Each property of a passing run has a mutant
in `PROJECT.json`: a definition with a plausible slip (marked "Mutant" or "A plausible slip" in
the modules) under which TLC finds the property violated.

These four runs end in a counterexample. The property is what a document or a comment of the
repository says (quoted in `findings` of `PROJECT.json`), and the code does otherwise; more of
this kind is among the configurations below:

| Run | Instance | Violated |
|---|---|---|
| `wal_window` | two concurrent requests, one slot, no fault | `AckedRecoverable`: a merge truncates lines it has not drained |
| `boot_ids` | two concurrent requests, a crash | `CounterPastKnownIds` after boot |
| `swap_deadlock` | search and merge | `NoWaitCycle`: `tokio::join!` of two reads against the order of the swap |
| `import_merge` | a snapshot of two nodes, an ingest, an export taken back, a merge | `MergeFlushesImports`: the merge dies of vectors of different lengths |

Bounds. Two requests with two entities and a relation each are enough for every window between
two commits and a merge; the third request of `serial` refers to what the first two created and
skips resolution. The threshold of two lets a merge start after any request, so merges meet
every stage of the delta. Three calls and six IDs let two calls fail while a third looks at the
limit, from a graph below the range, within it and beyond its end. One fault is enough for each
crash point. A failed log write is enough for a gap in the IDs, with an edge of another request
on its far side. In `Catalog` two edges can be parallel, opposite, a chain or a star, and three
nodes can be split over snapshot, merge and delta; `Retrieval` adds a fourth node and a heavier
parallel edge by its merge. Contexts of two nodes are full after one walk, so each later hop has
to choose. Two requests at a time are enough for two probes that overwrite each other, and for a
miss that races another's insert or the swap; the third comes after them. One that keeps its
guard and one that waits behind the swap are two requests too. (With one merge a query waits at
one guard; that it may wait at each is in the bound and in the theorem.) With timeouts of one
tick and lives of two in the caches each of them can expire within a call and outlive one. The
window of three ticks and the four ticks to pruning let a bucket be dropped and asked for again
within one window. `request_path` has 4.7 million states, `crash` 1.9 million, `catalog` 600
000, `retrieval` 480 000, `rate_limit` 310 000. `MaxInFlight`, `MaxForced`, `MaxFaults` and the
slots are the bounds on the environment; the engine's own steps have none.

Fairness. Weak fairness of each handler's steps and of each merge's steps in `Engine`: tokio
polls every task that can make progress, and commits and merges wait for nothing but locks that
resolution, which never blocks, releases. (Merges also wait for queries, in `HotSwap`.)
Requests, forced merges, faults, shutdown and the restart of a crashed process have no fairness.
In `HotSwap` the programs are finite and weak fairness of "some task or lock takes a step" is
enough; plugin calls end because reqwest's timeout spans a whole call (`plugin.rs` 282-300,
344). That is true of the HTTP transport; the Unix transport has no timeout on the handshake and
on the body (`plugin.rs` 235, 258), and with it `EveryoneFinishes` would rest on the plugin.
`QueryPath` needs no fairness: what must happen in time is stated as a bound on time
(`AnsweredInTime`).

Deadlock is checked in every run: `Quiescent`, `Finished` and `Answered` are the states where
the system may rest. A process whose snapshot does not load stays down (`Quiescent`).

### Configurations run by hand

`tlc -config <file> <module>`, with the module `MC<first part of the name>`, checks one more
question each. All but the first show a property violated. Where a document or a comment of the
repository is contested, the table quotes it.

| Configuration | Shows |
|---|---|
| `Engine_overlap.cfg` | passes (0.9 million states): `DrainExclusive` with two slots whose merges overlap in every way and write the same files; `ExclusiveDrains` proves it for any number of them |
| `Engine_crash_load.cfg` | `CrashKeepsGraph`: a crash while a merge writes `nodes.json` or another file leaves it cut (`local.rs:26`, `store.rs:59`), and no later start gets past it. "If the engine crashes during a delta merge, the main graph remains intact" (`docs/DEPLOYMENT.md:447`) |
| `Engine_old_data.cfg` | `OldDataStands`: without any fault, `vectors.bin`, which the serving store maps, is truncated and rewritten in place while it serves (`store.rs:59`). "Queries in flight hold a reference to the old data until they complete" (`docs/ALGORITHMS.md:316`; `docs/ARCHITECTURE.md:309`) |
| `Engine_clean_exit.cfg` | `CleanExit`: of two merges that overlap, the exit flush and one that an ingest spawned, the one with the entries fails on the file the other is writing, and the other truncates the WAL. "so no writes are lost" (`main.rs:109`) |
| `Engine_failed_merge.cfg` | `NothingLost`: what a merge had drained before one failed write is in the WAL alone, and the next merge truncates it, with no crash. "guarantees crash recovery for written data" (`docs/SYSTEM_DESIGN.md:372`) |
| `Engine_pair_edges.cfg` | `EdgesJoinNamedEntities`: two requests push in another order than they allocated, merge remaps edges by the order of the push, and an edge joins nodes its request did not name, against what `delta.rs:466-469` says the remap is for |
| `Engine_one_node.cfg` | `OneNodePerEntity`: an entity that is ingested again while a merge holds it gets a second node, although requests come one by one. "merged into the existing node instead of creating a duplicate" (`README.md:354`) |
| `Catalog_related_search.cfg` | `RelatedSearchFindsAll`: a search by relation does not list a node of the main graph that an edge of the delta joins to the root. "main graph nodes were already collected above" (`admin.rs:195`) |
| `Catalog_related_types.cfg` | `RelatedSearchFindsOnly`: with edges of two types there and back, a node is listed for the type of the other direction. "Filter by edge type (combine with `related_to` ...)" (`docs/API_REFERENCE.md:575-576`) |
| `Catalog_export_merge.cfg` | `DeltaEdgesExported`: an edge of the delta loses its ends when a merge crosses the export; with `MaxPending = 2` and `MaxMerges = 0`, when two ingests overlap. "Delta nodes — IDs start after CSR node count" (`export.rs:92`) |
| `Catalog_bfs_limit.cfg` | `BfsWithinLimit`: a walk collects more nodes than `bfs_max_nodes`, by one, or by its seeds and one. "max nodes to collect during BFS" (`query.rs:46`; `docs/API_REFERENCE.md:235`, `docs/DEPLOYMENT.md:307`) |
| `HotSwap_stats.cfg` | `NoWaitCycle`: `graph_stats` asks for the delta's lock under itself |
| `IdAlloc_last.cfg` | `FreshIds` on the last range: the limit is the greatest integer, a failing call wraps the counter and another gets ID 0 |
| `Catalog_ids_overlap.cfg` | `IdsKeepTheirNodes` with two ingests at once (`MaxPending = 2`): after the merge an ID answers with another node |
| `Catalog_edgeless.cfg` | `WeightsInRange`: in a graph without edges every node weight is 0/0, NaN in `f32` |
| `Retrieval_BestKnownKept.cfg` | a node met again keeps the weight it first came with, takes a place of its second walk's limit with the new one and can be cut by the old one, though the plugin asked for it |
| `Retrieval_RelationsComplete.cfg` | after a hop the plugin is not told of edges between nodes of different walks ("Edges between context nodes", `docs/PLUGIN_INTERFACE.md:413`) |
| `Retrieval_AnswerIsFinal.cfg` | at `max_hops`, and when the plugin names nothing to look at, what it said is missing becomes the answer ("final /generate on last iteration", `query.rs:298`, and step 4 in `docs/API_REFERENCE.md`) |

## Proofs

`Engine_proofs` proves for every value of the constants that satisfies `RequestAssumption` and
`BoundsAssumption`:

* `TypeCorrect`: `Spec => []TypeOK`. `TypeOK` is inductive as it stands; it includes that a
  handler past resolution has an ID for each of its entities, which is what makes the ends of an
  edge IDs.
* `SerialTruncatedIsOnDisk` and `SerialGraphNodesStable`, under `SerialMerges` (at most one
  merge slot). `TruncatedIsOnDisk` is not inductive: a merge that is about to truncate must be
  known to have written its files and built them from what it drained. `SerialInv` says so: a
  merge's base is the served graph while the process is up, what it built extends that base and
  holds all it drained, and each file it has passed holds its part and is whole. With two slots
  TLC finds both violated (in the instance of `Engine_clean_exit.cfg`), so the hypothesis is
  needed.
* `ExclusiveDrains`: `DrainExclusive` for any number of overlapping merges and any faults. It
  needs `ExclusiveInv`: what a writer has not yet pushed is in neither the delta nor any merge
  (`WriterInv`; also not in the log while it is idle, since a replay would bring it back), and a
  slot that has not drained holds nothing (`IdleInv`).
* `LoneWholeFilesLoad`: `WholeFilesLoad` under `Lone`, that is with one merge slot and no fault
  but a failed log write or read, for any number of concurrent clients. Nodes that are pushed
  out of order, or never, do not matter: `Build` refuses an edge whose end is no index, so what
  the files of one merge say fits, and the edges of the graph before it fit the longer list of
  nodes after it; `nodes.json` is written first. The run `crash` checks it with every fault, and
  there the property excepts one case: a merge that failed after it wrote `edges.bin`, whose
  edges the next merge does not know when it writes its shorter `nodes.json`. Without failed
  writes no such merge is, and the theorem needs no exception. A crash or a failed write can
  leave a file cut, of which neither says anything (`Engine_crash_load.cfg`).

It also proves, under the hypothesis `Quiet`, `NoWriteForgotten`, `FlushedOnExit`,
`IndicesAgree`, `EdgesJoinNamedEntities`, and that every step of `Engine` maps to a step of
`KnowledgeGraph` or to a stutter. `Quiet` says: at most one merge slot, at most one request at a
time, and no fault but a failed WAL write. Requests, entities, thresholds and bounds are free,
and so are forced merges, shutdowns and restarts after them. Each part of `Quiet` is needed:

* with two slots the second merge builds from a base that the first replaces
  (`Engine_clean_exit.cfg`);
* with two requests TLC finds `NoWriteForgotten` violated too (`MaxInFlight = 2`, `MaxForced =
  2`, `PairRequest`, no fault): one request allocates before another and pushes after it, a
  merge between numbers the nodes by their push, an edge ends beyond the graph, `Build` panics
  and what was drained is lost;
* after any other fault what a merge had drained is in the WAL alone, or in a file of a snapshot
  that was not finished.

The argument is that graph, merge under way and delta, read one after the other, are one
sequence of nodes in which each has the place that its ID says. Handlers add to its end; drain,
merge and swap only move the borders of the three parts, since the remap of `merge_into` sends
each ID to itself. The inductive invariant `QuietInv` has two halves. `WriteInv` is about the
handler: its stage and that it is alone (`StageInv`, `ClientInv`), that all numbers are places
and those it still holds are the next ones (`NumberInv`), and that what it was answered for is
there (`KeptInv`). `HoldInv` is about the merge: what it built is its base and what it drained
(`MergeInv`), the indices are those of the graph (`ServedInv`), and each file it has passed is
that of the graph it built, while one may be cut: the one it has open (`DiskInv`).
`IndicesAgree` speaks of `vectors.bin` when that is whole; `Engine_old_data.cfg` shows why it
cannot say more. TLC checked it first on the instance of `serial`.

`HotSwap_proofs` proves `TypeOK`, `OneSnapshot` and `SeedsKnown` for any set of tasks, any
number of which may run the same handler, whatever the order in which std's lock lets readers
in. `OneSnapshot` needs `SeatInv` (a merge that has asked for a lock owns it or is in its queue,
and has all four before it replaces anything) and `GenInv` (the generations differ only between
the replacements of one merge). Two theorems are about deadlock. `LockOrderIsSound`: among the
tasks whose program asks for locks in one order, drops what it takes and neither polls two at
once nor asks for the second guard of one (`Plain`), some task of any set waits for none of the
others. `OthersNeverDeadlock`: that holds of node queries, ingests, node lookups, edge searches
and merges, by evaluating their programs. So the deadlocks that `swap_deadlock` and
`HotSwap_stats.cfg` show come from `tokio::join!` and from the second guard of the delta alone.
The argument takes the highest-ranked lock that somebody of the set waits for: its owner, or who
stands first in its queue, would have to wait for a higher one. The invariant `WaitInv` ties
queues and guards to the step a task is at.

`CsrGraph_proofs` proves what the operators of `graph/csr.rs` compute, for any graph.
`PackingKeepsEdges`: what is read back from a packed graph is a rearrangement of the edges it
was built from. The counting sort is stated without recursion: edge `j` goes behind all edges of
lower ends and of equal ends before it (`Placed`), which is a permutation. `HeaviestOfPair`:
`edges_between` gives a linked pair a true edge, and none of the pair is heavier.
`BfsFindsSeeds`: `bfs_expand` finds each node once, its seeds first. `BfsFindsNearest`: each has
its distance from the nearest seed (it is within that many hops, and not within fewer), all
nodes within the depth are found unless the walk has as many as the limit. That it has no more
is false (`Catalog_bfs_limit.cfg`): it can have one beyond the limit, or one beyond its seeds.
Its invariant (`Walked`) says that hops never decrease along the result and that every node
behind the seeds was reached from one found earlier (`FoundFrom`), before which everything had
spread to its neighbours (`Spread`): what is a hop short of a node is therefore found before it.
The walk has as many turns as graph and seeds have nodes, and it cannot find more
(`FoundAtMost`). `WeightsAreFractions`: with edges, every node weight is between 0 and 1 and
some node's is 1. A filter is stated by the places it keeps (`Selected`), and a fold as a
function of how far it is (`Folded`); what a fold keeps true it keeps true at each place, and
`UpTo` takes that from 0 to the last one. The one induction is over places, by the least place
where a claim would fail (`LeastNat`); it also shows that the function of a fold exists
(`StepwiseExists`).

`Retrieval_proofs` proves `TypeOK`, `BestKept`, `RelationsTrue` and, with the hypothesis
`LightEdges`, `AskedForIsSeen`, for any graphs, growths, similarities, modes and limits that
`GraphsAssumption` and `RetrievalAssumption` admit. `LightEdges` says that edges weigh 1 at most
and that no mode counts a node's degree for more than its similarity. All modes of
`resolve_weights` are such. Edges weigh what the extraction says, or 1; over an edge of weight 4
a neighbour scores 1.2 for its proximity in the mode `relationship`, where the node itself has
1.0 at most, so the hypothesis is needed. The inductive invariant is `RetrievalInv`. Its parts:
the graph was built from edges between its nodes and any growth fits it (`Sound`); what the
query asks for is in the graph, now and after any merge (`AsksInGraph`); a context is sorted,
distinct and cut (`IsContext`); its edges are true and one of a pair (`EdgesTrue`,
`OnePerPair`); each offer that was new is in the context or outweighed by a full one
(`OffersHeld`), which survives a later walk because the sort drops the least (`LeftOut`); the
edges of a first walk are those the graph has (`ReadComplete`); and what was named is seen
(`NamedSeen`, `NodeFirst`). The last rests on `NodeOfferedFirst`: the node scores its similarity
and proximity in full, another at least a hop away scores no more than its proximity and weight
in full, and the sort is stable. TLC checked `RetrievalInv` first, all but `Sound` (480 000
states).

`Catalog_proofs` proves `TypeOK`, `NoNodeTwice`, `IdsKeepTheirNodes`, `ExportExact`,
`RelatedSearchExact`, `EdgeSearchExact`, `CsrMirrors`, `BfsExact` and `RestoreExact` for any
snapshots, names, types and bounds under `CatalogAssumption` and `OneAtATime`: `MaxPending` is
1, so no two ingests or imports overlap. A reader, a merge, or a request that failed between the
allocation of an ID and the push of its node may come in between. With `MaxPending = 2` pushes
come in another order, and `Catalog_ids_overlap.cfg`, and `Catalog_export_merge.cfg` with these
bounds, show the properties violated. `CatalogInv` says that what has an ID has it by the name
the ID was handed out for (`NameInv`: nodes, ends of edges, the importer's `name_to_id`), that
until a merge dies graph, drained batch and buffer follow each other without a gap (`PlaceInv`),
that what a reader saw of the graph is never taken back (`ReadInv`), and that no merge dies
before something was imported (`FullInv`). `NoNodeTwice` follows by sending each node that is
listed to the ID that it has now: a listed node of the old graph has it below those of the
buffer. TLC checked `CatalogInv` first (two merges, two imports, 5.3 million states). It also
holds after a merge died, when IDs leave gaps; the theorems about IDs, exports, searches and
imports then say nothing. Three facts carry the searches and the indices: what is read back from
the packed graph is a rearrangement of the edges that were packed (`PackingKeepsEdges`), the
slice of a node holds those of its edges and the reverse slice those that lead to it, and where
no two nodes share a name an ID is its name (`NamedOnce`). A search is then the selection of
edges by place that the callers' names give; its limit, `NoLimit`, is above anything it can
list. `BfsExact` is `BfsFindsNearest` told in names: a graph that was built from edges is one
the walk may take (`GraphWalks`), and the names of the nodes within k hops, by ID, are those
that `Ball` reaches in k steps over what callers linked (`BallIsWithin`). `RestoreExact` needs
an invariant of its own, `RestoreInv`, of how far a first import into an instance without nodes
is (`HalfRestored`): IDs were handed out for the file's names up to the importer's place
(`GaveNames`), `name_to_id` knows the same (`KnowsNames`), and the edges of graph, merge and
buffer say what the file's edges up to its place say, in some order (`Matches`). A merge
rearranges the edges and an imported edge adds one to both sides. The premise is that the file
is imported once: a second import does not find what is still in the delta and creates it again.

`IdAlloc_proofs` proves `TypeOK`, `UniqueIds`, `FreshIds` and `NoGaps` for any number of calls,
any widths and any graph, under `NoWrap`. `UniqueIds` needs two facts. While `n` calls fail the
counter is at least `n` beyond the limit (`BumpsCounted`), so putting one bump back never brings
it below an ID that was handed out; and everything handed out or seen is behind the counter
(`Behind`). `NoWrap` says that the counter has room above the limit for as many bumps as there
are calls. That is so for instances 0 to 254; the limit of instance 255 is the greatest 32-bit
integer, so a failing call wraps the counter to 0 and until it puts its bump back another call
gets 0.

`RateLimiter_proofs` proves `TypeOK`, `ImplementsPromise` and `WindowBound` for any keys, rates,
capacities and pruning times under `PruneAssumption` and `IdleAssumption`. The refinement maps
`Prune` and idle steps to stutters: a pruned bucket's level is the full one of a new bucket, and
a level refilled once for n ticks is the one refilled n times. `WindowBound` needs `Paid`: what
the window let through and what is left in the bucket are together paid for by a full bucket and
the refill of the window.

`QueryPath_proofs` proves `TypeOK`, `MergeDropsOldAnswers`, `MetricsBalance`, `StaleIsBounded`
and `ReadyIsRecent` for any number of requests and any times. The inductive invariant `PathInv`
has one part for each: `ReadyInv` (a reusable result that says "ready" was true at most a probe
before it was stored, whoever stored it), `RacedInv`, and `StaleInv` (a request that read an old
generation is in its last call, so that generation was replaced no longer ago than the call has
lasted; and an old answer in the cache was stored no later than one such call after). It also
proves `AnsweredInTime` for any timeouts and `max_hops`: each phase has a budget already spent
(`Spent`), linear in the hops used and nonlinear in the constants, and a step that leaves a
phase moves its wait into the budget of the next. A wait at a guard is bounded because who waits
behind a queued swap has waited no longer than whoever resolves names (`QueueInv`): that one had
its guard before the swap queued, and a swap does not queue before a reader that waits already.
The bound rests on what the model says of merges, that they follow one another, and excludes the
time behind a swap that is stuck, for which the code has no bound (`swap_deadlock`).

The lemmas of `Engine_proofs` go from sequences to the operators of `DeltaStore`
(`MergedNodesProperties`, `RemappedEdgesProperties`, `ReadableProperties`), to the state
functions of `Engine`, to one lemma per group of actions.

Only model-checked: the liveness properties `MergeCompletes` and `EveryoneFinishes` and the part
of `ImplementsKnowledgeGraph` that every request is answered (liveness under fairness is beyond
the prover). Every other property that a passing run checks has a theorem; that of
`WholeFilesLoad` has fewer faults than the run.

## Not modelled

* `EmbedCache` maps indices to vectors and is never invalidated, which is right while merges
  keep every index and its vector (`GraphNodesStable`, `IndicesAgree`).
* The Unix transport of the plugin client, extraction, image storage, and the part of ingest
  before its read locks; entities and relations without an embedding that come from an ingest.
* The recall of the HNSW indices; ties in a sort of NaN weights.
* The label files beside `edges.bin` (one file with it here), byte formats.
* Several instances that share one directory and so one `delta.wal`.
* `ApiKeys` and the index by external ID, which no route uses.
* Histograms, gauges and the rendering of metrics; configuration, validation, routing, DTOs and
  error mapping have no behaviour of their own.
* The Python plugins are stateless services.

What the code does and no property speaks of: an import does not start the merge that an ingest
of its size would; it looks for existing names in the main graph only, so a node still in the
delta is created again; two concurrent ingests of one new entity both create it; the buckets of
the public limiter are never dropped. `ingest_text` pairs entities with vectors up to the
shorter of the two lists, so a plugin that answers fewer vectors has the last entities left out,
and entities without an ID share the empty key, under which relations find the last of them
(`ingest.rs` 137, 178).

## Plan

Written, in this order: `DeltaStore`, `Engine` and its proofs, `Locks`, `HotSwap`, `IdAlloc` and
its proofs, `CsrGraph`, `Catalog`, `TokenBucket`, `RateLimiter` and its proofs, `QueryPath` and
its proofs, `Retrieval`, `KnowledgeGraph` and `EngineRefinement`, and the proofs of
`EngineRefinement`, `HotSwap`, `Catalog`, `CsrGraph` and `Retrieval`. What would come next: the
alignment of vectors through extraction and embedding in ingest, and the Unix transport.
