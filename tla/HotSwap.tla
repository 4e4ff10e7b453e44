-------------------------------- MODULE HotSwap --------------------------------
(***************************************************************************)
(* The hot swap of run_merge against the requests that read what it swaps. *)
(*                                                                         *)
(* A task is a run of one handler of the code, written as the sequence of  *)
(* the lock operations it makes and of the steps that read or replace what *)
(* the locks protect.  gen counts the swaps that reached an index.         *)
(***************************************************************************)
EXTENDS Locks

CONSTANT Kind   \* what each task runs

Kinds == {"text", "multihop", "node", "ingest", "node_lookup", "edge_search",
          "stats", "merge"}

ASSUME KindAssumption == Kind \in [Tasks -> Kinds]

VARIABLES
    at,      \* per task: the next step of its program
    gen,     \* per index: how many swaps replaced it
    seeds,   \* per task: the generation of the HNSW its seeds come from
    scored   \* per task: the generation of the graph it scored last

vars == <<lockVars, at, gen, seeds, scored>>

-----------------------------------------------------------------------------
(***************************************************************************)
(* Programs: sequences of <<operation, lock>>.  "join" is a read() that is *)
(* polled together with the one before it, and does not wait for its       *)
(* guard.  "call" is a request to the plugin.                              *)
(***************************************************************************)
\* search_hnsw
Search == << <<"read", "hnsw">>, <<"join", "edge_hnsw">>, <<"search", "hnsw">>,
             <<"drop", "edge_hnsw">>, <<"drop", "hnsw">> >>

\* The locked part of run_pipeline, and all of retrieve_context.
Retrieve == << <<"read", "graph">>, <<"read", "store">>, <<"score", "graph">>,
               <<"drop", "store">>, <<"drop", "graph">> >>

\* resolve_entity_names for one name: the graph's guard outlives the call.
ResolveNames == << <<"read", "graph">>, <<"call", "plugin">>, <<"read", "hnsw">>,
                   <<"search", "hnsw">>, <<"drop", "hnsw">>, <<"drop", "graph">> >>

Call == << <<"call", "plugin">> >>

TextQuery == Call \o Search \o Retrieve \o Call

NodeQuery == << <<"read", "graph">>, <<"drop", "graph">> >> \o Retrieve \o Call

\* One hop: initial retrieval, one follow-up, and the answer.
MultihopQuery ==
    Call \o Search \o Retrieve \o Call \o ResolveNames \o Retrieve \o Call

\* Resolution, add_nodes_batch, add_edges_batch, size(), needs_merge().
Ingest ==
    << <<"read", "graph">>, <<"read", "hnsw">>, <<"read", "delta">>,
       <<"drop", "delta">>, <<"drop", "hnsw">>, <<"drop", "graph">>,
       <<"write", "delta">>, <<"drop", "delta">>,
       <<"write", "delta">>, <<"drop", "delta">>,
       <<"read", "delta">>, <<"drop", "delta">>,
       <<"read", "delta">>, <<"drop", "delta">> >>

NodeLookup == << <<"read", "graph">>, <<"drop", "graph">>,
                 <<"read", "delta">>, <<"drop", "delta">> >>

EdgeSearch == << <<"read", "graph">>, <<"drop", "graph">>,
                 <<"read", "graph">>, <<"read", "delta">>,
                 <<"drop", "delta">>, <<"drop", "graph">> >>

\* The three guards of the delta are temporaries of one expression.
GraphStats == << <<"read", "graph">>, <<"read", "delta">>, <<"read", "delta">>,
                 <<"read", "delta">>, <<"drop", "delta">>, <<"drop", "graph">> >>

\* Mutants: each index is swapped under its own lock alone; the locks are
\* taken in the opposite order.
MergeOneByOne ==
    << <<"read", "graph">>, <<"drop", "graph">>, <<"write", "delta">>, <<"drop", "delta">>,
       <<"write", "graph">>, <<"put", "graph">>, <<"drop", "graph">>,
       <<"write", "hnsw">>, <<"put", "hnsw">>, <<"drop", "hnsw">>,
       <<"write", "edge_hnsw">>, <<"put", "edge_hnsw">>, <<"drop", "edge_hnsw">>,
       <<"write", "store">>, <<"put", "store">>, <<"drop", "store">> >>
MergeHnswFirst ==
    << <<"read", "graph">>, <<"drop", "graph">>, <<"write", "delta">>, <<"drop", "delta">>,
       <<"write", "hnsw">>, <<"put", "hnsw">>, <<"drop", "hnsw">>,
       <<"write", "graph">>, <<"put", "graph">>, <<"drop", "graph">>,
       <<"write", "edge_hnsw">>, <<"put", "edge_hnsw">>, <<"drop", "edge_hnsw">>,
       <<"write", "store">>, <<"put", "store">>, <<"drop", "store">> >>
MergeBackwards ==
    << <<"read", "graph">>, <<"drop", "graph">>, <<"write", "delta">>, <<"drop", "delta">>,
       <<"write", "store">>, <<"write", "edge_hnsw">>, <<"write", "hnsw">>, <<"write", "graph">>,
       <<"put", "graph">>, <<"put", "hnsw">>, <<"put", "edge_hnsw">>, <<"put", "store">>,
       <<"drop", "graph">>, <<"drop", "hnsw">>, <<"drop", "edge_hnsw">>, <<"drop", "store">> >>

\* run_merge: the clone of the base graph, the drain, and the swap.
Merge ==
    << <<"read", "graph">>, <<"drop", "graph">>, <<"write", "delta">>, <<"drop", "delta">>,
       <<"write", "graph">>, <<"write", "hnsw">>, <<"write", "edge_hnsw">>, <<"write", "store">>,
       <<"put", "graph">>, <<"put", "hnsw">>, <<"put", "edge_hnsw">>, <<"put", "store">>,
       <<"drop", "graph">>, <<"drop", "hnsw">>, <<"drop", "edge_hnsw">>, <<"drop", "store">> >>

Program == [k \in Kinds |->
    CASE k = "text"        -> TextQuery
      [] k = "multihop"    -> MultihopQuery
      [] k = "node"        -> NodeQuery
      [] k = "ingest"      -> Ingest
      [] k = "node_lookup" -> NodeLookup
      [] k = "edge_search" -> EdgeSearch
      [] k = "stats"       -> GraphStats
      [] k = "merge"       -> Merge]

-----------------------------------------------------------------------------
Done(t) == at[t] > Len(Program[Kind[t]])
NextOp(t) == Program[Kind[t]][at[t]]
Does(t, op) == ~ Done(t) /\ NextOp(t)[1] = op /\ (op # "join" => ~ Waits(t))
Subject(t) == NextOp(t)[2]
Goes(t) == at' = [at EXCEPT ![t] = @ + 1]

Lock(t) ==
    /\ \/ (Does(t, "read") \/ Does(t, "join")) /\ Acquire(t, Subject(t), "read")
       \/ Does(t, "write") /\ Acquire(t, Subject(t), "write")
    /\ Goes(t)
    /\ UNCHANGED <<gen, seeds, scored>>

Drop(t) ==
    /\ Does(t, "drop")
    /\ Release(t, Subject(t))
    /\ Goes(t)
    /\ UNCHANGED <<gen, seeds, scored>>

CallReturns(t) ==
    /\ Does(t, "call")
    /\ Goes(t)
    /\ UNCHANGED <<lockVars, gen, seeds, scored>>

SearchIndex(t) ==
    /\ Does(t, "search")
    /\ seeds' = [seeds EXCEPT ![t] = gen["hnsw"]]
    /\ Goes(t)
    /\ UNCHANGED <<lockVars, gen, scored>>

Score(t) ==
    /\ Does(t, "score")
    /\ scored' = [scored EXCEPT ![t] = gen["graph"]]
    /\ Goes(t)
    /\ UNCHANGED <<lockVars, gen, seeds>>

Put(t) ==
    /\ Does(t, "put")
    /\ gen' = [gen EXCEPT ![Subject(t)] = @ + 1]
    /\ Goes(t)
    /\ UNCHANGED <<lockVars, seeds, scored>>

\* A plugin call fails, or the client hangs up while its handler awaits: the
\* guards of an index or a call, never the delta's (its lock blocks a thread).
\* A merge that POST /delta/merge runs ends with its client, wherever it waits.
GivesUp(t) ==
    /\ ~ Done(t)
    /\ \/ NextOp(t)[1] = "call"
       \/ \E l \in IndexLocks : WaitsFor(t, l)
    /\ Abandon(t)
    /\ at' = [at EXCEPT ![t] = Len(Program[Kind[t]]) + 1]
    /\ UNCHANGED <<gen, seeds, scored>>

Finished == (\A t \in Tasks : Done(t)) /\ UNCHANGED vars

Init ==
    /\ LocksInit
    /\ at = [t \in Tasks |-> 1]
    /\ gen = [l \in IndexLocks |-> 0]
    /\ seeds = [t \in Tasks |-> 0]
    /\ scored = [t \in Tasks |-> 0]

Step(t) == Lock(t) \/ Drop(t) \/ CallReturns(t) \/ SearchIndex(t) \/ Score(t) \/ Put(t)

ServeNext(l) == Serve(l) /\ UNCHANGED <<at, gen, seeds, scored>>

Next ==
    \/ \E t \in Tasks : Step(t) \/ GivesUp(t)
    \/ \E l \in Locks : ServeNext(l)
    \/ Finished

Spec == Init /\ [][Next]_vars

\* The runtime goes on polling tasks that are ready, the locks wake who waits, and
\* every plugin call ends by its timeout (over HTTP; the Unix transport has none on
\* its handshake and body).  Every program is finite: that some step is taken as
\* long as there is one is enough.
Progress == (\E t \in Tasks : Step(t)) \/ (\E l \in Locks : ServeNext(l))

FairSpec == Spec /\ WF_vars(Progress)

-----------------------------------------------------------------------------
(***************************************************************************)
(* Properties.                                                             *)
(***************************************************************************)
\* Every variable has its type and a write guard is the lock's only guard, as
\* run_merge relies on when it replaces what its four guards protect.
TypeOK ==
    /\ LocksTypeOK
    /\ at \in [Tasks -> Nat \ {0}]
    /\ gen \in [IndexLocks -> Nat]
    /\ seeds \in [Tasks -> Nat] /\ scored \in [Tasks -> Nat]
    /\ \A l \in Locks : writer[l] # Nobody => \A t \in Tasks : readers[l][t] = 0

\* run_merge: "prevents queries from observing partially-swapped state".  Two
\* indices that a handler holds at once are of one generation.
OneSnapshot ==
    \A t \in Tasks : \A l, m \in IndexLocks :
        readers[l][t] > 0 /\ readers[m][t] > 0 => gen[l] = gen[m]

\* The graph a query scores is no older than the HNSW that gave it its seeds,
\* though it lets go of the one before it takes the other: no seed is beyond it.
SeedsKnown == \A t \in Tasks : Does(t, "score") => seeds[t] <= gen["graph"]

\* search_hnsw polled both reads at once and got the later lock first; a second
\* guard of the delta is asked for under the first.
JoinInverted(t) == WaitsFor(t, "hnsw") /\ Holds(t, "edge_hnsw")
ReadsAgain(t) == WaitsFor(t, "delta") /\ Holds(t, "delta")

\* Every request and merge comes to an end, unless one of the two handlers that
\* ask out of order waits for ever.
EveryoneFinishes ==
    \/ <>(\A t \in Tasks : Done(t))
    \/ <>[](\E t \in Tasks : JoinInverted(t) \/ ReadsAgain(t))

\* t cannot get a lock before u lets go of it or has had it.
BlockedBy(t, u) ==
    \E l \in Locks : \E i \in DOMAIN queue[l] :
        /\ queue[l][i].task = t
        /\ \/ writer[l] = u
           \/ queue[l][i].mode = "write" /\ readers[l][u] > 0
           \/ \E j \in DOMAIN queue[l] :
                 /\ queue[l][j].task = u /\ queue[l][j].mode = "write"
                 /\ j < i \/ (l = "delta" /\ queue[l][i].mode = "read")

\* No tasks wait for each other in a circle, so a hot swap interrupts nobody for
\* longer than it takes.
NoWaitCycle ==
    \A S \in SUBSET Tasks :
        S # {} => \E t \in S : \A u \in S : ~ BlockedBy(t, u)

=============================================================================
