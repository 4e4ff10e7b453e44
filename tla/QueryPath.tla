----------------------------- MODULE QueryPath -----------------------------
(***************************************************************************)
(* A query from its handler to its answer: the readiness cache of the      *)
(* plugin client (src/core/src/plugin.rs), the handlers                    *)
(* (src/core/src/api/handlers/query.rs), the engine's pipelines and its    *)
(* cache of answers (src/core/src/query.rs), racing the swap of a merge    *)
(* and its invalidation (src/core/src/app_state.rs), a plugin that goes up *)
(* and down, clients that leave, and time.  Local work takes less than a   *)
(* tick: time passes only while every request waits for the plugin or for  *)
(* a lock, and no call outlives its timeout (the HTTP transport; unix_post *)
(* is not modelled here).  What an answer says is reduced to the           *)
(* generation of the indices it was computed from.  Of the locks they are  *)
(* read under this module has what costs time: a swap that waits for the   *)
(* graph holds up whoever comes after it, and it can get stuck on its way  *)
(* through the other three; HotSwap has them one by one.  Merges follow    *)
(* one another, and each takes a tick at least.                            *)
(***************************************************************************)
EXTENDS Naturals, FiniteSets

CONSTANTS Requests,       \* concurrent requests
          Shapes,         \* the requests clients send: [kind, llm, hints]
          HealthTTL,      \* ticks a readiness result is reused
          HealthTimeout,  \* timeouts of the plugin's routes, in ticks
          EmbedTimeout,
          GenerateTimeout,
          MaxNames,       \* follow-up names the plugin may ask for
          MaxHops,        \* max_hops of the multi-hop requests
          QueryTTL,       \* ticks an answer stays in the cache
          NodeSince,      \* the generation that first holds the node asked for
          MaxRequests,    \* bound: requests sent
          MaxMerges,      \* bound: merges
          MaxFlips        \* bound: times the plugin goes up or down

Kinds == {"text", "vector", "node", "multihop", "image"}

ASSUME PathAssumption ==
    /\ IsFiniteSet(Requests) /\ Shapes # {}
    /\ Shapes \subseteq [kind : Kinds, llm : BOOLEAN, hints : BOOLEAN]
    /\ \A s \in Shapes : s.kind \in {"node", "multihop"} => ~s.hints
    /\ \A s \in Shapes : (s.kind = "node" => ~s.llm) /\ (s.kind = "multihop" => s.llm)
    /\ {HealthTTL, HealthTimeout, EmbedTimeout, GenerateTimeout, QueryTTL,
        MaxNames} \subseteq Nat \ {0}
    /\ {MaxHops, NodeSince, MaxRequests, MaxMerges, MaxFlips} \subseteq Nat

VARIABLES up, upAge, flips,   \* the plugin; ticks since it was last up
          health,             \* health_cache: a set of at most one result
          req,                \* per request: phase, shape, wait, gen, hops, age
          cache,              \* QueryCache: [key, gen, raced, age]
          gen, replaced,      \* the generation served; ticks since each was replaced
          swap,               \* run_merge: queued for the graph, stuck in the locks after
                              \* it, or done and not yet invalidated
          stuck,              \* requests whose guard of edge_hnsw a stuck swap waits for
          metrics             \* the counters, and history: cancelled requests

plugin == <<up, upAge, flips>>
merge == <<gen, replaced, swap, stuck>>
vars == <<plugin, health, req, cache, merge, metrics>>

(* Who resolves names keeps its guard of the graph across the calls of the *)
(* plugin, and so long may others wait for a swap that waits for it.       *)
LockWait == MaxNames * EmbedTimeout

(* Phases in which a request awaits the plugin, and for how long at most.  *)
Limit == [probe |-> HealthTimeout, embed |-> EmbedTimeout, image |-> EmbedTimeout,
          resolve |-> LockWait,
          reason |-> GenerateTimeout, generate |-> GenerateTimeout]
Calls == DOMAIN Limit
Local == {"check", "exists", "lookup", "search", "pipeline", "retrieve", "follow", "store"}

(* Phases that begin with a guard of the graph.                            *)
GraphReaders == {"exists", "pipeline", "retrieve", "follow"}

AtMost(n, max) == IF n < max THEN n ELSE max
(* Bounds: longer times are not told apart by any guard or property.       *)
LongestUp == HealthTTL + HealthTimeout + LockWait + GenerateTimeout + 1
LongestStale == QueryTTL + GenerateTimeout + 1

NeedsPlugin(s) == s.kind \in {"text", "multihop", "image"} \/ (s.kind = "vector" /\ s.llm)

(* Where a request goes once the handler lets it into the engine.          *)
Entered(s) == CASE s.kind = "text"     -> IF s.hints THEN "embed" ELSE "lookup"
                [] s.kind = "node"     -> "exists"
                [] s.kind = "vector"   -> "search"
                [] s.kind = "multihop" -> "embed"
                [] s.kind = "image"    -> "image"

(* Options that do not serialize skip the cache as hints do.               *)
Cacheable(s) == s.kind \in {"text", "node"} /\ ~s.hints
Key(s) == <<s.kind, s.llm>>
Cached(s) == {e \in cache : e.key = Key(s)}

Go(r, phase) == req' = [req EXCEPT ![r].phase = phase, ![r].wait = 0]

(* The handler returns: the slot is free for another request.              *)
Entering(s, phase) == [phase |-> phase, shape |-> s, wait |-> 0,
                         gen |-> 0, hops |-> 0, age |-> 0]
Free == Entering(CHOOSE s \in Shapes : TRUE, "idle")
Leave(r, counter) ==
    /\ req' = [req EXCEPT ![r] = Free]
    /\ metrics' = [metrics EXCEPT ![counter] = @ + 1]

Fail(r) == Leave(r, "failed")

(* A call may succeed if the plugin was up at some moment of it, and may   *)
(* fail at any time.                                                       *)
CanSucceed(r) == upAge <= req[r].wait

(* tokio's locks are fair: a swap that is queued for the graph, or holds   *)
(* it, keeps new readers out.  A stuck swap holds hnsw as well.            *)
Blocked(r) ==
    \/ req[r].phase \in GraphReaders /\ swap \in {"queued", "stuck"}
    \/ req[r].phase = "search" /\ swap = "stuck"
Resolving == {r \in Requests : req[r].phase = "resolve"}

Init ==
    /\ up \in BOOLEAN /\ upAge = IF up THEN 0 ELSE LongestUp
    /\ flips = 0
    /\ health = {}
    /\ req = [r \in Requests |-> Free]
    /\ cache = {}
    /\ gen = 0 /\ replaced = [g \in 0..MaxMerges |-> 0]
    /\ swap = "none" /\ stuck = {}
    /\ metrics = [total |-> 0, failed |-> 0, hits |-> 0, misses |-> 0, cancelled |-> 0]

-----------------------------------------------------------------------------
(* The handlers.                                                           *)

Begin(r, s) ==
    /\ req[r].phase = "idle"
    /\ metrics.total < MaxRequests
    /\ metrics' = [metrics EXCEPT !.total = @ + 1]
    /\ req' = [req EXCEPT ![r] = Entering(s, IF NeedsPlugin(s) THEN "check" ELSE Entered(s))]
    /\ UNCHANGED <<plugin, health, cache, merge>>

Proceed(r, ready) ==
    \/ ready /\ Go(r, Entered(req[r].shape)) /\ UNCHANGED metrics
    \/ ~ready /\ Fail(r)

(* A plausible slip: reusing a result renews it.                           *)
CheckReadyRenews(r) ==
    /\ req[r].phase = "check"
    /\ \/ \E h \in health : /\ h.age < HealthTTL
                            /\ Proceed(r, h.ready)
                            /\ health' = {[h EXCEPT !.age = 0]}
       \/ /\ \A h \in health : h.age >= HealthTTL
          /\ Go(r, "probe")
          /\ UNCHANGED <<metrics, health>>
    /\ UNCHANGED <<plugin, cache, merge>>

(* check_ready: a recent result is reused as it is, otherwise the plugin   *)
(* is asked without the mutex: requests may ask at the same time.          *)
CheckReady(r) ==
    /\ req[r].phase = "check"
    /\ \/ \E h \in health : h.age < HealthTTL /\ Proceed(r, h.ready)
       \/ /\ \A h \in health : h.age >= HealthTTL
          /\ Go(r, "probe")
          /\ UNCHANGED metrics
    /\ UNCHANGED <<plugin, health, cache, merge>>

(* The answer of the probe is stored with the time it arrived, over        *)
(* whatever another probe has stored meanwhile.                            *)
ProbeEnd(r) ==
    /\ req[r].phase = "probe"
    /\ \E ready \in BOOLEAN :
         /\ ready => CanSucceed(r)
         /\ health' = {[ready |-> ready, age |-> 0]}
         /\ Proceed(r, ready)
    /\ UNCHANGED <<plugin, cache, merge>>

(* A plausible slip: the handler does not count this failure.              *)
ImageEndUncounted(r) ==
    /\ req[r].phase = "image"
    /\ \/ CanSucceed(r) /\ Go(r, "search")
       \/ req' = [req EXCEPT ![r] = Free]
    /\ UNCHANGED <<plugin, health, cache, merge, metrics>>

(* embed_image of the image handler.                                       *)
ImageEnd(r) ==
    /\ req[r].phase = "image"
    /\ \/ CanSucceed(r) /\ Go(r, "search") /\ UNCHANGED metrics
       \/ Fail(r)
    /\ UNCHANGED <<plugin, health, cache, merge>>

-----------------------------------------------------------------------------
(* The engine.                                                             *)

(* query_from_node refuses an index beyond the graph before its lookup.    *)
Exists(r) ==
    /\ req[r].phase = "exists" /\ ~Blocked(r)
    /\ \/ gen >= NodeSince /\ Go(r, "lookup") /\ UNCHANGED metrics
       \/ gen < NodeSince /\ Fail(r)
    /\ UNCHANGED <<plugin, health, cache, merge>>

Miss(r) ==
    /\ Cached(req[r].shape) = {}
    /\ Go(r, IF req[r].shape.kind = "text" THEN "embed" ELSE "pipeline")
    /\ UNCHANGED metrics

(* A plausible slip: time_to_idle in the place of time_to_live.            *)
LookupRenews(r) ==
    /\ req[r].phase = "lookup"
    /\ \/ /\ Cached(req[r].shape) # {}
          /\ cache' = {IF e.key = Key(req[r].shape) THEN [e EXCEPT !.age = 0] ELSE e : e \in cache}
          /\ Leave(r, "hits")
       \/ Miss(r) /\ UNCHANGED cache
    /\ UNCHANGED <<plugin, health, merge>>

Lookup(r) ==
    /\ req[r].phase = "lookup"
    /\ \/ Cached(req[r].shape) # {} /\ Leave(r, "hits")
       \/ Miss(r)
    /\ UNCHANGED <<plugin, health, cache, merge>>

EmbedEnd(r) ==
    /\ req[r].phase = "embed"
    /\ \/ CanSucceed(r) /\ Go(r, "search") /\ UNCHANGED metrics
       \/ Fail(r)
    /\ UNCHANGED <<plugin, health, cache, merge>>

(* search_hnsw: the first of the indices a query reads.                    *)
Search(r) ==
    /\ req[r].phase = "search" /\ ~Blocked(r)
    /\ req' = [req EXCEPT ![r].gen = gen,
                 ![r].phase = IF req[r].shape.kind = "multihop" THEN "retrieve" ELSE "pipeline"]
    /\ UNCHANGED <<plugin, health, cache, merge, metrics>>

(* run_pipeline up to its call: the graph and the store, which may be      *)
(* newer than the indices searched.                                        *)
Pipeline(r) ==
    /\ req[r].phase = "pipeline" /\ ~Blocked(r)
    /\ req' = [req EXCEPT ![r].gen = IF req[r].shape.kind = "node" THEN gen ELSE @,
                 ![r].wait = 0,
                 ![r].phase = IF req[r].shape.llm THEN "generate" ELSE "store"]
    /\ UNCHANGED <<plugin, health, cache, merge, metrics>>

GenerateEnd(r) ==
    /\ req[r].phase = "generate"
    /\ \/ CanSucceed(r) /\ Go(r, "store") /\ UNCHANGED metrics
       \/ Fail(r)
    /\ UNCHANGED <<plugin, health, cache, merge>>

(* The answer is cached, whatever happened to the indices since they were  *)
(* read, and the handler counts a miss.                                    *)
Store(r) ==
    LET s == req[r].shape
        entry == [key |-> Key(s), gen |-> req[r].gen, raced |-> req[r].gen # gen, age |-> 0]
    IN  /\ req[r].phase = "store"
        /\ cache' = IF Cacheable(s) THEN (cache \ Cached(s)) \cup {entry} ELSE cache
        /\ Leave(r, "misses")
        /\ UNCHANGED <<plugin, health, merge>>

(* retrieve_context of a multi-hop query.                                  *)
Retrieve(r) ==
    /\ req[r].phase = "retrieve" /\ ~Blocked(r)
    /\ Go(r, "reason")
    /\ UNCHANGED <<plugin, health, cache, merge, metrics>>

(* A plausible slip: one hop too many.                                     *)
ReasonEndOneMore(r) ==
    /\ req[r].phase = "reason"
    /\ \/ CanSucceed(r) /\ Go(r, "store") /\ UNCHANGED metrics
       \/ /\ CanSucceed(r) /\ req[r].hops <= MaxHops
          /\ req' = [req EXCEPT ![r].phase = "follow", ![r].wait = 0, ![r].hops = @ + 1]
          /\ UNCHANGED metrics
       \/ Fail(r)
    /\ UNCHANGED <<plugin, health, cache, merge>>

(* The plugin is done, or names entities to look at: one hop more, unless  *)
(* the limit is reached, when its answer is taken as it is.                *)
ReasonEnd(r) ==
    /\ req[r].phase = "reason"
    /\ \/ CanSucceed(r) /\ Go(r, "store") /\ UNCHANGED metrics
       \/ /\ CanSucceed(r) /\ req[r].hops < MaxHops
          /\ req' = [req EXCEPT ![r].phase = "follow", ![r].wait = 0, ![r].hops = @ + 1]
          /\ UNCHANGED metrics
       \/ Fail(r)
    /\ UNCHANGED <<plugin, health, cache, merge>>

(* resolve_entity_names takes the guard of the graph that it keeps.        *)
Follow(r) ==
    /\ req[r].phase = "follow" /\ ~Blocked(r)
    /\ Go(r, "resolve")
    /\ UNCHANGED <<plugin, health, cache, merge, metrics>>

(* A plausible slip: the names are asked for again when a call has failed. *)
ResolveEndRetries(r) ==
    /\ req[r].phase = "resolve"
    /\ \/ CanSucceed(r) /\ Go(r, "retrieve")
       \/ Go(r, "resolve")
    /\ UNCHANGED <<plugin, health, cache, merge, metrics>>

(* resolve_entity_names embeds the names one by one; a failed call only    *)
(* loses its name.  Without any hit the answer is generated at once.       *)
ResolveEnd(r) ==
    /\ req[r].phase = "resolve"
    /\ \/ CanSucceed(r) /\ Go(r, "retrieve")
       \/ Go(r, "generate")
    /\ UNCHANGED <<plugin, health, cache, merge, metrics>>

(* The client leaves: the handler is dropped at the await it is in, and    *)
(* the guards it holds with it.                                            *)
Cancel(r) ==
    /\ req[r].phase \in Calls \/ Blocked(r)
    /\ Leave(r, "cancelled")
    /\ stuck' = stuck \ {r}
    /\ UNCHANGED <<plugin, health, cache, gen, replaced, swap>>

-----------------------------------------------------------------------------
(* The merge, the cache's own evictions, the plugin and time.              *)

(* run_merge comes to graph.write, behind those who wait for the graph.    *)
QueueSwap ==
    /\ swap = "none" /\ gen < MaxMerges
    /\ \A g \in 0..gen - 1 : replaced[g] > 0
    /\ \A r \in Requests : req[r].phase \in GraphReaders => req[r].wait = 0
    /\ swap' = "queued"
    /\ UNCHANGED <<plugin, health, req, cache, gen, replaced, stuck, metrics>>

(* It has the graph and hnsw, while the joined reads of search_hnsw have   *)
(* edge_hnsw and are queued for hnsw: neither goes on.                     *)
SwapGetsStuck ==
    /\ swap = "queued" /\ Resolving = {}
    /\ stuck' \in SUBSET {r \in Requests : req[r].phase = "search"} \ {{}}
    /\ swap' = "stuck"
    /\ UNCHANGED <<plugin, health, req, cache, gen, replaced, metrics>>

(* A merge that a client asked for ends when the client leaves.            *)
SwapGivenUp ==
    /\ swap \in {"queued", "stuck"}
    /\ swap' = "none" /\ stuck' = {}
    /\ UNCHANGED <<plugin, health, req, cache, gen, replaced, metrics>>

CanSwap ==
    \/ swap = "queued" /\ Resolving = {}
    \/ swap = "stuck" /\ stuck = {}

(* A plausible slip: invalidated before the swap, not after it.            *)
SwapAfterInvalidation ==
    /\ CanSwap
    /\ gen' = gen + 1
    /\ swap' = "none"
    /\ UNCHANGED <<plugin, health, req, cache, replaced, stuck, metrics>>

(* All four write locks are held and the indices replaced.                 *)
Swap ==
    /\ CanSwap
    /\ gen' = gen + 1
    /\ swap' = "done"
    /\ UNCHANGED <<plugin, health, req, cache, replaced, stuck, metrics>>

Invalidate ==
    /\ swap = "done"
    /\ swap' = "none"
    /\ cache' = {}
    /\ UNCHANGED <<plugin, health, req, gen, replaced, stuck, metrics>>

(* max_capacity of the cache.                                              *)
Evict ==
    /\ \E e \in cache : cache' = cache \ {e}
    /\ UNCHANGED <<plugin, health, req, merge, metrics>>

Flip ==
    /\ flips < MaxFlips
    /\ flips' = flips + 1
    /\ up' = ~up
    /\ upAge' = 0
    /\ UNCHANGED <<health, req, cache, merge, metrics>>

Waiting(r) == req[r].phase \in Calls /\ req[r].wait < Limit[req[r].phase]

(* Behind a stuck swap nobody counts the time: only clients that leave end *)
(* it.                                                                     *)
Counts(r) == req[r].phase # "idle" /\ ~(Blocked(r) /\ swap = "stuck")

Tick ==
    /\ \A r \in Requests : req[r].phase = "idle" \/ Waiting(r) \/ Blocked(r)
    /\ swap # "done" /\ ~CanSwap
    /\ req' = [r \in Requests |-> IF Counts(r) THEN [req[r] EXCEPT !.wait = @ + 1, !.age = @ + 1]
                                  ELSE req[r]]
    /\ upAge' = IF up THEN 0 ELSE AtMost(upAge + 1, LongestUp)
    /\ health' = {[h EXCEPT !.age = AtMost(@ + 1, HealthTTL)] : h \in health}
    /\ cache' = {[e EXCEPT !.age = @ + 1] : e \in {e \in cache : e.age + 1 < QueryTTL}}
    /\ replaced' = [g \in 0..MaxMerges |->
                      IF g < gen THEN AtMost(replaced[g] + 1, LongestStale) ELSE 0]
    /\ UNCHANGED <<up, flips, gen, swap, stuck, metrics>>

Step(r) == \/ CheckReady(r) \/ ProbeEnd(r) \/ ImageEnd(r)
           \/ Exists(r) \/ Lookup(r) \/ EmbedEnd(r) \/ Search(r) \/ Pipeline(r)
           \/ GenerateEnd(r) \/ Retrieve(r) \/ ReasonEnd(r) \/ Follow(r) \/ ResolveEnd(r)
           \/ Store(r)

Next == \/ \E r \in Requests : Step(r) \/ Cancel(r) \/ \E s \in Shapes : Begin(r, s)
        \/ QueueSwap \/ SwapGetsStuck \/ SwapGivenUp \/ Swap \/ Invalidate
        \/ Evict \/ Flip \/ Tick

Spec == Init /\ [][Next]_vars

-----------------------------------------------------------------------------
LongestWait(phase) == IF phase \in Calls THEN Limit[phase]
                      ELSE IF phase \in GraphReaders THEN LockWait ELSE 0

(* The shape of the state: a key has one answer, no call outlives its      *)
(* timeout, no one waits for the graph longer than another resolves its    *)
(* names, and no multi-hop query goes past max_hops.                       *)
TypeOK ==
    /\ up \in BOOLEAN /\ upAge \in 0..LongestUp /\ flips \in 0..MaxFlips
    /\ health \subseteq [ready : BOOLEAN, age : 0..HealthTTL] /\ Cardinality(health) <= 1
    /\ \A r \in Requests :
         /\ req[r].phase \in {"idle"} \cup Local \cup Calls
         /\ req[r].shape \in Shapes /\ req[r].gen \in 0..gen /\ req[r].hops \in 0..MaxHops
         /\ req[r].age \in Nat
         /\ req[r].wait \in 0..LongestWait(req[r].phase)
    /\ \A e \in cache : /\ e.key \in {Key(s) : s \in Shapes} /\ e.raced \in BOOLEAN
                        /\ e.gen \in 0..gen /\ e.age \in 0..QueryTTL - 1
                        /\ \A f \in cache : f.key = e.key => f = e
    /\ gen \in 0..MaxMerges /\ replaced \in [0..MaxMerges -> 0..LongestStale]
    /\ swap \in {"none", "queued", "stuck", "done"}
    /\ \A r \in stuck : swap = "stuck" /\ req[r].phase = "search"
    /\ metrics \in [{"total", "failed", "hits", "misses", "cancelled"} -> 0..MaxRequests]

(* A merge leaves no answer in the cache that was right when it was put    *)
(* there: once it has invalidated (app_state.rs:188), an answer of an old  *)
(* generation is one whose query had read before the swap and inserted     *)
(* after it (query.rs:229, 285).                                           *)
MergeDropsOldAnswers ==
    swap # "done" => \A e \in cache : e.gen < gen => e.raced

(* Even such an answer is not served for ever: what a hit serves was       *)
(* computed from indices replaced less than the cache's time to live and   *)
(* one call of the plugin ago, however often it is asked for.              *)
StaleIsBounded ==
    [][\A r \in Requests :
         LET s == req[r].shape IN
         metrics'.hits > metrics.hits /\ req[r].phase = "lookup" /\ req'[r].phase = "idle"
           => \A e \in Cached(s) :
                e.gen < gen => replaced[e.gen] < QueryTTL + GenerateTimeout]_vars

(* check_ready lets a request through only if the plugin was up at most    *)
(* the reuse of a result and the time of a probe ago, though concurrent    *)
(* probes overwrite each other's results (plugin.rs:363-366).              *)
ReadyIsRecent ==
    [][\A r \in Requests :
         req[r].phase \in {"check", "probe"} /\ req'[r].phase = Entered(req[r].shape)
           => upAge < HealthTTL + HealthTimeout]_vars

InFlight == {r \in Requests : req[r].phase # "idle"}

(* GET /metrics accounts for every query: it failed, hit, missed, is in    *)
(* flight, or its client left (no counter tells).                          *)
MetricsBalance ==
    metrics.total = metrics.failed + metrics.hits + metrics.misses + metrics.cancelled
                      + Cardinality(InFlight)

(* The guards of the graph that a query of a kind takes one after another. *)
Guards(s) == CASE s.kind = "node"     -> 2
               [] s.kind = "multihop" -> 2 * MaxHops + 1
               [] OTHER               -> 1

(* A query is answered within the timeouts of the calls its kind may make  *)
(* and a wait for another's calls at each guard of the graph (query.rs:556 *)
(* keeps one across them, app_state.rs:180 queues behind it), but for the  *)
(* time in which it is behind a swap that is stuck (query.rs:407), which   *)
(* has no bound.  A multi-hop query asks the plugin to reason once more    *)
(* than max_hops; since Tick waits for local work, a query that local work *)
(* cannot take to its end is a deadlock.                                   *)
Budget(s) ==
    Guards(s) * LockWait
  + (IF NeedsPlugin(s) THEN HealthTimeout ELSE 0)
  + (IF s.kind \in {"text", "multihop", "image"} THEN EmbedTimeout ELSE 0)
  + (IF s.kind = "multihop"
     THEN (MaxHops + 1) * GenerateTimeout + MaxHops * MaxNames * EmbedTimeout ELSE 0)
  + (IF s.llm THEN GenerateTimeout ELSE 0)

AnsweredInTime == \A r \in Requests : req[r].age <= Budget(req[r].shape)
=============================================================================
