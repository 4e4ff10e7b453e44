-------------------------- MODULE QueryPath_proofs --------------------------
(***************************************************************************)
(* For any requests, timeouts and bounds of QueryPath: how old an answer   *)
(* of the cache and a readiness result can be, and where an old answer     *)
(* comes from.  PathInv is the inductive invariant; it has one part for    *)
(* each of these, beside the shape of the state.                           *)
(***************************************************************************)
EXTENDS QueryPath, FiniteSetTheorems, TLAPS

Phases == {"idle"} \cup Local \cup Calls
Hopping == {"retrieve", "reason", "follow", "resolve"}
Request == [phase : Phases, shape : Shapes, wait : Nat, gen : Nat,
            hops : 0..MaxHops, age : Nat]
Answer == [key : {Key(s) : s \in Shapes}, gen : Nat, raced : BOOLEAN, age : 0..QueryTTL - 1]

(* A request is shaped like one, waits no longer than its call may take or *)
(* another resolves its names, read no indices that are still to come, and *)
(* hops only if it is one that does.                                       *)
RequestOK(q) == /\ q \in Request
                /\ q.gen <= gen
                /\ q.phase \in Calls => q.wait <= Limit[q.phase]
                /\ q.phase \in GraphReaders => q.wait <= LockWait
                /\ q.phase \notin Calls \cup GraphReaders => q.wait = 0
                /\ q.phase \in Hopping => q.shape.kind = "multihop"

(* A swap is queued only while indices are left to come and those before   *)
(* were served for a tick; who waits behind it has waited no longer than   *)
(* whoever it waits for.                                                   *)
QueueInv ==
    /\ swap \in {"none", "queued", "stuck", "done"}
    /\ swap \in {"queued", "stuck"} =>
         /\ gen < MaxMerges
         /\ \A g \in 0..gen - 1 : replaced[g] > 0
    /\ swap = "queued" => \A r, h \in Requests :
         req[r].phase \in GraphReaders /\ req[h].phase = "resolve" => req[r].wait <= req[h].wait
    /\ stuck \subseteq Requests
    /\ \A r \in stuck : swap = "stuck" /\ req[r].phase = "search"

ShapeInv ==
    /\ up \in BOOLEAN /\ upAge \in 0..LongestUp /\ flips \in 0..MaxFlips
    /\ health \subseteq [ready : BOOLEAN, age : 0..HealthTTL]
    /\ \A h, j \in health : h = j
    /\ req \in [Requests -> Request] /\ \A r \in Requests : RequestOK(req[r])
    /\ cache \subseteq Answer
    /\ \A e \in cache : e.gen <= gen /\ \A f \in cache : f.key = e.key => f = e
    /\ gen \in 0..MaxMerges /\ replaced \in [0..MaxMerges -> 0..LongestStale]
    /\ QueueInv
    /\ metrics \in [{"total", "failed", "hits", "misses", "cancelled"} -> Nat]
    /\ metrics.total <= MaxRequests

(* The plugin was up within a probe's time before a result that says so.   *)
ReadyInv == \A h \in health : h.ready /\ h.age < HealthTTL => upAge <= HealthTimeout + h.age

(* An old answer raced with the swap, unless that is yet to be invalidated. *)
RacedInv == \A e \in cache : e.gen < gen => e.raced \/ swap = "done"

(* The indices an answer was computed from were replaced, if they were, no *)
(* longer ago than the answer's age and the call that wrote it.            *)
StaleRequest(q) ==
    q.shape.kind \in {"text", "node"} =>
        /\ q.phase = "pipeline" /\ q.shape.kind = "text" => replaced[q.gen] = 0
        /\ q.phase = "generate" => replaced[q.gen] <= q.wait
        /\ q.phase = "store" => replaced[q.gen] <= GenerateTimeout

StaleInv ==
    /\ \A g \in gen..MaxMerges : replaced[g] = 0
    /\ \A r \in Requests : StaleRequest(req[r])
    /\ \A e \in cache : replaced[e.gen] <= e.age + GenerateTimeout

PathInv == ShapeInv /\ ReadyInv /\ RacedInv /\ StaleInv /\ MetricsBalance

-----------------------------------------------------------------------------
(* The timeouts of the calls, and who waits for a lock.                    *)
LEMMA Timeouts ==
  /\ Calls = {"probe", "embed", "image", "resolve", "reason", "generate"}
  /\ Limit.probe = HealthTimeout /\ Limit.generate = GenerateTimeout
  /\ Limit.resolve = LockWait
  /\ \A c \in Calls : Limit[c] \in Nat
  /\ LockWait \in Nat
  /\ GraphReaders = {"exists", "pipeline", "retrieve", "follow"}
<1>1. LockWait \in Nat
  BY PathAssumption DEF LockWait
<1> QED
  BY <1>1, PathAssumption DEF Calls, Limit, GraphReaders

(* The bounds of the ages are numbers, and none is reached too early.      *)
LEMMA Longest == /\ LongestUp \in Nat /\ LongestStale \in Nat \ {0}
                 /\ HealthTimeout + HealthTTL <= LongestUp
<1>1. LockWait \in Nat
  BY Timeouts
<1> QED
  BY <1>1, PathAssumption DEF LongestUp, LongestStale

(* A free slot is shaped like a request.                                   *)
LEMMA FreeOK == Free \in Request /\ Free.phase = "idle" /\ Free.gen = 0 /\ Free.wait = 0
<1>1. (CHOOSE s \in Shapes : TRUE) \in Shapes
  BY PathAssumption
<1> QED
  BY <1>1, PathAssumption DEF Free, Entering, Request, Phases

-----------------------------------------------------------------------------
(* What a step of request r does to it, to the locks, and to the counters: *)
(* it goes on, it leaves and is counted, or it arrives and is counted.  It *)
(* begins to wait for the graph, and keeps it only if no swap is queued.   *)
Patient(q) == /\ q.phase \in GraphReaders => q.wait = 0
              /\ q.phase = "resolve" => swap # "queued"

Moves(r) == \E q : /\ RequestOK(q) /\ StaleRequest(q) /\ Patient(q)
                   /\ req' = [req EXCEPT ![r] = q]

LeavesLocks(r) == /\ UNCHANGED <<plugin, gen, replaced, swap>>
                  /\ stuck' \subseteq stuck \ {r}

Accounts(r) ==
    \/ /\ req[r].phase # "idle" /\ req'[r].phase # "idle"
       /\ metrics' = metrics
    \/ /\ req[r].phase # "idle" /\ req'[r].phase = "idle"
       /\ \E c \in {"failed", "hits", "misses", "cancelled"} :
            metrics' = [metrics EXCEPT ![c] = @ + 1]
    \/ /\ req[r].phase = "idle" /\ req'[r].phase # "idle"
       /\ metrics.total < MaxRequests
       /\ metrics' = [metrics EXCEPT !.total = @ + 1]

(* A request that goes on to another phase.                                *)
LEMMA GoMoves ==
  ASSUME ShapeInv, NEW r \in Requests, req[r].phase # "idle", NEW p \in Phases \ {"idle"},
         Go(r, p), metrics' = metrics, StaleRequest([req[r] EXCEPT !.phase = p, !.wait = 0]),
         p \in Hopping => req[r].shape.kind = "multihop",
         p = "resolve" => swap # "queued"
  PROVE  Moves(r) /\ Accounts(r)
<1> DEFINE q == [req[r] EXCEPT !.phase = p, !.wait = 0]
<1>1. req' = [req EXCEPT ![r] = q] /\ req'[r] = q
  BY DEF Go, ShapeInv
<1>2. req[r] \in Request /\ req[r].gen <= gen
  BY DEF ShapeInv, RequestOK
<1>3. /\ q \in Request /\ q.phase = p /\ q.wait = 0 /\ q.gen = req[r].gen
      /\ q.shape = req[r].shape
  BY <1>2 DEF Request
<1>4. RequestOK(q) /\ Patient(q)
  BY <1>2, <1>3, Timeouts DEF RequestOK, Patient
<1> QED
  BY <1>1, <1>3, <1>4 DEF Moves, Accounts

(* Only three phases say anything of the indices that were read.           *)
LEMMA GoOn ==
  ASSUME ShapeInv, NEW r \in Requests, req[r].phase # "idle",
         NEW p \in Phases \ {"idle", "pipeline", "generate", "store"},
         Go(r, p), metrics' = metrics,
         p \in Hopping => req[r].shape.kind = "multihop",
         p = "resolve" => swap # "queued"
  PROVE  Moves(r) /\ Accounts(r)
<1>1. [req[r] EXCEPT !.phase = p, !.wait = 0].phase = p
  BY DEF ShapeInv, RequestOK, Request
<1> QED
  BY <1>1, GoMoves DEF StaleRequest

(* A request that is answered, fails or is given up.                       *)
LEMMA LeaveMoves ==
  ASSUME ShapeInv, NEW r \in Requests, req[r].phase # "idle",
         NEW c \in {"failed", "hits", "misses", "cancelled"}, Leave(r, c)
  PROVE  Moves(r) /\ Accounts(r)
<1>1. RequestOK(Free) /\ StaleRequest(Free) /\ Patient(Free)
  BY FreeOK, PathAssumption, Timeouts DEF RequestOK, StaleRequest, Patient, Hopping, ShapeInv
<1>2. req' = [req EXCEPT ![r] = Free] /\ req'[r] = Free
  BY DEF Leave, ShapeInv
<1> QED
  BY <1>1, <1>2, FreeOK DEF Moves, Accounts, Leave

(* Where the handler lets a request into the engine.                       *)
LEMMA EnteredPhase ==
  ASSUME NEW s \in Shapes
  PROVE  Entered(s) \in {"embed", "lookup", "exists", "search", "image"}
  BY PathAssumption DEF Entered, Kinds

(* The phases, one by one.                                                 *)
LEMMA PhaseSet ==
  Phases = {"idle", "check", "exists", "lookup", "search", "pipeline", "retrieve", "follow",
            "store", "probe", "embed", "image", "resolve", "reason", "generate"}
  BY Timeouts DEF Phases, Local

(* A request that arrives.                                                 *)
LEMMA BeginMoves ==
  ASSUME ShapeInv, NEW r \in Requests, NEW s \in Shapes, Begin(r, s)
  PROVE  Moves(r) /\ Accounts(r)
<1> DEFINE p == IF NeedsPlugin(s) THEN "check" ELSE Entered(s)
           q == Entering(s, p)
<1>1. p \in {"check", "embed", "lookup", "exists", "search", "image"}
  BY EnteredPhase
<1>2. /\ q.phase = p /\ q.wait = 0 /\ q.gen = 0 /\ q.age = 0 /\ q.hops = 0 /\ q.shape = s
      /\ q \in Request
  BY <1>1, PhaseSet, PathAssumption DEF Entering, Request
<1>3. req' = [req EXCEPT ![r] = q] /\ req'[r] = q
  BY DEF Begin, ShapeInv
<1> HIDE DEF p, q
<1>4. gen \in Nat
  BY PathAssumption DEF ShapeInv
<1>5. RequestOK(q) /\ Patient(q)
  BY <1>1, <1>2, <1>4, Timeouts DEF RequestOK, Patient, Hopping
<1>6. StaleRequest(q)
  BY <1>1, <1>2 DEF StaleRequest
<1> QED
  BY <1>1, <1>2, <1>3, <1>5, <1>6 DEF Moves, Accounts, Begin

(* The shape of one request.                                               *)
LEMMA RequestShape ==
  ASSUME ShapeInv, NEW r \in Requests
  PROVE  RequestOK(req[r]) /\ req[r] \in Request /\ req[r].shape \in Shapes
  BY DEF ShapeInv, Request

(* The indices served have not been replaced.                              *)
LEMMA ServedNow ==
  ASSUME ShapeInv, StaleInv
  PROVE  gen \in Nat /\ replaced[gen] = 0
<1>1. gen \in Nat /\ gen \in gen..MaxMerges
  BY PathAssumption DEF ShapeInv
<1> QED
  BY <1>1 DEF StaleInv

(* How long ago any generation so far was replaced.                        *)
LEMMA ReplacedNat ==
  ASSUME ShapeInv, NEW g \in Nat, g <= gen
  PROVE  replaced[g] \in Nat
<1>1. gen \in 0..MaxMerges /\ replaced \in [0..MaxMerges -> 0..LongestStale]
  BY DEF ShapeInv
<1>2. g \in 0..MaxMerges
  BY <1>1, PathAssumption
<1> QED
  BY <1>1, <1>2, Longest

(* Who is not kept out goes on: a swap is not queued, nor is it stuck      *)
(* behind this request.                                                    *)
LEMMA NotBlocked ==
  ASSUME ShapeInv, NEW r \in Requests, ~ Blocked(r)
  PROVE  /\ r \notin stuck
         /\ req[r].phase \in GraphReaders => swap \notin {"queued", "stuck"}
  BY DEF Blocked, ShapeInv, QueueInv

(* No step of a request changes the indices or the locks, but for those    *)
(* that go with a client that leaves.                                      *)
LEMMA StepLocks ==
  ASSUME ShapeInv, NEW r \in Requests,
         Step(r) \/ Cancel(r) \/ \E s \in Shapes : Begin(r, s)
  PROVE  LeavesLocks(r)
<1>1. CASE Cancel(r)
  BY <1>1 DEF Cancel, LeavesLocks, ShapeInv, QueueInv
<1>2. CASE Search(r)
  BY <1>2, NotBlocked DEF Search, LeavesLocks, merge
<1>3. CASE ~ Cancel(r) /\ ~ Search(r)
  <2>1. UNCHANGED <<plugin, merge>> /\ req[r].phase # "search"
    BY <1>3 DEF Step, CheckReady, ProbeEnd, ImageEnd, Exists, Lookup, EmbedEnd, Pipeline,
                GenerateEnd, Retrieve, ReasonEnd, Follow, ResolveEnd, Store, Begin
  <2>2. r \notin stuck
    BY <2>1 DEF ShapeInv, QueueInv
  <2> QED
    BY <2>1, <2>2 DEF LeavesLocks, merge
<1> QED
  BY <1>1, <1>2, <1>3

(* Every step of a request and of its client is one of these three.        *)
LEMMA RequestSteps ==
  ASSUME ShapeInv, StaleInv, NEW r \in Requests, Step(r) \/ Cancel(r)
  PROVE  Moves(r) /\ Accounts(r)
<1> USE PhaseSet DEF Hopping
<1>0. "idle" \notin Calls /\ RequestOK(req[r]) /\ req[r] \in Request /\ req[r].shape \in Shapes
  BY Timeouts, RequestShape
<1>1. CASE CheckReady(r)
  <2>2. PICK p \in {"probe", Entered(req[r].shape)} : (Go(r, p) /\ UNCHANGED metrics) \/ Fail(r)
    BY <1>1 DEF CheckReady, Proceed
  <2> QED
    BY <1>0, <1>1, <2>2, EnteredPhase, GoOn, LeaveMoves DEF CheckReady, Fail
<1>2. CASE ProbeEnd(r)
  <2>2. (Go(r, Entered(req[r].shape)) /\ UNCHANGED metrics) \/ Fail(r)
    BY <1>2 DEF ProbeEnd, Proceed
  <2> QED
    BY <1>0, <1>2, <2>2, EnteredPhase, GoOn, LeaveMoves DEF ProbeEnd, Fail
<1>3. CASE ImageEnd(r) \/ EmbedEnd(r)
  BY <1>3, GoOn, LeaveMoves DEF ImageEnd, EmbedEnd, Fail
<1>4. CASE Exists(r)
  BY <1>4, GoOn, LeaveMoves DEF Exists, Fail
<1>5. CASE Retrieve(r)
  <2>1. req[r].shape.kind = "multihop"
    BY <1>0, <1>5 DEF Retrieve, RequestOK
  <2> QED
    BY <1>5, <2>1, GoOn DEF Retrieve
<1>6. CASE Cancel(r)
  <2>1. req[r].phase # "idle"
    BY <1>6, <1>0, Timeouts DEF Cancel, Blocked
  <2> QED
    BY <1>6, <2>1, LeaveMoves DEF Cancel
<1>7. CASE Store(r)
  BY <1>7, LeaveMoves DEF Store
<1>8. CASE Lookup(r)
  <2>1. CASE Leave(r, "hits")
    BY <1>8, <2>1, LeaveMoves DEF Lookup
  <2>2. CASE Miss(r)
    <3> DEFINE p == IF req[r].shape.kind = "text" THEN "embed" ELSE "pipeline"
               q == [req[r] EXCEPT !.phase = p, !.wait = 0]
    <3>1. Go(r, p) /\ UNCHANGED metrics /\ req[r].phase = "lookup"
      BY <1>8, <2>2 DEF Lookup, Miss
    <3>2. q.phase = p /\ q.shape = req[r].shape
      BY <1>0 DEF Request
    <3>3. StaleRequest(q)
      BY <3>2 DEF StaleRequest
    <3> QED
      BY <1>8, <3>1, <3>3, GoMoves DEF Lookup
  <2> QED
    BY <1>8, <2>1, <2>2 DEF Lookup
<1>9. CASE Search(r)
  <2> DEFINE p == IF req[r].shape.kind = "multihop" THEN "retrieve" ELSE "pipeline"
             q == [req[r] EXCEPT !.gen = gen, !.phase = p]
  <2>1. req[r] \in Request /\ RequestOK(req[r]) /\ req[r].phase = "search"
    BY <1>0, <1>9 DEF Search
  <2>2. gen \in Nat /\ replaced[gen] = 0
    BY ServedNow
  <2>3. /\ q \in Request /\ q.phase = p /\ q.gen = gen /\ q.wait = req[r].wait
        /\ q.shape = req[r].shape
    BY <2>1, <2>2 DEF Request
  <2>4. req' = [req EXCEPT ![r] = q] /\ req'[r] = q /\ metrics' = metrics
    BY <1>9 DEF Search, ShapeInv
  <2> HIDE DEF q
  <2>5. RequestOK(q) /\ Patient(q)
    BY <2>1, <2>2, <2>3, Timeouts DEF RequestOK, Patient
  <2>6. StaleRequest(q)
    BY <2>2, <2>3 DEF StaleRequest
  <2> QED
    BY <1>9, <2>1, <2>3, <2>4, <2>5, <2>6 DEF Search, Moves, Accounts
<1>10. CASE Pipeline(r)
  <2> DEFINE p == IF req[r].shape.llm THEN "generate" ELSE "store"
             g == IF req[r].shape.kind = "node" THEN gen ELSE req[r].gen
             q == [req[r] EXCEPT !.gen = g, !.wait = 0, !.phase = p]
  <2>1. /\ req[r] \in Request /\ RequestOK(req[r]) /\ req[r].phase = "pipeline"
        /\ StaleRequest(req[r])
    BY <1>0, <1>10 DEF Pipeline, StaleInv
  <2>2. gen \in Nat /\ replaced[gen] = 0
    BY ServedNow
  <2>3. /\ q \in Request /\ q.phase = p /\ q.gen = g /\ q.wait = 0
        /\ q.shape = req[r].shape
    BY <2>1, <2>2 DEF Request
  <2>4. req' = [req EXCEPT ![r] = q] /\ req'[r] = q /\ metrics' = metrics
    BY <1>10 DEF Pipeline, ShapeInv
  <2>5. g <= gen
    BY <2>1, <2>2 DEF RequestOK
  <2>6. req[r].shape.kind \in {"text", "node"} => replaced[g] = 0
    BY <2>1, <2>2 DEF StaleRequest
  <2> HIDE DEF q, g
  <2>7. RequestOK(q) /\ Patient(q)
    BY <2>3, <2>5, Timeouts DEF RequestOK, Patient
  <2>8. StaleRequest(q)
    BY <2>3, <2>5, <2>6, PathAssumption DEF StaleRequest
  <2> QED
    BY <1>10, <2>1, <2>3, <2>4, <2>7, <2>8 DEF Pipeline, Moves, Accounts
<1>11. CASE GenerateEnd(r)
  <2>1. /\ RequestOK(req[r]) /\ req[r] \in Request /\ req[r].phase = "generate"
        /\ StaleRequest(req[r])
    BY <1>0, <1>11 DEF GenerateEnd, StaleInv
  <2>2. StaleRequest([req[r] EXCEPT !.phase = "store", !.wait = 0])
    <3> DEFINE q == [req[r] EXCEPT !.phase = "store", !.wait = 0]
    <3>1. q.phase = "store" /\ q.gen = req[r].gen /\ q.shape = req[r].shape
      BY <2>1 DEF Request
    <3>2. req[r].wait <= GenerateTimeout /\ req[r].wait \in Nat /\ GenerateTimeout \in Nat
      BY <2>1, Timeouts, PathAssumption DEF RequestOK, Request
    <3>3. replaced[req[r].gen] \in Nat
      BY <2>1, ReplacedNat DEF RequestOK, Request
    <3> HIDE DEF q
    <3> QED
      BY <2>1, <3>1, <3>2, <3>3 DEF StaleRequest
  <2> QED
    BY <1>11, <2>1, <2>2, GoMoves, LeaveMoves DEF GenerateEnd, Fail
<1>12. CASE ReasonEnd(r)
  <2>1. RequestOK(req[r]) /\ req[r] \in Request /\ req[r].phase = "reason"
    BY <1>0, <1>12 DEF ReasonEnd
  <2>2. CASE Fail(r)
    BY <1>12, <2>2, LeaveMoves DEF ReasonEnd, Fail
  <2>3. CASE Go(r, "store") /\ UNCHANGED metrics
    <3>1. [req[r] EXCEPT !.phase = "store", !.wait = 0].shape = req[r].shape
      BY <2>1 DEF Request
    <3>2. req[r].shape.kind = "multihop"
      BY <2>1 DEF RequestOK
    <3> QED
      BY <1>12, <2>1, <2>3, <3>1, <3>2, GoMoves DEF ReasonEnd, StaleRequest
  <2>4. CASE /\ req[r].hops < MaxHops /\ UNCHANGED metrics
             /\ req' = [req EXCEPT ![r].phase = "follow", ![r].wait = 0, ![r].hops = @ + 1]
    <3> DEFINE q == [req[r] EXCEPT !.phase = "follow", !.wait = 0, !.hops = @ + 1]
    <3>0. req[r].hops + 1 \in 0..MaxHops
      BY <2>1, <2>4, PathAssumption DEF Request
    <3>1. /\ q \in Request /\ q.phase = "follow" /\ q.wait = 0 /\ q.gen = req[r].gen
          /\ q.shape = req[r].shape
      BY <2>1, <3>0 DEF Request
    <3>2. req' = [req EXCEPT ![r] = q] /\ req'[r] = q
      BY <2>4 DEF ShapeInv
    <3> HIDE DEF q
    <3>3. RequestOK(q) /\ StaleRequest(q) /\ Patient(q)
      BY <2>1, <3>1, Timeouts DEF RequestOK, StaleRequest, Patient
    <3> QED
      BY <1>12, <2>1, <2>4, <3>1, <3>2, <3>3 DEF ReasonEnd, Moves, Accounts
  <2> QED
    BY <1>12, <2>2, <2>3, <2>4 DEF ReasonEnd
<1>13. CASE ResolveEnd(r)
  <2>1. RequestOK(req[r]) /\ req[r] \in Request /\ req[r].phase = "resolve"
    BY <1>0, <1>13 DEF ResolveEnd
  <2>2. req[r].shape.kind = "multihop" /\ UNCHANGED metrics
    BY <1>13, <2>1 DEF ResolveEnd, RequestOK
  <2>3. CASE Go(r, "retrieve")
    BY <1>13, <2>1, <2>2, <2>3, GoOn DEF ResolveEnd
  <2>4. CASE Go(r, "generate")
    <3>1. [req[r] EXCEPT !.phase = "generate", !.wait = 0].shape = req[r].shape
      BY <2>1 DEF Request
    <3> QED
      BY <1>13, <2>1, <2>2, <2>4, <3>1, GoMoves DEF ResolveEnd, StaleRequest
  <2> QED
    BY <1>13, <2>3, <2>4 DEF ResolveEnd
<1>14. CASE Follow(r)
  <2>1. req[r].shape.kind = "multihop" /\ swap # "queued"
    BY <1>0, <1>14, NotBlocked, Timeouts DEF Follow, RequestOK
  <2> QED
    BY <1>14, <2>1, GoOn DEF Follow
<1> QED
  BY <1>1, <1>2, <1>3, <1>4, <1>5, <1>6, <1>7, <1>8, <1>9, <1>10, <1>11, <1>12, <1>13, <1>14
     DEF Step

-----------------------------------------------------------------------------
(* The requests after a step of one of them.                               *)
LEMMA RequestsKept ==
  ASSUME ShapeInv, StaleInv, NEW r \in Requests, Moves(r), LeavesLocks(r)
  PROVE  /\ req' \in [Requests -> Request] /\ \A s \in Requests : RequestOK(req[s])'
         /\ \A g \in gen'..MaxMerges : replaced'[g] = 0
         /\ \A s \in Requests : StaleRequest(req[s])'
         /\ QueueInv'
<1> PICK q : RequestOK(q) /\ StaleRequest(q) /\ Patient(q) /\ req' = [req EXCEPT ![r] = q]
  BY DEF Moves
<1>1. q \in Request /\ req \in [Requests -> Request]
  BY DEF RequestOK, ShapeInv
<1>2. gen' = gen /\ replaced' = replaced /\ swap' = swap /\ stuck' \subseteq stuck \ {r}
  BY DEF LeavesLocks
<1>3. ASSUME NEW s \in Requests PROVE RequestOK(req[s])' /\ StaleRequest(req[s])'
  <2>1. req'[s] = q \/ req'[s] = req[s]
    BY <1>1
  <2>2. RequestOK(req'[s]) /\ StaleRequest(req'[s])
    BY <2>1, RequestShape DEF StaleInv
  <2> QED
    BY <1>2, <2>2 DEF RequestOK, StaleRequest
<1>4. req'[r] = q /\ \A s \in Requests \ {r} : req'[s] = req[s]
  BY <1>1
<1>5. QueueInv
  BY DEF ShapeInv
<1>6. ASSUME swap = "queued", NEW s \in Requests, NEW h \in Requests,
             req'[s].phase \in GraphReaders, req'[h].phase = "resolve"
      PROVE  req'[s].wait <= req'[h].wait
  <2>1. h # r /\ req'[h] = req[h]
    BY <1>4, <1>6 DEF Patient
  <2>2. req[h].wait \in Nat
    BY RequestShape DEF Request
  <2>3. CASE s = r
    BY <1>4, <1>6, <2>1, <2>2, <2>3 DEF Patient
  <2>4. CASE s # r
    BY <1>4, <1>5, <1>6, <2>1, <2>4 DEF QueueInv
  <2> QED
    BY <2>3, <2>4
<1>7. \A s \in stuck' : swap' = "stuck" /\ req'[s].phase = "search"
  BY <1>2, <1>4, <1>5 DEF QueueInv
<1>8. QueueInv'
  BY <1>2, <1>5, <1>6, <1>7 DEF QueueInv
<1> QED
  BY <1>1, <1>2, <1>3, <1>8 DEF StaleInv

(* Only finitely many requests are in flight.                              *)
LEMMA FlightIsFinite == IsFiniteSet(InFlight) /\ Cardinality(InFlight) \in Nat
  BY PathAssumption, FS_Subset, FS_CardinalityType DEF InFlight

(* The counters add up after it.                                           *)
LEMMA BalanceKept ==
  ASSUME ShapeInv, MetricsBalance, NEW r \in Requests, Moves(r), Accounts(r)
  PROVE  /\ MetricsBalance' /\ metrics'.total <= MaxRequests
         /\ metrics' \in [{"total", "failed", "hits", "misses", "cancelled"} -> Nat]
<1> PICK q : req' = [req EXCEPT ![r] = q]
  BY DEF Moves
<1>1. req'[r] = q /\ \A s \in Requests \ {r} : req'[s] = req[s]
  BY DEF ShapeInv
<1>2. /\ metrics \in [{"total", "failed", "hits", "misses", "cancelled"} -> Nat]
      /\ metrics.total <= MaxRequests /\ MaxRequests \in Nat
  BY PathAssumption DEF ShapeInv
<1> HIDE DEF ShapeInv
<1>3. CASE req[r].phase # "idle" /\ req'[r].phase # "idle" /\ metrics' = metrics
  <2>1. InFlight' = InFlight
    BY <1>1, <1>3 DEF InFlight
  <2> QED
    BY <1>2, <1>3, <2>1 DEF MetricsBalance
<1>4. ASSUME req[r].phase # "idle", req'[r].phase = "idle",
             NEW c \in {"failed", "hits", "misses", "cancelled"},
             metrics' = [metrics EXCEPT ![c] = @ + 1]
      PROVE  /\ MetricsBalance' /\ metrics'.total <= MaxRequests
             /\ metrics' \in [{"total", "failed", "hits", "misses", "cancelled"} -> Nat]
  <2>1. InFlight' = InFlight \ {r} /\ r \in InFlight
    BY <1>1, <1>4 DEF InFlight
  <2>2. Cardinality(InFlight') = Cardinality(InFlight) - 1
    BY <2>1, FlightIsFinite, FS_RemoveElement
  <2> QED
    BY <1>2, <1>4, <2>2, FlightIsFinite DEF MetricsBalance
<1>5. CASE /\ req[r].phase = "idle" /\ req'[r].phase # "idle"
           /\ metrics.total < MaxRequests
           /\ metrics' = [metrics EXCEPT !.total = @ + 1]
  <2>1. InFlight' = InFlight \cup {r} /\ r \notin InFlight
    BY <1>1, <1>5 DEF InFlight
  <2>2. Cardinality(InFlight') = Cardinality(InFlight) + 1
    BY <2>1, FlightIsFinite, FS_AddElement
  <2> QED
    BY <1>2, <1>5, <2>2, FlightIsFinite DEF MetricsBalance
<1> QED
  BY <1>3, <1>4, <1>5 DEF Accounts

(* The answer Store writes, and what it writes it over.                    *)
LEMMA StoreKeeps ==
  ASSUME ShapeInv, StaleInv, RacedInv, NEW r \in Requests, Store(r)
  PROVE  /\ cache' \subseteq Answer
         /\ \A e \in cache' : e.gen <= gen /\ \A f \in cache' : f.key = e.key => f = e
         /\ \A e \in cache' : e.gen < gen => e.raced \/ swap = "done"
         /\ \A e \in cache' : replaced[e.gen] <= e.age + GenerateTimeout
<1> DEFINE s == req[r].shape
           entry == [key |-> Key(s), gen |-> req[r].gen, raced |-> req[r].gen # gen, age |-> 0]
<1>1. RequestOK(req[r]) /\ req[r] \in Request /\ s \in Shapes /\ gen \in Nat
  BY RequestShape, ServedNow
<1>2. CASE ~ Cacheable(s)
  BY <1>2 DEF Store, ShapeInv, StaleInv, RacedInv
<1>3. CASE Cacheable(s)
  <2>1. cache' = (cache \ Cached(s)) \cup {entry}
    BY <1>3 DEF Store
  <2>2. /\ entry \in Answer /\ entry.gen = req[r].gen /\ entry.gen <= gen /\ entry.age = 0
        /\ entry.key = Key(s)
        /\ entry.gen < gen => entry.raced
    <3> DEFINE k == Key(s)
               n == req[r].gen
               b == n # gen
    <3>1. n \in Nat /\ n <= gen /\ 0 \in 0..QueryTTL - 1
      BY <1>1, PathAssumption DEF RequestOK, Request
    <3>2. b \in BOOLEAN /\ k \in {Key(t) : t \in Shapes} /\ (n < gen => b)
      BY <1>1, <3>1
    <3>3. entry = [key |-> k, gen |-> n, raced |-> b, age |-> 0]
      OBVIOUS
    <3> HIDE DEF k, n, b, entry
    <3>4. entry \in Answer
      BY <3>1, <3>2, <3>3 DEF Answer
    <3>5. entry.key = k /\ entry.gen = n /\ entry.raced = b /\ entry.age = 0
      BY <3>3
    <3> QED
      BY <3>1, <3>2, <3>4, <3>5 DEF k, n
  <2>3. replaced[entry.gen] <= entry.age + GenerateTimeout
    <3>1. s.kind \in {"text", "node"} /\ req[r].phase = "store" /\ StaleRequest(req[r])
      BY <1>3 DEF Cacheable, Store, StaleInv
    <3>2. replaced[req[r].gen] <= GenerateTimeout
      BY <3>1 DEF StaleRequest
    <3> QED
      BY <2>2, <3>2, PathAssumption
  <2> HIDE DEF entry
  <2>4. \A e \in cache' : e = entry \/ (e \in cache /\ e.key # Key(s))
    BY <2>1 DEF Cached
  <2>5. \A e \in cache : /\ e \in Answer /\ e.gen <= gen
                         /\ e.gen < gen => e.raced \/ swap = "done"
                         /\ replaced[e.gen] <= e.age + GenerateTimeout
    BY DEF ShapeInv, StaleInv, RacedInv
  <2>6. \A e, f \in cache : f.key = e.key => f = e
    BY DEF ShapeInv
  <2>7. ASSUME NEW e \in cache'
        PROVE  /\ e \in Answer /\ e.gen <= gen
               /\ e.gen < gen => e.raced \/ swap = "done"
               /\ replaced[e.gen] <= e.age + GenerateTimeout
               /\ \A f \in cache' : f.key = e.key => f = e
    <3>1. CASE e = entry
      BY <2>2, <2>3, <2>4, <3>1
    <3>2. CASE e \in cache /\ e.key # Key(s)
      <4>1. ASSUME NEW f \in cache', f.key = e.key PROVE f = e
        BY <2>2, <2>4, <2>6, <3>2, <4>1
      <4>2. \A f \in cache' : f.key = e.key => f = e
        BY <4>1
      <4>3. /\ e \in Answer /\ e.gen <= gen
            /\ e.gen < gen => e.raced \/ swap = "done"
            /\ replaced[e.gen] <= e.age + GenerateTimeout
        BY <2>5, <3>2
      <4> QED
        BY <4>2, <4>3
    <3> QED
      BY <2>4, <3>1, <3>2
  <2> QED
    BY <2>7
<1> QED
  BY <1>2, <1>3

(* No other step of a request touches the cache, and only the end of a     *)
(* probe the readiness cache.                                              *)
LEMMA RequestStepInv ==
  ASSUME PathInv, NEW r \in Requests,
         Step(r) \/ Cancel(r) \/ \E s \in Shapes : Begin(r, s)
  PROVE  PathInv'
<1>1. Moves(r) /\ Accounts(r) /\ LeavesLocks(r)
  BY RequestSteps, BeginMoves, StepLocks DEF PathInv
<1>2. /\ health' \subseteq [ready : BOOLEAN, age : 0..HealthTTL]
      /\ \A h, j \in health' : h = j
      /\ ReadyInv'
  <2>1. CASE health' = health
    BY <1>1, <2>1 DEF PathInv, ShapeInv, ReadyInv, plugin, LeavesLocks
  <2>2. CASE ProbeEnd(r)
    <3>1. PICK ready \in BOOLEAN : /\ ready => CanSucceed(r)
                                   /\ health' = {[ready |-> ready, age |-> 0]}
      BY <2>2 DEF ProbeEnd
    <3>2. ready => upAge <= HealthTimeout
      <4>1. req[r].wait <= HealthTimeout /\ req[r].wait \in Nat
        BY <2>2, RequestShape, Timeouts DEF ProbeEnd, PathInv, RequestOK, Request
      <4>2. upAge \in Nat
        BY Longest DEF PathInv, ShapeInv
      <4> QED
        BY <3>1, <4>1, <4>2, PathAssumption DEF CanSucceed
    <3> QED
      BY <1>1, <3>1, <3>2, PathAssumption DEF ReadyInv, plugin, LeavesLocks
  <2> QED
    BY <2>1, <2>2 DEF Step, CheckReady, ImageEnd, Exists, Lookup, EmbedEnd, Search, Pipeline,
                      GenerateEnd, Retrieve, ReasonEnd, Follow, ResolveEnd, Store, Cancel, Begin
<1>3. /\ cache' \subseteq Answer
      /\ \A e \in cache' : e.gen <= gen /\ \A f \in cache' : f.key = e.key => f = e
      /\ \A e \in cache' : e.gen < gen => e.raced \/ swap = "done"
      /\ \A e \in cache' : replaced[e.gen] <= e.age + GenerateTimeout
  <2>1. CASE cache' = cache
    BY <2>1 DEF PathInv, ShapeInv, StaleInv, RacedInv
  <2>2. CASE Store(r)
    BY <2>2, StoreKeeps DEF PathInv
  <2> QED
    BY <2>1, <2>2 DEF Step, CheckReady, ProbeEnd, ImageEnd, Exists, Lookup, EmbedEnd, Search,
                      Pipeline, GenerateEnd, Retrieve, ReasonEnd, Follow, ResolveEnd, Cancel,
                      Begin
<1>4. /\ MetricsBalance' /\ metrics'.total <= MaxRequests
      /\ metrics' \in [{"total", "failed", "hits", "misses", "cancelled"} -> Nat]
  BY <1>1, BalanceKept DEF PathInv
<1>5. gen' = gen /\ replaced' = replaced /\ swap' = swap /\ UNCHANGED plugin
  BY <1>1 DEF LeavesLocks
<1>6. ShapeInv'
  BY <1>1, <1>2, <1>3, <1>4, <1>5, RequestsKept DEF PathInv, ShapeInv, plugin
<1>7. StaleInv' /\ RacedInv'
  BY <1>1, <1>3, <1>5, RequestsKept DEF PathInv, StaleInv, RacedInv
<1> QED
  BY <1>2, <1>4, <1>6, <1>7 DEF PathInv

-----------------------------------------------------------------------------
(* A merge.                                                                *)
LEMMA SwapInv == ASSUME PathInv, Swap PROVE PathInv'
<1>0. gen \in 0..MaxMerges /\ QueueInv
  BY DEF PathInv, ShapeInv
<1>1. /\ gen' = gen + 1 /\ gen' \in 0..MaxMerges /\ gen \in Nat /\ swap' = "done"
      /\ stuck' = {}
      /\ UNCHANGED <<plugin, health, req, cache, replaced, metrics>>
  <2>1. swap \in {"queued", "stuck"} /\ stuck = {}
    BY <1>0 DEF Swap, CanSwap, QueueInv
  <2>2. gen < MaxMerges
    BY <1>0, <2>1 DEF QueueInv
  <2> QED
    BY <1>0, <2>1, <2>2, PathAssumption DEF Swap
<1>2. \A q : RequestOK(q) => RequestOK(q)' /\ q.gen <= gen'
  BY <1>1 DEF RequestOK, Request
<1>3. \A e \in cache : e.gen <= gen'
  BY <1>1 DEF PathInv, ShapeInv, Answer
<1>4. ShapeInv'
  <2>1. QueueInv'
    BY <1>1 DEF QueueInv
  <2> QED
    BY <1>1, <1>2, <1>3, <2>1 DEF PathInv, ShapeInv, plugin, RequestOK
<1>5. StaleInv'
  <2>1. \A g \in gen'..MaxMerges : replaced'[g] = 0
    BY <1>1, PathAssumption DEF PathInv, StaleInv
  <2> QED
    BY <1>1, <2>1 DEF PathInv, StaleInv, StaleRequest
<1>6. ReadyInv' /\ RacedInv' /\ MetricsBalance'
  BY <1>1 DEF PathInv, ReadyInv, RacedInv, MetricsBalance, InFlight, plugin
<1> QED
  BY <1>4, <1>5, <1>6 DEF PathInv

(* Answers that leave the cache, the end of an invalidation, and what a    *)
(* swap does to the locks before it has them all.                          *)
LEMMA LocksAndCache ==
  ASSUME PathInv, cache' \subseteq cache, QueueInv',
         UNCHANGED <<plugin, health, req, gen, replaced, metrics>>,
         swap = "done" => swap' = "done" \/ cache' = {}
  PROVE  PathInv'
<1>1. ShapeInv'
  BY DEF PathInv, ShapeInv, plugin, RequestOK
<1>2. StaleInv'
  BY DEF PathInv, StaleInv, StaleRequest
<1>3. ReadyInv' /\ RacedInv' /\ MetricsBalance'
  BY DEF PathInv, ReadyInv, RacedInv, MetricsBalance, InFlight, plugin
<1> QED
  BY <1>1, <1>2, <1>3 DEF PathInv

(* The swap is queued when no one has waited for the graph.                *)
LEMMA QueueSwapInv == ASSUME PathInv, QueueSwap PROVE PathInv'
<1>1. QueueInv /\ \A h \in Requests : req[h].wait \in Nat
  BY RequestShape DEF PathInv, ShapeInv, Request
<1>2. /\ swap = "none" /\ swap' = "queued" /\ gen < MaxMerges
      /\ \A g \in 0..gen - 1 : replaced[g] > 0
      /\ \A r \in Requests : req[r].phase \in GraphReaders => req[r].wait = 0
      /\ UNCHANGED <<plugin, health, req, cache, gen, replaced, stuck, metrics>>
  BY DEF QueueSwap
<1>3. QueueInv'
  BY <1>1, <1>2 DEF QueueInv
<1> QED
  BY <1>2, <1>3, LocksAndCache

(* It gets stuck behind some who search, is given up, or has invalidated.  *)
LEMMA SwapGoesOnInv ==
  ASSUME PathInv, SwapGetsStuck \/ SwapGivenUp \/ Invalidate \/ Evict
  PROVE  PathInv'
<1>1. QueueInv
  BY DEF PathInv, ShapeInv
<1>2. CASE SwapGetsStuck
  <2>1. QueueInv'
    BY <1>1, <1>2 DEF SwapGetsStuck, QueueInv
  <2> QED
    BY <1>2, <2>1, LocksAndCache DEF SwapGetsStuck
<1>3. CASE SwapGivenUp
  <2>1. QueueInv'
    BY <1>1, <1>3 DEF SwapGivenUp, QueueInv
  <2> QED
    BY <1>3, <2>1, LocksAndCache DEF SwapGivenUp
<1>4. CASE Invalidate
  <2>1. QueueInv'
    BY <1>1, <1>4 DEF Invalidate, QueueInv
  <2> QED
    BY <1>4, <2>1, LocksAndCache DEF Invalidate
<1>5. CASE Evict
  <2>1. QueueInv'
    BY <1>1, <1>5 DEF Evict, QueueInv, merge
  <2> QED
    BY <1>5, <2>1, LocksAndCache DEF Evict, merge
<1> QED
  BY <1>2, <1>3, <1>4, <1>5

(* The plugin goes up or down.                                             *)
LEMMA FlipInv == ASSUME PathInv, Flip PROVE PathInv'
<1>0. ShapeInv /\ up \in BOOLEAN /\ flips \in 0..MaxFlips
  BY DEF PathInv, ShapeInv
<1>1. /\ up' \in BOOLEAN /\ upAge' = 0 /\ upAge' \in 0..LongestUp /\ flips' \in 0..MaxFlips
      /\ UNCHANGED <<health, req, cache, merge, metrics>>
  BY <1>0, Longest, PathAssumption DEF Flip
<1>2. gen' = gen /\ replaced' = replaced /\ swap' = swap /\ stuck' = stuck
  BY <1>1 DEF merge
<1>3. ShapeInv'
  <2>1. \A r \in Requests : RequestOK(req[r])'
    BY <1>0, <1>1, <1>2 DEF ShapeInv, RequestOK
  <2>2. QueueInv'
    BY <1>0, <1>1, <1>2 DEF ShapeInv, QueueInv
  <2> QED
    BY <1>0, <1>1, <1>2, <2>1, <2>2 DEF ShapeInv
<1>4. ReadyInv'
  <2>1. \A h \in health : h.age \in Nat
    BY <1>0, PathAssumption DEF ShapeInv
  <2> QED
    BY <1>1, <2>1, PathAssumption DEF ReadyInv
<1>5. StaleInv' /\ RacedInv' /\ MetricsBalance'
  BY <1>1 DEF PathInv, StaleInv, StaleRequest, RacedInv, MetricsBalance, InFlight, merge
<1> QED
  BY <1>3, <1>4, <1>5 DEF PathInv

-----------------------------------------------------------------------------
(* Time.  Only requests that wait go on waiting, so that no call outlives  *)
(* its timeout, and what a call waits for grows old no faster than it.     *)
Waits(r) == /\ req'[r].phase = req[r].phase /\ req'[r].shape = req[r].shape
            /\ req'[r].gen = req[r].gen
            /\ req'[r].wait = IF Counts(r) THEN req[r].wait + 1 ELSE req[r].wait

(* Whoever waits for the graph waits for one that resolves names, and has  *)
(* waited no longer than it.                                               *)
LEMMA TickWaits ==
  ASSUME PathInv, Tick, NEW r \in Requests, Counts(r)
  PROVE  \/ req[r].phase \in Calls /\ req[r].wait < Limit[req[r].phase]
         \/ req[r].phase \in GraphReaders /\ req[r].wait < LockWait /\ swap = "queued"
<1>1. Waiting(r) \/ Blocked(r)
  BY DEF Tick, Counts
<1>2. CASE Waiting(r)
  BY <1>2 DEF Waiting
<1>3. CASE Blocked(r)
  <2>1. swap = "queued" /\ req[r].phase \in GraphReaders
    BY <1>3 DEF Blocked, Counts
  <2>2. PICK h \in Requests : req[h].phase = "resolve"
    BY <2>1 DEF Tick, CanSwap, Resolving
  <2>3. req[h].wait < LockWait
    <3>1. ~ Blocked(h)
      BY <2>1, <2>2, Timeouts DEF Blocked
    <3>2. Waiting(h)
      BY <2>2, <3>1 DEF Tick
    <3> QED
      BY <2>2, <3>2, Timeouts DEF Waiting
  <2>4. req[r].wait <= req[h].wait
    BY <2>1, <2>2 DEF PathInv, ShapeInv, QueueInv
  <2>5. req[r].wait \in Nat /\ req[h].wait \in Nat
    BY RequestShape DEF PathInv, Request
  <2> QED
    BY <2>1, <2>3, <2>4, <2>5, Timeouts
<1> QED
  BY <1>1, <1>2, <1>3

(* What a tick does to the requests.                                       *)
LEMMA TickRequests ==
  ASSUME PathInv, Tick
  PROVE  /\ req' \in [Requests -> Request] /\ \A r \in Requests : RequestOK(req[r])'
         /\ InFlight' = InFlight
         /\ \A r \in Requests : Waits(r)
<1>1. gen' = gen
  BY DEF Tick
<1>2. ASSUME NEW r \in Requests
      PROVE  req'[r] \in Request /\ RequestOK(req[r])' /\ Waits(r)
  <2>1. RequestOK(req[r]) /\ req[r] \in Request
    BY RequestShape DEF PathInv
  <2>2. CASE ~ Counts(r)
    <3>1. req'[r] = req[r]
      BY <2>2 DEF Tick
    <3> QED
      BY <1>1, <2>1, <2>2, <3>1 DEF RequestOK, Waits
  <2>3. CASE Counts(r)
    <3>1. req'[r] = [req[r] EXCEPT !.wait = @ + 1, !.age = @ + 1]
      BY <2>3 DEF Tick
    <3>2. \/ req[r].phase \in Calls /\ req[r].wait < Limit[req[r].phase]
          \/ req[r].phase \in GraphReaders /\ req[r].wait < LockWait
      BY <2>3, TickWaits
    <3>3. /\ req'[r] \in Request /\ req'[r].phase = req[r].phase
          /\ req'[r].shape = req[r].shape /\ req'[r].gen = req[r].gen
          /\ req'[r].wait = req[r].wait + 1
      <4>1. req[r].wait + 1 \in Nat /\ req[r].age + 1 \in Nat
        BY <2>1 DEF Request
      <4> QED
        BY <2>1, <3>1, <4>1 DEF Request
    <3>4. /\ req[r].wait \in Nat /\ LockWait \in Nat
          /\ req[r].phase \in Calls => Limit[req[r].phase] \in Nat
      BY <2>1, Timeouts DEF Request
    <3>5. \/ req[r].phase \in Calls /\ req'[r].wait <= Limit[req[r].phase]
          \/ req[r].phase \in GraphReaders /\ req'[r].wait <= LockWait
      BY <3>2, <3>3, <3>4
    <3>6. RequestOK(req[r])'
      <4>1. req[r].phase \in Calls => req[r].phase \notin GraphReaders
        BY Timeouts
      <4> QED
        BY <1>1, <2>1, <3>3, <3>5, <4>1 DEF RequestOK
    <3> QED
      BY <2>3, <3>3, <3>6 DEF Waits
  <2> QED
    BY <2>2, <2>3
<1>3. req' \in [Requests -> Request]
  BY <1>2 DEF Tick
<1>4. InFlight' = InFlight
  BY <1>2 DEF InFlight, Waits
<1> QED
  BY <1>2, <1>3, <1>4

(* A generation was replaced one tick longer ago, at most.                 *)
LEMMA TickReplaced ==
  ASSUME PathInv, Tick
  PROVE  /\ replaced' \in [0..MaxMerges -> 0..LongestStale]
         /\ \A g \in gen..MaxMerges : replaced'[g] = 0
         /\ \A g \in 0..gen : replaced'[g] <= replaced[g] + 1
         /\ \A g \in 0..gen - 1 : replaced'[g] > 0
<1>1. gen \in 0..MaxMerges /\ replaced \in [0..MaxMerges -> 0..LongestStale]
  BY DEF PathInv, ShapeInv
<1>2. replaced' = [g \in 0..MaxMerges |->
                     IF g < gen THEN AtMost(replaced[g] + 1, LongestStale) ELSE 0]
  BY DEF Tick
<1>3. \A n \in Nat : /\ AtMost(n + 1, LongestStale) \in 0..LongestStale
                     /\ AtMost(n + 1, LongestStale) <= n + 1
                     /\ AtMost(n + 1, LongestStale) > 0
  BY Longest DEF AtMost
<1>4. ASSUME NEW g \in 0..MaxMerges
      PROVE  /\ replaced'[g] \in 0..LongestStale
             /\ g >= gen => replaced'[g] = 0
             /\ replaced'[g] <= replaced[g] + 1
             /\ g < gen => replaced'[g] > 0
  <2>1. replaced[g] \in Nat /\ 0 \in 0..LongestStale
    BY <1>1, Longest
  <2>2. replaced'[g] = IF g < gen THEN AtMost(replaced[g] + 1, LongestStale) ELSE 0
    BY <1>2
  <2>3. /\ AtMost(replaced[g] + 1, LongestStale) \in 0..LongestStale
        /\ AtMost(replaced[g] + 1, LongestStale) <= replaced[g] + 1
        /\ AtMost(replaced[g] + 1, LongestStale) > 0
    BY <1>3, <2>1
  <2>4. gen \in Nat /\ g \in Nat
    BY <1>1, PathAssumption
  <2>5. CASE g < gen
    BY ONLY <2>2, <2>3, <2>4, <2>5
  <2>6. CASE ~ (g < gen)
    BY ONLY <2>1, <2>2, <2>4, <2>6
  <2> QED
    BY ONLY <2>5, <2>6
<1>5. gen..MaxMerges \subseteq 0..MaxMerges /\ 0..gen \subseteq 0..MaxMerges
  <2>1. MaxMerges \in Nat
    BY PathAssumption
  <2>2. gen \in 0..MaxMerges
    BY <1>1
  <2> QED
    BY ONLY <2>1, <2>2
<1>6. replaced' \in [0..MaxMerges -> 0..LongestStale]
  BY <1>2, <1>4
<1>7. \A g \in gen..MaxMerges : g >= gen
  BY <1>1, PathAssumption
<1>8. \A g \in 0..gen - 1 : g < gen /\ g \in 0..MaxMerges
  BY <1>1, PathAssumption
<1> QED
  BY <1>4, <1>5, <1>6, <1>7, <1>8

(* Answers stay with one tick more, or expire.                             *)
LEMMA TickCache ==
  ASSUME PathInv, Tick
  PROVE  \A d \in cache' : \E e \in cache :
           d = [e EXCEPT !.age = @ + 1] /\ e.age + 1 < QueryTTL
  BY DEF Tick

(* A tick preserves the invariant.                                         *)
LEMMA TickInv == ASSUME PathInv, Tick PROVE PathInv'
<1>1. UNCHANGED <<up, flips, gen, swap, stuck, metrics>> /\ ShapeInv /\ StaleInv
  BY DEF Tick, PathInv
<1>2. ReadyInv' /\ upAge' \in 0..LongestUp
  <2>1. upAge \in 0..LongestUp /\ upAge' = IF up THEN 0 ELSE AtMost(upAge + 1, LongestUp)
    BY <1>1 DEF Tick, ShapeInv
  <2>2. upAge' \in 0..LongestUp /\ upAge' <= upAge + 1
    BY <2>1, Longest DEF AtMost
  <2>3. ASSUME NEW h \in health', h.ready, h.age < HealthTTL
        PROVE  upAge' <= HealthTimeout + h.age
    <3>1. PICK j \in health : h = [j EXCEPT !.age = AtMost(@ + 1, HealthTTL)]
      BY DEF Tick
    <3>2. j \in [ready : BOOLEAN, age : 0..HealthTTL]
      BY <1>1 DEF ShapeInv
    <3>3. h.ready = j.ready /\ h.age = AtMost(j.age + 1, HealthTTL) /\ j.age \in Nat
      BY <3>1, <3>2, PathAssumption
    <3>4. j.ready /\ j.age < HealthTTL /\ h.age = j.age + 1
      BY <2>3, <3>3, PathAssumption DEF AtMost
    <3>5. upAge <= HealthTimeout + j.age
      BY <3>4 DEF PathInv, ReadyInv
    <3> QED
      BY <2>1, <2>2, <3>3, <3>4, <3>5, Longest, PathAssumption
  <2> QED
    BY <2>2, <2>3 DEF ReadyInv
<1>3. health' \subseteq [ready : BOOLEAN, age : 0..HealthTTL] /\ \A h, j \in health' : h = j
  <2>1. \A n \in Nat : AtMost(n + 1, HealthTTL) \in 0..HealthTTL
    BY PathAssumption DEF AtMost
  <2>2. health' = {[h EXCEPT !.age = AtMost(@ + 1, HealthTTL)] : h \in health}
    BY DEF Tick
  <2>3. \A h \in health : h \in [ready : BOOLEAN, age : Nat] /\ \A j \in health : h = j
    BY <1>1, PathAssumption DEF ShapeInv
  <2>4. ASSUME NEW h \in health
        PROVE  [h EXCEPT !.age = AtMost(@ + 1, HealthTTL)] \in [ready : BOOLEAN, age : 0..HealthTTL]
    BY <2>1, <2>3
  <2> QED
    BY <2>2, <2>3, <2>4
<1>4. ASSUME NEW d \in cache'
      PROVE  \E e \in cache : /\ d \in Answer /\ d.gen = e.gen /\ d.key = e.key
                              /\ d.raced = e.raced /\ d.age = e.age + 1 /\ e \in Answer
                              /\ d = [e EXCEPT !.age = @ + 1]
  <2>1. PICK e \in cache : d = [e EXCEPT !.age = @ + 1] /\ e.age + 1 < QueryTTL
    BY <1>4, TickCache
  <2>2. e \in Answer
    BY <1>1 DEF ShapeInv
  <2>3. e.age + 1 \in 0..QueryTTL - 1
    BY <2>1, <2>2, PathAssumption DEF Answer
  <2>4. d \in Answer /\ d.gen = e.gen /\ d.key = e.key /\ d.raced = e.raced /\ d.age = e.age + 1
    BY <2>1, <2>2, <2>3 DEF Answer
  <2> QED
    BY <2>1, <2>2, <2>4
<1>5. /\ cache' \subseteq Answer
      /\ \A e \in cache' : e.gen <= gen /\ \A f \in cache' : f.key = e.key => f = e
  <2>1. cache' \subseteq Answer /\ \A e \in cache' : e.gen <= gen
    BY <1>1, <1>4 DEF ShapeInv
  <2>2. ASSUME NEW d1 \in cache', NEW d2 \in cache', d1.key = d2.key PROVE d1 = d2
    <3>1. PICK e1 \in cache : d1.key = e1.key /\ d1 = [e1 EXCEPT !.age = @ + 1]
      BY <1>4
    <3>2. PICK e2 \in cache : d2.key = e2.key /\ d2 = [e2 EXCEPT !.age = @ + 1]
      BY <1>4
    <3>3. e1 = e2
      BY <1>1, <2>2, <3>1, <3>2 DEF ShapeInv
    <3> QED
      BY <3>1, <3>2, <3>3
  <2> QED
    BY <2>1, <2>2
<1>6. RacedInv' /\ \A e \in cache' : replaced'[e.gen] <= e.age + GenerateTimeout
  <2>1. ASSUME NEW d \in cache'
        PROVE  (d.gen < gen => d.raced \/ swap = "done") /\ replaced'[d.gen] <= d.age + GenerateTimeout
    <3>1. PICK e \in cache : /\ e \in Answer /\ d.gen = e.gen /\ d.raced = e.raced
                             /\ d.age = e.age + 1
      BY <1>4
    <3>2. (e.gen < gen => e.raced \/ swap = "done") /\ e.gen <= gen
      BY <1>1 DEF PathInv, RacedInv, ShapeInv
    <3>3. replaced[e.gen] <= e.age + GenerateTimeout
      BY <1>1 DEF StaleInv
    <3>4. e.gen \in Nat /\ e.age \in Nat /\ gen \in Nat /\ replaced[e.gen] \in Nat
      BY <1>1, <3>1, <3>2, ReplacedNat, ServedNow, PathAssumption DEF Answer
    <3>5. replaced'[e.gen] <= replaced[e.gen] + 1 /\ replaced'[e.gen] \in Int
      <4>0. gen \in 0..MaxMerges
        BY <1>1 DEF ShapeInv
      <4>1. e.gen \in 0..gen /\ e.gen \in 0..MaxMerges
        BY <3>2, <3>4, <4>0, PathAssumption
      <4> QED
        BY <4>1, TickReplaced, Longest
    <3>6. replaced'[d.gen] <= d.age + GenerateTimeout
      BY <3>1, <3>3, <3>4, <3>5, PathAssumption
    <3>7. d.gen < gen => d.raced \/ swap = "done"
      BY <3>1, <3>2
    <3> QED
      BY <3>6, <3>7
  <2> QED
    BY <1>1, <2>1 DEF RacedInv
<1>7. ASSUME NEW r \in Requests PROVE StaleRequest(req[r])'
  <2>0. /\ Waits(r) /\ RequestOK(req[r]) /\ req[r] \in Request /\ gen \in Nat
        /\ req[r].gen \in Nat /\ req[r].gen <= gen /\ StaleRequest(req[r])
    BY <1>1, TickRequests, RequestShape, ServedNow DEF RequestOK, Request, StaleInv
  <2>1. /\ req'[r].phase = req[r].phase /\ req'[r].shape = req[r].shape /\ req'[r].gen = req[r].gen
        /\ req[r].phase \in Calls => req'[r].wait = req[r].wait + 1
    <3>1. req[r].phase \in Calls => Counts(r)
      BY Timeouts DEF Counts, Blocked
    <3> QED
      BY <2>0, <3>1 DEF Waits
  <2>2. CASE req[r].phase = "generate" /\ req[r].shape.kind \in {"text", "node"}
    <3>1. replaced[req[r].gen] <= req[r].wait
      BY <1>1, <2>2 DEF StaleInv, StaleRequest
    <3>2. /\ req[r].gen \in Nat /\ req[r].gen <= gen /\ req[r].wait \in Nat /\ gen \in 0..MaxMerges
      BY <1>1, RequestShape DEF RequestOK, Request, ShapeInv
    <3>3. req[r].gen \in 0..gen /\ req[r].gen \in 0..MaxMerges
      BY <3>2, PathAssumption
    <3>4. replaced'[req[r].gen] <= replaced[req[r].gen] + 1 /\ replaced'[req[r].gen] \in Int
      BY <3>3, TickReplaced, Longest
    <3>5. replaced[req[r].gen] \in Nat
      BY <1>1, <3>2, ReplacedNat
    <3>6. replaced'[req'[r].gen] <= req'[r].wait
      BY <2>1, <2>2, <3>1, <3>2, <3>4, <3>5, Timeouts
    <3> QED
      BY <2>1, <2>2, <3>6 DEF StaleRequest
  <2>3. CASE req[r].phase = "pipeline" /\ req[r].shape.kind = "text"
    <3>1. replaced[req[r].gen] = 0
      BY <2>0, <2>3 DEF StaleRequest
    <3>2. swap \in {"queued", "stuck"}
      BY <2>3, Timeouts DEF Tick, Waiting, Blocked
    <3>3. req[r].gen = gen
      <4>1. \A g \in 0..gen - 1 : replaced[g] > 0
        BY <1>1, <3>2 DEF ShapeInv, QueueInv
      <4>2. req[r].gen < gen => req[r].gen \in 0..gen - 1
        BY <2>0
      <4> QED
        BY <2>0, <3>1, <4>1, <4>2
    <3>4. gen \in gen..MaxMerges
      BY <1>1, PathAssumption DEF ShapeInv
    <3>5. replaced'[req'[r].gen] = 0
      BY <2>1, <3>3, <3>4, TickReplaced
    <3> QED
      BY <2>1, <2>3, <3>5 DEF StaleRequest
  <2>4. CASE /\ ~ (req[r].phase = "generate" /\ req[r].shape.kind \in {"text", "node"})
             /\ ~ (req[r].phase = "pipeline" /\ req[r].shape.kind = "text")
    <3>1. req[r].phase # "store"
      BY Timeouts DEF Tick, Waiting, Blocked
    <3> QED
      BY <2>1, <2>4, <3>1 DEF StaleRequest
  <2> QED
    BY <2>2, <2>3, <2>4
<1>8. QueueInv'
  <2>1. QueueInv
    BY <1>1 DEF ShapeInv
  <2>2. ASSUME swap = "queued", NEW r \in Requests, NEW h \in Requests,
               req[r].phase \in GraphReaders, req[h].phase = "resolve"
        PROVE  req'[r].wait <= req'[h].wait
    <3>1. req[r].wait <= req[h].wait
      BY <2>1, <2>2 DEF QueueInv
    <3>2. Counts(r) /\ Counts(h)
      BY <2>2, Timeouts DEF Counts
    <3>3. req'[r].wait = req[r].wait + 1 /\ req'[h].wait = req[h].wait + 1
      BY <3>2, TickRequests DEF Waits
    <3>4. req[r].wait \in Nat /\ req[h].wait \in Nat
      BY <1>1, RequestShape DEF Request
    <3> QED
      BY <3>1, <3>3, <3>4
  <2>3. \A r \in Requests : req'[r].phase = req[r].phase
    BY TickRequests DEF Waits
  <2>4. \A g \in 0..gen - 1 : replaced'[g] > 0
    BY TickReplaced
  <2> QED
    BY <1>1, <2>1, <2>2, <2>3, <2>4 DEF QueueInv
<1>9. ShapeInv'
  BY <1>1, <1>2, <1>3, <1>5, <1>8, TickRequests, TickReplaced DEF ShapeInv
<1>10. StaleInv'
  BY <1>1, <1>6, <1>7, TickReplaced DEF StaleInv
<1>11. MetricsBalance'
  BY <1>1, TickRequests DEF MetricsBalance, PathInv
<1> QED
  BY <1>2, <1>6, <1>9, <1>10, <1>11 DEF PathInv

-----------------------------------------------------------------------------
(* The first states satisfy the invariant.                                 *)
LEMMA PathInit == Init => PathInv
<1> SUFFICES ASSUME Init PROVE PathInv
  OBVIOUS
<1>1. \A r \in Requests : req[r] = Free
  BY DEF Init
<1>2. 0 \in 0..LongestUp /\ LongestUp \in 0..LongestUp /\ 0 \in 0..LongestStale
  BY Longest
<1>3. ShapeInv
  <2>1. \A r \in Requests : RequestOK(req[r])
    BY <1>1, FreeOK, Timeouts DEF Init, RequestOK, Hopping
  <2>2. req \in [Requests -> Request] /\ QueueInv
    BY FreeOK DEF Init, QueueInv
  <2>3. /\ metrics \in [{"total", "failed", "hits", "misses", "cancelled"} -> Nat]
        /\ metrics.total <= MaxRequests
    BY PathAssumption DEF Init
  <2>4. /\ upAge \in 0..LongestUp /\ gen \in 0..MaxMerges
        /\ replaced \in [0..MaxMerges -> 0..LongestStale] /\ flips \in 0..MaxFlips
    BY <1>2, PathAssumption DEF Init
  <2> QED
    BY <2>1, <2>2, <2>3, <2>4 DEF Init, ShapeInv
<1>4. StaleInv
  BY <1>1, FreeOK, PathAssumption DEF Init, StaleInv, StaleRequest
<1>5. MetricsBalance
  <2>1. InFlight = {}
    BY <1>1, FreeOK DEF InFlight
  <2> QED
    BY <2>1, FS_EmptySet DEF Init, MetricsBalance
<1> QED
  BY <1>3, <1>4, <1>5 DEF Init, PathInv, ReadyInv, RacedInv

(* Every step preserves it.                                                *)
LEMMA PathStep == PathInv /\ [Next]_vars => PathInv'
<1> SUFFICES ASSUME PathInv, [Next]_vars PROVE PathInv'
  OBVIOUS
<1>1. ASSUME NEW r \in Requests, Step(r) \/ Cancel(r) \/ \E s \in Shapes : Begin(r, s)
      PROVE  PathInv'
  BY <1>1, RequestStepInv
<1>2. CASE UNCHANGED vars
  <2>1. QueueInv'
    BY <1>2 DEF vars, merge, PathInv, ShapeInv, QueueInv
  <2> QED
    BY <1>2, <2>1, LocksAndCache DEF vars, merge
<1> QED
  BY <1>1, <1>2, QueueSwapInv, SwapGoesOnInv, SwapInv, FlipInv, TickInv DEF Next

(* PathInv holds in every state.                                           *)
THEOREM PathInvariant == Spec => []PathInv
  BY PathInit, PathStep, PTL DEF Spec

(* QueryPath.TypeOK: one readiness result and one answer for each key, no  *)
(* call outlives its timeout, and no one waits for the graph longer than   *)
(* another may take to resolve its names.                                  *)
THEOREM TypeCorrect == Spec => []TypeOK
<1>1. ASSUME PathInv PROVE TypeOK
  <2>1. ShapeInv
    BY <1>1 DEF PathInv
  <2>2. Cardinality(health) <= 1
    <3>1. CASE health = {}
      BY <3>1, FS_EmptySet
    <3>2. ASSUME NEW h \in health PROVE Cardinality(health) <= 1
      <4>1. health = {h}
        BY <2>1, <3>2 DEF ShapeInv
      <4> QED
        BY <4>1, FS_Singleton
    <3> QED
      BY <3>1, <3>2
  <2>3. ASSUME NEW r \in Requests
        PROVE  /\ req[r].phase \in {"idle"} \cup Local \cup Calls /\ req[r].shape \in Shapes
               /\ req[r].gen \in 0..gen /\ req[r].hops \in 0..MaxHops /\ req[r].age \in Nat
               /\ req[r].wait \in 0..LongestWait(req[r].phase)
    <3>1. gen \in Nat
      BY <2>1, PathAssumption DEF ShapeInv
    <3>2. RequestOK(req[r]) /\ req[r] \in Request
      BY <2>1, RequestShape
    <3>3. req[r].wait \in 0..LongestWait(req[r].phase)
      BY <3>2, Timeouts DEF RequestOK, Request, LongestWait
    <3> QED
      BY <3>1, <3>2, <3>3 DEF RequestOK, Request, Phases
  <2>4. ASSUME NEW e \in cache
        PROVE  /\ e.key \in {Key(s) : s \in Shapes} /\ e.raced \in BOOLEAN
               /\ e.gen \in 0..gen /\ e.age \in 0..QueryTTL - 1
               /\ \A f \in cache : f.key = e.key => f = e
    <3>1. e \in Answer /\ e.gen <= gen /\ gen \in Nat /\ \A f \in cache : f.key = e.key => f = e
      BY <2>1, PathAssumption DEF ShapeInv
    <3> QED
      BY <3>1 DEF Answer
  <2>5. metrics \in [{"total", "failed", "hits", "misses", "cancelled"} -> 0..MaxRequests]
    <3>1. /\ metrics \in [{"total", "failed", "hits", "misses", "cancelled"} -> Nat]
          /\ metrics.total <= MaxRequests
      BY <2>1 DEF ShapeInv
    <3>2. metrics.total = metrics.failed + metrics.hits + metrics.misses + metrics.cancelled
                            + Cardinality(InFlight)
      BY <1>1 DEF PathInv, MetricsBalance
    <3> QED
      BY <3>1, <3>2, FlightIsFinite, PathAssumption
  <2> QED
    BY <2>1, <2>2, <2>3, <2>4, <2>5 DEF ShapeInv, QueueInv, TypeOK
<1> QED
  BY <1>1, PathInvariant, PTL

(* QueryPath.MergeDropsOldAnswers: the only answers of old indices that a  *)
(* merge leaves in the cache are those that raced with its swap.           *)
THEOREM MergeDropsOld == Spec => []MergeDropsOldAnswers
<1>1. PathInv => MergeDropsOldAnswers
  BY DEF PathInv, RacedInv, MergeDropsOldAnswers
<1> QED
  BY <1>1, PathInvariant, PTL

(* QueryPath.MetricsBalance: the counters account for every query.         *)
THEOREM MetricsAddUp == Spec => []MetricsBalance
<1>1. PathInv => MetricsBalance
  BY DEF PathInv
<1> QED
  BY <1>1, PathInvariant, PTL

(* QueryPath.StaleIsBounded: what a hit serves was computed from indices   *)
(* replaced no longer ago than the cache's time to live and one call.      *)
THEOREM StaleBounded == Spec => StaleIsBounded
<1>1. PathInv =>
        \A r \in Requests : \A e \in Cached(req[r].shape) :
          e.gen < gen => replaced[e.gen] < QueryTTL + GenerateTimeout
  <2> SUFFICES ASSUME PathInv, NEW r \in Requests, NEW e \in Cached(req[r].shape)
               PROVE  replaced[e.gen] < QueryTTL + GenerateTimeout
    OBVIOUS
  <2>1. e \in cache /\ ShapeInv /\ StaleInv
    BY DEF Cached, PathInv
  <2>2. e \in Answer /\ e.gen <= gen /\ replaced[e.gen] <= e.age + GenerateTimeout
    BY <2>1 DEF ShapeInv, StaleInv
  <2>3. e.age \in 0..QueryTTL - 1 /\ replaced[e.gen] \in Nat
    BY <2>1, <2>2, ReplacedNat DEF Answer
  <2> QED
    BY <2>2, <2>3, PathAssumption
<1>2. PathInv =>
        [\A r \in Requests :
           LET s == req[r].shape IN
           metrics'.hits > metrics.hits /\ req[r].phase = "lookup" /\ req'[r].phase = "idle"
             => \A e \in Cached(s) :
                  e.gen < gen => replaced[e.gen] < QueryTTL + GenerateTimeout]_vars
  BY <1>1
<1> QED
  BY <1>2, PathInvariant, PTL DEF StaleIsBounded

(* QueryPath.ReadyIsRecent: a request passes check_ready only if the       *)
(* plugin was up at most a reuse and a probe ago.                          *)
THEOREM ReadyRecent == Spec => ReadyIsRecent
<1>1. ASSUME PathInv, [Next]_vars, NEW r \in Requests,
             req[r].phase \in {"check", "probe"}, req'[r].phase = Entered(req[r].shape)
      PROVE  upAge < HealthTTL + HealthTimeout
  <2>1. /\ req'[r].phase \in {"embed", "lookup", "exists", "search", "image"}
        /\ RequestOK(req[r]) /\ req[r] \in Request /\ upAge \in Nat
        /\ ShapeInv /\ StaleInv /\ req'[r].phase # req[r].phase
    <3>1. ShapeInv /\ StaleInv
      BY <1>1 DEF PathInv
    <3>2. RequestOK(req[r]) /\ req[r] \in Request /\ req[r].shape \in Shapes
      BY <3>1, RequestShape
    <3>3. upAge \in Nat
      BY <3>1, Longest DEF ShapeInv
    <3>4. req'[r].phase \in {"embed", "lookup", "exists", "search", "image"}
      BY <1>1, <3>2, EnteredPhase
    <3> QED
      BY <1>1, <3>1, <3>2, <3>3, <3>4
  <2>2. ASSUME NEW o \in Requests, Step(o) \/ Cancel(o) \/ \E s \in Shapes : Begin(o, s)
        PROVE  o = r
    <3>1. PICK q : req' = [req EXCEPT ![o] = q]
      BY <2>1, <2>2, RequestSteps, BeginMoves DEF Moves
    <3> QED
      BY <2>1, <3>1 DEF ShapeInv
  <2>3. Step(r) \/ Cancel(r) \/ \E s \in Shapes : Begin(r, s)
    <3>1. CASE Tick
      BY <1>1, <2>1, <3>1, TickRequests DEF Waits
    <3>2. CASE \/ QueueSwap \/ SwapGetsStuck \/ SwapGivenUp \/ Swap
               \/ Invalidate \/ Evict \/ Flip \/ UNCHANGED vars
      BY <2>1, <3>2 DEF QueueSwap, SwapGetsStuck, SwapGivenUp, Swap, Invalidate, Evict, Flip, vars
    <3> QED
      BY <1>1, <2>2, <3>1, <3>2 DEF Next
  <2>4. CheckReady(r) \/ ProbeEnd(r)
    <3>1. CASE Cancel(r)
      BY <2>1, <3>1, FreeOK DEF Cancel, Leave, ShapeInv
    <3> QED
      BY <1>1, <2>3, <3>1
        DEF Step, Begin, ImageEnd, Exists, Lookup, EmbedEnd, Search, Pipeline, GenerateEnd,
            Retrieve, ReasonEnd, Follow, ResolveEnd, Store
  <2>5. ASSUME Fail(r) \/ Go(r, "probe") PROVE FALSE
    <3>1. DOMAIN req = Requests /\ "phase" \in DOMAIN req[r]
      BY <2>1 DEF ShapeInv, Request
    <3>2. CASE Fail(r)
      BY <2>1, <3>1, <3>2, FreeOK DEF Fail, Leave
    <3>3. CASE Go(r, "probe")
      BY <2>1, <3>1, <3>3 DEF Go
    <3> QED
      BY <2>5, <3>2, <3>3
  <2>6. CASE CheckReady(r)
    <3>1. PICK h \in health : h.age < HealthTTL /\ h.ready
      BY <2>5, <2>6 DEF CheckReady, Proceed
    <3>2. h.age \in Nat
      BY <2>1, PathAssumption DEF ShapeInv
    <3>3. upAge <= HealthTimeout + h.age
      BY <1>1, <3>1 DEF PathInv, ReadyInv
    <3> QED
      BY <2>1, <3>1, <3>2, <3>3, PathAssumption
  <2>7. CASE ProbeEnd(r)
    <3>1. CanSucceed(r) /\ req[r].phase = "probe"
      BY <2>5, <2>7 DEF ProbeEnd, Proceed
    <3>2. req[r].wait \in Nat /\ req[r].wait <= HealthTimeout
      BY <2>1, <3>1, Timeouts DEF RequestOK, Request
    <3> QED
      BY <2>1, <3>1, <3>2, PathAssumption DEF CanSucceed
  <2> QED
    BY <2>4, <2>6, <2>7
<1>2. PathInv /\ [Next]_vars =>
        [\A r \in Requests :
           req[r].phase \in {"check", "probe"} /\ req'[r].phase = Entered(req[r].shape)
             => upAge < HealthTTL + HealthTimeout]_vars
  BY <1>1
<1> QED
  BY <1>2, PathInvariant, PTL DEF Spec, ReadyIsRecent
(***************************************************************************)
(* A query is answered within the budget of its kind, for any timeouts and *)
(* max_hops.  DeadlineInv says how much of it may be spent when a request  *)
(* enters each of its phases.  A hop waits for the graph before it         *)
(* retrieves and before it resolves the names that the plugin reasons to.  *)
(***************************************************************************)
Hop == GenerateTimeout + LockWait + LockWait + LockWait
Hops(n) == n * Hop

Ready(s) == IF NeedsPlugin(s) THEN HealthTimeout ELSE 0
Seeded(s) == Ready(s) + (IF s.kind \in {"text", "multihop", "image"} THEN EmbedTimeout ELSE 0)
                      + (IF s.kind = "node" THEN LockWait ELSE 0)

(* How old a request can be when it enters its phase.                      *)
Spent(q) ==
    CASE q.phase \in {"check", "probe"}                      -> 0
      [] q.phase \in {"exists", "embed", "image"} -> Ready(q.shape)
      [] q.phase = "lookup" -> Ready(q.shape) + (IF q.shape.kind = "node" THEN LockWait ELSE 0)
      [] q.phase \in {"search", "pipeline"} -> Seeded(q.shape)
      [] q.phase = "retrieve" -> Seeded(q.shape) + Hops(q.hops)
      [] q.phase = "reason" -> Seeded(q.shape) + Hops(q.hops) + LockWait
      [] q.phase = "follow" -> Seeded(q.shape) + Hops(q.hops - 1) + LockWait + GenerateTimeout
      [] q.phase = "resolve" ->
           Seeded(q.shape) + Hops(q.hops - 1) + LockWait + GenerateTimeout + LockWait
      [] q.phase = "generate" ->
           Seeded(q.shape) + (IF q.shape.kind = "multihop" THEN Hops(MaxHops) ELSE LockWait)
      [] OTHER -> Budget(q.shape)

(* Which requests reach which phase.                                       *)
OnItsWay(q) ==
    /\ q.phase = "check" => NeedsPlugin(q.shape)
    /\ q.phase = "probe" => NeedsPlugin(q.shape)
    /\ q.phase = "exists" => q.shape.kind = "node"
    /\ q.phase = "lookup" => q.shape.kind \in {"text", "node"}
    /\ q.phase = "embed" => q.shape.kind \in {"text", "multihop"}
    /\ q.phase = "image" => q.shape.kind = "image"
    /\ q.phase \in {"search", "pipeline"} => q.shape.kind \in Kinds
    /\ q.phase = "pipeline" => q.shape.kind # "multihop"
    /\ q.phase \in Hopping => q.shape.kind = "multihop"
    /\ q.phase \in {"follow", "resolve"} => q.hops > 0
    /\ q.phase = "generate" => q.shape.llm

InTime(q) == OnItsWay(q) /\ q.age <= Spent(q) + q.wait

DeadlineInv == \A r \in Requests : InTime(req[r])

-----------------------------------------------------------------------------
(* The sums of the budget.                                                 *)
LEMMA HopsGrow ==
  /\ Hop \in Nat
  /\ \A n \in Nat : /\ Hops(n) \in Nat
                   /\ Hops(n + 1) = Hops(n) + GenerateTimeout + LockWait + LockWait + LockWait
  /\ \A n \in 0..MaxHops : Hops(n) <= Hops(MaxHops)
  /\ Hops(0) = 0
<1>1. LockWait \in Nat /\ GenerateTimeout \in Nat /\ MaxHops \in Nat
  BY Timeouts, PathAssumption
<1>2. Hop \in Nat
  BY <1>1 DEF Hop
<1>3. \A n, k \in Nat : n * k \in Nat /\ (n + 1) * k = n * k + k
  OBVIOUS
<1>4. \A n, m, k \in Nat : n <= m => n * k <= m * k
  OBVIOUS
<1>5. 0 * Hop = 0
  BY <1>2
<1> QED
  BY <1>1, <1>2, <1>3, <1>4, <1>5 DEF Hops, Hop

(* The budget of a kind as what it spends until its seeds and after.       *)
LEMMA BudgetSums ==
  ASSUME NEW s \in Shapes
  PROVE  /\ Ready(s) \in Nat /\ Seeded(s) \in Nat /\ Budget(s) \in Nat
         /\ Ready(s) <= Seeded(s)
         /\ s.kind = "node" => Seeded(s) = Ready(s) + LockWait
         /\ s.kind # "multihop" =>
              Budget(s) = Seeded(s) + LockWait + (IF s.llm THEN GenerateTimeout ELSE 0)
         /\ s.kind = "multihop" =>
              /\ s.llm
              /\ Budget(s) = Seeded(s) + Hops(MaxHops) + LockWait + GenerateTimeout
                               + GenerateTimeout
<1> DEFINE G == GenerateTimeout
           E == EmbedTimeout
           N == MaxNames
           L == LockWait
           T == HealthTimeout
           H == Hops(MaxHops)
<1>1. /\ G \in Nat /\ E \in Nat /\ N \in Nat /\ T \in Nat /\ MaxHops \in Nat
      /\ L \in Nat /\ H \in Nat
  BY Timeouts, HopsGrow, PathAssumption
<1>2. s.kind \in Kinds /\ (s.kind = "multihop" => s.llm) /\ (s.kind = "node" => ~ s.llm)
  BY PathAssumption
<1>3. CASE s.kind = "multihop"
  <2>1. \A h, n, e, g, l \in Nat :
          l = n * e =>
            (2 * h + 1) * l + ((h + 1) * g + h * n * e) = h * (g + l + l + l) + l + g
    OBVIOUS
  <2>2. L = N * E
    BY DEF LockWait
  <2>3. (2 * MaxHops + 1) * L + ((MaxHops + 1) * G + MaxHops * N * E) = H + L + G
    BY <1>1, <2>1, <2>2 DEF Hops, Hop
  <2>4. (2 * MaxHops + 1) * L \in Nat /\ (MaxHops + 1) * G + MaxHops * N * E \in Nat
    BY <1>1
  <2>5. Ready(s) = T /\ Seeded(s) = T + E + 0
    BY <1>3 DEF Ready, Seeded, NeedsPlugin
  <2>6. Budget(s) = (2 * MaxHops + 1) * L + T + E + ((MaxHops + 1) * G + MaxHops * N * E) + G
    BY <1>2, <1>3 DEF Budget, Guards, NeedsPlugin
  <2>7. Budget(s) = Seeded(s) + H + L + G + G
    <3> DEFINE x == (2 * MaxHops + 1) * L
               y == (MaxHops + 1) * G + MaxHops * N * E
    <3> HIDE DEF x, y, G, E, N, L, T, H
    <3>1. x + y = H + L + G /\ x \in Nat /\ y \in Nat /\ Budget(s) = x + T + E + y + G
      BY <2>3, <2>4, <2>6 DEF x, y
    <3> QED
      BY ONLY <1>1, <2>5, <3>1
  <2> HIDE DEF G, E, N, L, T, H
  <2>8. Ready(s) \in Nat /\ Seeded(s) \in Nat /\ Budget(s) \in Nat /\ Ready(s) <= Seeded(s)
    BY ONLY <1>1, <2>5, <2>7
  <2> QED
    BY <1>2, <1>3, <2>7, <2>8 DEF G, L, H
<1>4. CASE s.kind # "multihop"
  <2> HIDE DEF G, E, N, L, T, H
  <2>1. /\ Ready(s) \in {0, T}
        /\ Seeded(s) = Ready(s) + (IF s.kind \in {"text", "image"} THEN E ELSE 0)
                                + (IF s.kind = "node" THEN L ELSE 0)
    BY <1>4 DEF Ready, Seeded, T, E, L
  <2>2. Budget(s) = (IF s.kind = "node" THEN 2 ELSE 1) * L + Ready(s)
                      + (IF s.kind \in {"text", "image"} THEN E ELSE 0) + 0
                      + (IF s.llm THEN G ELSE 0)
    BY <1>2, <1>4 DEF Budget, Guards, Ready, T, E, L, G
  <2>3. /\ Ready(s) \in Nat /\ Seeded(s) \in Nat /\ Budget(s) \in Nat /\ Ready(s) <= Seeded(s)
        /\ s.kind = "node" => Seeded(s) = Ready(s) + L
        /\ Budget(s) = Seeded(s) + L + (IF s.llm THEN G ELSE 0)
    BY ONLY <1>1, <2>1, <2>2
  <2> QED
    BY <1>4, <2>3 DEF G, L
<1> QED
  BY <1>3, <1>4

-----------------------------------------------------------------------------
(* Spent, phase by phase.                                                  *)
LEMMA SpentByPhase ==
  ASSUME NEW q
  PROVE  /\ q.phase \in {"check", "probe"} => Spent(q) = 0
         /\ q.phase \in {"exists", "embed", "image"} => Spent(q) = Ready(q.shape)
         /\ q.phase = "lookup" =>
              Spent(q) = Ready(q.shape) + (IF q.shape.kind = "node" THEN LockWait ELSE 0)
         /\ q.phase \in {"search", "pipeline"} => Spent(q) = Seeded(q.shape)
         /\ q.phase = "retrieve" => Spent(q) = Seeded(q.shape) + Hops(q.hops)
         /\ q.phase = "reason" => Spent(q) = Seeded(q.shape) + Hops(q.hops) + LockWait
         /\ q.phase = "follow" =>
              Spent(q) = Seeded(q.shape) + Hops(q.hops - 1) + LockWait + GenerateTimeout
         /\ q.phase = "resolve" =>
              Spent(q) = Seeded(q.shape) + Hops(q.hops - 1) + LockWait + GenerateTimeout + LockWait
         /\ q.phase = "generate" =>
              Spent(q) = Seeded(q.shape)
                           + (IF q.shape.kind = "multihop" THEN Hops(MaxHops) ELSE LockWait)
         /\ q.phase \in {"store", "idle"} => Spent(q) = Budget(q.shape)
  BY DEF Spent

(* It is a number.                                                         *)
LEMMA SpentIsInt ==
  ASSUME ShapeInv, NEW r \in Requests, InTime(req[r])
  PROVE  Spent(req[r]) \in Nat
<1>1. RequestOK(req[r]) /\ req[r] \in Request
  BY RequestShape
<1>2. /\ req[r].shape \in Shapes /\ req[r].hops \in 0..MaxHops /\ req[r].hops \in Nat
      /\ req[r].phase \in Phases
  BY <1>1, PathAssumption DEF Request
<1>3. LockWait \in Nat /\ GenerateTimeout \in Nat
  BY Timeouts, PathAssumption
<1>4. Hops(req[r].hops) \in Nat /\ Hops(MaxHops) \in Nat
  BY <1>2, HopsGrow, PathAssumption
<1>5. req[r].phase \in {"follow", "resolve"} => Hops(req[r].hops - 1) \in Nat
  <2>1. req[r].phase \in {"follow", "resolve"} => req[r].hops - 1 \in Nat
    BY <1>2 DEF InTime, OnItsWay
  <2> QED
    BY <2>1, HopsGrow
<1> QED
  BY <1>2, <1>3, <1>4, <1>5, BudgetSums, PhaseSet DEF Spent

(* What the waiting of a request that is in time adds up to at most.       *)
LEMMA Waited ==
  ASSUME ShapeInv, NEW r \in Requests, InTime(req[r])
  PROVE  /\ req[r].age \in Nat /\ req[r].wait \in Nat /\ req[r].shape \in Shapes
         /\ req[r].hops \in 0..MaxHops /\ req[r].hops \in Nat
         /\ req[r].phase \notin Calls \cup GraphReaders => req[r].age <= Spent(req[r])
         /\ req[r].phase \in GraphReaders => req[r].age <= Spent(req[r]) + LockWait
         /\ req[r].phase = "probe" => req[r].age <= Spent(req[r]) + HealthTimeout
         /\ req[r].phase \in {"embed", "image"} => req[r].age <= Spent(req[r]) + EmbedTimeout
         /\ req[r].phase = "resolve" => req[r].age <= Spent(req[r]) + LockWait
         /\ req[r].phase \in {"reason", "generate"} =>
              req[r].age <= Spent(req[r]) + GenerateTimeout
<1>1. RequestOK(req[r]) /\ req[r] \in Request
  BY RequestShape
<1>2. /\ req[r].age \in Nat /\ req[r].wait \in Nat /\ req[r].shape \in Shapes
      /\ req[r].hops \in 0..MaxHops /\ req[r].hops \in Nat
  BY <1>1, PathAssumption DEF Request
<1>3. /\ Limit["probe"] = HealthTimeout /\ Limit["embed"] = EmbedTimeout
      /\ Limit["image"] = EmbedTimeout /\ Limit["resolve"] = LockWait
      /\ Limit["reason"] = GenerateTimeout /\ Limit["generate"] = GenerateTimeout
      /\ Calls = {"probe", "embed", "image", "resolve", "reason", "generate"}
  BY Timeouts DEF Limit
<1>4. /\ HealthTimeout \in Nat /\ EmbedTimeout \in Nat /\ GenerateTimeout \in Nat
      /\ LockWait \in Nat
  BY Timeouts, PathAssumption
<1>5. Spent(req[r]) \in Nat
  BY SpentIsInt
<1>6. /\ req[r].age <= Spent(req[r]) + req[r].wait
      /\ req[r].phase \in Calls => req[r].wait <= Limit[req[r].phase]
      /\ req[r].phase \in GraphReaders => req[r].wait <= LockWait
      /\ req[r].phase \notin Calls \cup GraphReaders => req[r].wait = 0
  BY <1>1 DEF InTime, RequestOK
<1> QED
  BY <1>2, <1>3, <1>4, <1>5, <1>6

(* A request that enters a phase in time.                                  *)
Enters(r, p) == [req[r] EXCEPT !.phase = p, !.wait = 0]

(* Entering a phase changes the phase and the wait alone.                  *)
LEMMA EntersShape ==
  ASSUME ShapeInv, NEW r \in Requests, NEW p \in Phases
  PROVE  /\ Enters(r, p).phase = p /\ Enters(r, p).wait = 0
         /\ Enters(r, p).shape = req[r].shape /\ Enters(r, p).age = req[r].age
         /\ Enters(r, p).hops = req[r].hops /\ Enters(r, p).gen = req[r].gen
  BY RequestShape DEF Enters, Request

(* A free slot is in time.                                                 *)
LEMMA FreeInTime == InTime(Free)
<1>1. Free.phase = "idle" /\ Free.wait = 0 /\ Free.age = 0 /\ Free.shape \in Shapes
  BY FreeOK DEF Free, Entering, Request
<1> QED
  BY <1>1, SpentByPhase, BudgetSums DEF InTime, OnItsWay, Hopping

Punctual(r) == \E q : InTime(q) /\ req' = [req EXCEPT ![r] = q]

(* A request that goes on is in time if it enters in time.                 *)
LEMMA GoPunctual ==
  ASSUME ShapeInv, NEW r \in Requests, NEW p \in Phases, Go(r, p), InTime(Enters(r, p))
  PROVE  Punctual(r)
  BY DEF Go, Enters, Punctual, ShapeInv

(* So is the slot of one that leaves,                                      *)
LEMMA LeavePunctual ==
  ASSUME NEW r \in Requests, NEW c, Leave(r, c)
  PROVE  Punctual(r)
  BY FreeInTime DEF Leave, Punctual

(* and a request that arrives.                                             *)
LEMMA BeginPunctual ==
  ASSUME NEW r \in Requests, NEW s \in Shapes, Begin(r, s)
  PROVE  Punctual(r)
<1> DEFINE p == IF NeedsPlugin(s) THEN "check" ELSE Entered(s)
           q == Entering(s, p)
<1>1. q.phase = p /\ q.shape = s /\ q.wait = 0 /\ q.age = 0 /\ q.hops = 0
  BY DEF Entering
<1>2. req' = [req EXCEPT ![r] = q]
  BY DEF Begin
<1>3. CASE NeedsPlugin(s)
  <2>1. InTime(q)
    BY <1>1, <1>3, SpentByPhase DEF InTime, OnItsWay, Hopping
  <2> QED
    BY <1>2, <2>1 DEF Punctual
<1>4. CASE ~ NeedsPlugin(s)
  <2>1. /\ s.kind \in {"node", "vector"}
        /\ p = IF s.kind = "node" THEN "exists" ELSE "search"
    BY <1>4, PathAssumption DEF NeedsPlugin, Entered, Kinds
  <2>2. /\ q.phase \in {"exists", "search"}
        /\ q.phase = "search" => s.kind = "vector"
        /\ q.phase = "exists" => s.kind = "node"
    BY <1>1, <2>1
  <2>3. Spent(q) \in Nat
    BY <1>1, <2>2, SpentByPhase, BudgetSums
  <2> HIDE DEF q, p
  <2>4. InTime(q)
    BY <1>1, <2>2, <2>3 DEF InTime, OnItsWay, Kinds, Hopping
  <2> QED
    BY <1>2, <2>4 DEF Punctual
<1> QED
  BY <1>3, <1>4

-----------------------------------------------------------------------------
(* Every step of a request keeps it in time.                               *)
LEMMA StepPunctual ==
  ASSUME ShapeInv, NEW r \in Requests, InTime(req[r]), Step(r) \/ Cancel(r)
  PROVE  Punctual(r)
<1> DEFINE s == req[r].shape
           a == req[r].age
           h == req[r].hops
<1> USE PhaseSet DEF Hopping
<1>1. /\ s \in Shapes /\ a \in Nat /\ h \in 0..MaxHops /\ h \in Nat
      /\ Ready(s) \in Nat /\ Seeded(s) \in Nat /\ Ready(s) <= Seeded(s) /\ Budget(s) \in Nat
      /\ HealthTimeout \in Nat /\ EmbedTimeout \in Nat /\ GenerateTimeout \in Nat
      /\ LockWait \in Nat /\ OnItsWay(req[r])
  BY Waited, BudgetSums, Timeouts, PathAssumption DEF InTime
<1>2. s.kind \in Kinds
  BY <1>1, PathAssumption
<1>3. ASSUME Fail(r) PROVE Punctual(r)
  BY <1>3, LeavePunctual DEF Fail
<1>4. ASSUME req[r].phase \in {"check", "probe"}, Go(r, Entered(s)) PROVE Punctual(r)
  <2> DEFINE p == Entered(s)
             q == Enters(r, p)
  <2>1. a <= Ready(s)
    BY <1>1, <1>4, Waited, SpentByPhase, Timeouts DEF OnItsWay, Ready
  <2>2. /\ p \in {"embed", "lookup", "search", "image"}
        /\ p = "embed" => s.kind \in {"text", "multihop"}
        /\ p = "lookup" => s.kind = "text"
        /\ p = "image" => s.kind = "image"
        /\ p = "search" => s.kind = "vector"
    BY <1>1, <1>2, <1>4, PathAssumption DEF OnItsWay, NeedsPlugin, Entered, Kinds
  <2> HIDE DEF p
  <2>3. q.phase = p /\ q.wait = 0 /\ q.shape = s /\ q.age = a
    BY <2>2, EntersShape
  <2>4. Spent(q) \in Nat /\ Ready(s) <= Spent(q)
    BY <1>1, <2>2, <2>3, SpentByPhase
  <2> HIDE DEF q, s, a
  <2>5. InTime(q)
    BY <1>1, <1>2, <2>1, <2>2, <2>3, <2>4 DEF InTime, OnItsWay, Kinds
  <2> QED
    BY <1>4, <2>2, <2>5, GoPunctual DEF p, q, s
<1>5. ASSUME req[r].phase = "check", Go(r, "probe") PROVE Punctual(r)
  <2> DEFINE q == Enters(r, "probe")
  <2>1. q.phase = "probe" /\ q.wait = 0 /\ q.shape = s /\ q.age = a
    BY EntersShape
  <2>2. a <= 0 /\ NeedsPlugin(s)
    BY <1>1, <1>5, Waited, SpentByPhase, Timeouts DEF OnItsWay
  <2> HIDE DEF q
  <2>3. InTime(q)
    BY <2>1, <2>2, SpentByPhase DEF InTime, OnItsWay
  <2> QED
    BY <1>5, <2>3, GoPunctual DEF q
<1>6. ASSUME req[r].phase \in {"embed", "image"}, Go(r, "search") PROVE Punctual(r)
  <2> DEFINE q == Enters(r, "search")
  <2>1. q.phase = "search" /\ q.wait = 0 /\ q.shape = s /\ q.age = a
    BY EntersShape
  <2>2. a <= Seeded(s)
    <3>1. a <= Ready(s) + EmbedTimeout /\ s.kind \in {"text", "multihop", "image"}
      BY <1>1, <1>6, Waited, SpentByPhase DEF OnItsWay
    <3>2. Seeded(s) = Ready(s) + EmbedTimeout + 0
      BY <3>1 DEF Seeded
    <3> QED
      BY <1>1, <3>1, <3>2
  <2> HIDE DEF q
  <2>3. InTime(q)
    BY <1>1, <1>2, <2>1, <2>2, SpentByPhase DEF InTime, OnItsWay
  <2> QED
    BY <1>6, <2>3, GoPunctual DEF q
<1>7. ASSUME req[r].phase = "exists", Go(r, "lookup") PROVE Punctual(r)
  <2> DEFINE q == Enters(r, "lookup")
  <2>1. q.phase = "lookup" /\ q.wait = 0 /\ q.shape = s /\ q.age = a
    BY EntersShape
  <2>2. a <= Ready(s) + LockWait /\ s.kind = "node"
    BY <1>1, <1>7, Waited, SpentByPhase, Timeouts DEF OnItsWay
  <2> HIDE DEF q
  <2>3. InTime(q)
    BY <1>1, <2>1, <2>2, SpentByPhase DEF InTime, OnItsWay
  <2> QED
    BY <1>7, <2>3, GoPunctual DEF q
<1>8. ASSUME Lookup(r) PROVE Punctual(r)
  <2> DEFINE p == IF s.kind = "text" THEN "embed" ELSE "pipeline"
             q == Enters(r, p)
  <2>1. Leave(r, "hits") \/ Go(r, p)
    BY <1>8 DEF Lookup, Miss
  <2>2. q.phase = p /\ q.wait = 0 /\ q.shape = s /\ q.age = a
    BY EntersShape
  <2>3. /\ a <= Ready(s) + (IF s.kind = "node" THEN LockWait ELSE 0)
        /\ s.kind \in {"text", "node"}
    BY <1>1, <1>8, Waited, SpentByPhase, Timeouts DEF OnItsWay, Lookup
  <2>5. s.kind = "node" => Seeded(s) = Ready(s) + LockWait
    BY <1>1, BudgetSums
  <2> HIDE DEF q
  <2>4. InTime(q)
    BY <1>1, <1>2, <2>2, <2>3, <2>5, SpentByPhase DEF InTime, OnItsWay
  <2> QED
    BY <2>1, <2>4, GoPunctual, LeavePunctual DEF q
<1>9. ASSUME Search(r) PROVE Punctual(r)
  <2> DEFINE p == IF s.kind = "multihop" THEN "retrieve" ELSE "pipeline"
             q == [req[r] EXCEPT !.gen = gen, !.phase = p]
  <2>1. req' = [req EXCEPT ![r] = q] /\ req[r].phase = "search"
    BY <1>9 DEF Search, ShapeInv
  <2>2. RequestOK(req[r]) /\ req[r] \in Request /\ req[r].wait = 0
    BY <2>1, RequestShape, Timeouts DEF RequestOK
  <2>3. q.phase = p /\ q.wait = 0 /\ q.shape = s /\ q.age = a /\ q.hops = h
    BY <2>2 DEF Request
  <2>4. a <= Seeded(s)
    BY <1>1, <2>1, Waited, SpentByPhase, Timeouts
  <2> HIDE DEF q
  <2>5. Seeded(s) <= Spent(q) /\ Spent(q) \in Nat
    <3>1. h \in Nat /\ Hops(h) \in Nat /\ Seeded(s) \in Nat
      BY <1>1, HopsGrow
    <3>2. q.phase \in {"pipeline", "retrieve"}
      BY <2>3
    <3>3. \/ Spent(q) = Seeded(q.shape)
          \/ Spent(q) = Seeded(q.shape) + Hops(q.hops)
      BY ONLY <3>2, SpentByPhase
    <3>4. Spent(q) = Seeded(s) \/ Spent(q) = Seeded(s) + Hops(h)
      BY ONLY <2>3, <3>3
    <3> QED
      BY ONLY <3>1, <3>4
  <2>6. InTime(q)
    BY <1>1, <1>2, <2>3, <2>4, <2>5 DEF InTime, OnItsWay
  <2> QED
    BY <2>1, <2>6 DEF Punctual
<1>10. ASSUME Pipeline(r) PROVE Punctual(r)
  <2> DEFINE p == IF s.llm THEN "generate" ELSE "store"
             g == IF s.kind = "node" THEN gen ELSE req[r].gen
             q == [req[r] EXCEPT !.gen = g, !.wait = 0, !.phase = p]
  <2>1. req' = [req EXCEPT ![r] = q] /\ req[r].phase = "pipeline"
    BY <1>10 DEF Pipeline, ShapeInv
  <2>2. req[r] \in Request
    BY RequestShape
  <2>3. q.phase = p /\ q.wait = 0 /\ q.shape = s /\ q.age = a
    BY <2>2 DEF Request
  <2>4. a <= Seeded(s) + LockWait /\ s.kind # "multihop"
    BY <1>1, <2>1, Waited, SpentByPhase, Timeouts DEF OnItsWay
  <2> HIDE DEF q
  <2>5. Seeded(s) + LockWait <= Spent(q) /\ Spent(q) \in Nat
    BY <1>1, <2>3, <2>4, SpentByPhase, BudgetSums
  <2>6. InTime(q)
    BY <1>1, <2>3, <2>4, <2>5 DEF InTime, OnItsWay
  <2> QED
    BY <2>1, <2>6 DEF Punctual
<1>11. ASSUME req[r].phase = "generate", Go(r, "store") PROVE Punctual(r)
  <2> DEFINE q == Enters(r, "store")
  <2>1. q.phase = "store" /\ q.wait = 0 /\ q.shape = s /\ q.age = a
    BY EntersShape
  <2>2. /\ s.llm
        /\ a <= Seeded(s) + (IF s.kind = "multihop" THEN Hops(MaxHops) ELSE LockWait)
                  + GenerateTimeout
    BY <1>1, <1>11, Waited, SpentByPhase DEF OnItsWay
  <2>3. a <= Budget(s)
    <3>1. CASE s.kind = "multihop"
      <4>1. Budget(s) = Seeded(s) + Hops(MaxHops) + LockWait + GenerateTimeout + GenerateTimeout
        BY <1>1, <3>1, BudgetSums
      <4>2. Hops(MaxHops) \in Nat
        BY HopsGrow, PathAssumption
      <4> QED
        BY <1>1, <2>2, <3>1, <4>1, <4>2
    <3>2. CASE s.kind # "multihop"
      <4>1. Budget(s) = Seeded(s) + LockWait + GenerateTimeout
        BY <1>1, <2>2, <3>2, BudgetSums
      <4> QED
        BY <1>1, <2>2, <3>2, <4>1
    <3> QED
      BY <3>1, <3>2
  <2> HIDE DEF q
  <2>4. InTime(q)
    BY <1>1, <2>1, <2>3, SpentByPhase DEF InTime, OnItsWay
  <2> QED
    BY <1>11, <2>4, GoPunctual DEF q
<1>12. ASSUME Retrieve(r) PROVE Punctual(r)
  <2> DEFINE q == Enters(r, "reason")
  <2>1. Go(r, "reason") /\ req[r].phase = "retrieve"
    BY <1>12 DEF Retrieve
  <2>2. q.phase = "reason" /\ q.wait = 0 /\ q.shape = s /\ q.age = a /\ q.hops = h
    BY EntersShape
  <2>3. a <= Seeded(s) + Hops(h) + LockWait /\ s.kind = "multihop"
    BY <1>1, <2>1, Waited, SpentByPhase, Timeouts DEF OnItsWay
  <2> HIDE DEF q
  <2>4. InTime(q)
    BY <1>1, <2>2, <2>3, SpentByPhase, HopsGrow DEF InTime, OnItsWay
  <2> QED
    BY <2>1, <2>4, GoPunctual DEF q
<1>13. ASSUME ReasonEnd(r) PROVE Punctual(r)
  <2>1. /\ req[r].phase = "reason" /\ s.kind = "multihop"
        /\ a <= Seeded(s) + Hops(h) + LockWait + GenerateTimeout
    BY <1>1, <1>13, Waited, SpentByPhase DEF OnItsWay, ReasonEnd
  <2>2. CASE Go(r, "store")
    <3> DEFINE q == Enters(r, "store")
    <3>1. q.phase = "store" /\ q.wait = 0 /\ q.shape = s /\ q.age = a
      BY EntersShape
    <3>2. a <= Budget(s)
      <4>1. /\ Seeded(s) \in Nat
            /\ Budget(s) = Seeded(s) + Hops(MaxHops) + LockWait + GenerateTimeout
                             + GenerateTimeout
        BY <1>1, <2>1, BudgetSums
      <4>2. Hops(h) \in Nat /\ Hops(MaxHops) \in Nat /\ Hops(h) <= Hops(MaxHops)
        BY <1>1, HopsGrow, PathAssumption
      <4>3. GenerateTimeout \in Nat /\ LockWait \in Nat /\ a \in Nat
        BY <1>1, PathAssumption
      <4> QED
        BY ONLY <2>1, <4>1, <4>2, <4>3
    <3> HIDE DEF q
    <3>3. InTime(q)
      BY <1>1, <3>1, <3>2, SpentByPhase DEF InTime, OnItsWay
    <3> QED
      BY <2>2, <3>3, GoPunctual DEF q
  <2>3. CASE req' = [req EXCEPT ![r].phase = "follow", ![r].wait = 0, ![r].hops = @ + 1]
    <3> DEFINE q == [req[r] EXCEPT !.phase = "follow", !.wait = 0, !.hops = @ + 1]
    <3>1. req' = [req EXCEPT ![r] = q]
      BY <2>3 DEF ShapeInv
    <3>2. /\ q.phase = "follow" /\ q.wait = 0 /\ q.shape = s /\ q.age = a /\ q.hops = h + 1
      BY RequestShape DEF Request
    <3> HIDE DEF q
    <3>3. q.hops > 0 /\ q.hops - 1 = h
      BY <1>1, <3>2
    <3>4. Spent(q) = Seeded(s) + Hops(h) + LockWait + GenerateTimeout
      BY <3>2, <3>3, SpentByPhase
    <3>5. InTime(q)
      BY <1>1, <2>1, <3>2, <3>3, <3>4, HopsGrow DEF InTime, OnItsWay
    <3> QED
      BY <3>1, <3>5 DEF Punctual
  <2> QED
    BY <1>3, <1>13, <2>2, <2>3 DEF ReasonEnd
<1>14. ASSUME ResolveEnd(r) PROVE Punctual(r)
  <2>1. /\ req[r].phase = "resolve" /\ s.kind = "multihop" /\ h > 0
        /\ a <= Seeded(s) + Hops(h - 1) + LockWait + GenerateTimeout + LockWait + LockWait
    BY <1>1, <1>14, Waited, SpentByPhase DEF OnItsWay, ResolveEnd
  <2>2. a <= Seeded(s) + Hops(h) /\ Hops(h) <= Hops(MaxHops)
    <3>1. h - 1 \in Nat /\ (h - 1) + 1 = h
      BY <1>1, <2>1
    <3>2. /\ Hops(h - 1) \in Nat
          /\ Hops(h) = Hops(h - 1) + GenerateTimeout + LockWait + LockWait + LockWait
      BY <3>1, HopsGrow
    <3>3. Hops(h) <= Hops(MaxHops)
      BY <1>1, HopsGrow
    <3> HIDE DEF a, s, h
    <3> QED
      BY ONLY <1>1, <2>1, <3>2, <3>3
  <2>3. CASE Go(r, "retrieve")
    <3> DEFINE q == Enters(r, "retrieve")
    <3>1. q.phase = "retrieve" /\ q.wait = 0 /\ q.shape = s /\ q.age = a /\ q.hops = h
      BY EntersShape
    <3> HIDE DEF q
    <3>2. InTime(q)
      BY <1>1, <2>1, <2>2, <3>1, SpentByPhase, HopsGrow DEF InTime, OnItsWay
    <3> QED
      BY <2>3, <3>2, GoPunctual DEF q
  <2>4. CASE Go(r, "generate")
    <3> DEFINE q == Enters(r, "generate")
    <3>1. q.phase = "generate" /\ q.wait = 0 /\ q.shape = s /\ q.age = a
      BY EntersShape
    <3>2. s.llm
      BY <1>1, <2>1, BudgetSums
    <3> HIDE DEF q
    <3>3. Spent(q) = Seeded(s) + Hops(MaxHops)
      BY <2>1, <3>1, SpentByPhase
    <3>4. Hops(h) \in Nat /\ Hops(MaxHops) \in Nat
      BY <1>1, HopsGrow, PathAssumption
    <3>5. a <= Spent(q) + q.wait
      BY <1>1, <2>2, <3>1, <3>3, <3>4
    <3>6. OnItsWay(q)
      BY <3>1, <3>2 DEF OnItsWay
    <3> QED
      BY <2>4, <3>1, <3>5, <3>6, GoPunctual DEF InTime, q
  <2> QED
    BY <1>14, <2>3, <2>4 DEF ResolveEnd
<1>15. CASE CheckReady(r) \/ ProbeEnd(r)
  BY <1>3, <1>4, <1>5, <1>15 DEF CheckReady, ProbeEnd, Proceed
<1>16. CASE ImageEnd(r) \/ EmbedEnd(r) \/ Exists(r) \/ GenerateEnd(r)
  BY <1>3, <1>6, <1>7, <1>11, <1>16 DEF ImageEnd, EmbedEnd, Exists, GenerateEnd
<1>17. CASE Store(r) \/ Cancel(r)
  BY <1>17, LeavePunctual DEF Store, Cancel
<1>18. ASSUME Follow(r) PROVE Punctual(r)
  <2> DEFINE q == Enters(r, "resolve")
  <2>1. Go(r, "resolve") /\ req[r].phase = "follow"
    BY <1>18 DEF Follow
  <2>2. q.phase = "resolve" /\ q.wait = 0 /\ q.shape = s /\ q.age = a /\ q.hops = h
    BY EntersShape
  <2>3. /\ s.kind = "multihop" /\ h > 0
        /\ a <= Seeded(s) + Hops(h - 1) + LockWait + GenerateTimeout + LockWait
    BY <1>1, <2>1, Waited, SpentByPhase, Timeouts DEF OnItsWay
  <2>4. Hops(h - 1) \in Nat
    <3>1. h - 1 \in Nat
      BY <1>1, <2>3
    <3> QED
      BY <3>1, HopsGrow
  <2> HIDE DEF q
  <2>5. InTime(q)
    BY <1>1, <2>2, <2>3, <2>4, SpentByPhase DEF InTime, OnItsWay
  <2> QED
    BY <2>1, <2>5, GoPunctual DEF q
<1> QED
  BY <1>8, <1>9, <1>10, <1>12, <1>13, <1>14, <1>15, <1>16, <1>17, <1>18 DEF Step

(* Other requests are not touched, and waiting adds to a request's age     *)
(* what it adds to its wait.                                               *)
LEMMA DeadlineStep == PathInv /\ DeadlineInv /\ [Next]_vars => DeadlineInv'
<1> SUFFICES ASSUME PathInv, DeadlineInv, [Next]_vars PROVE DeadlineInv'
  OBVIOUS
<1>1. ShapeInv /\ req \in [Requests -> Request]
  BY DEF PathInv, ShapeInv
<1>2. ASSUME NEW r \in Requests, Punctual(r) PROVE DeadlineInv'
  <2>1. PICK q : InTime(q) /\ req' = [req EXCEPT ![r] = q]
    BY <1>2 DEF Punctual
  <2>2. \A o \in Requests : req'[o] = q \/ req'[o] = req[o]
    BY <1>1, <2>1
  <2>3. \A o \in Requests : InTime(req'[o])
    BY <2>1, <2>2 DEF DeadlineInv
  <2> QED
    BY <2>3 DEF DeadlineInv
<1>3. ASSUME NEW r \in Requests, Step(r) \/ Cancel(r) \/ \E s \in Shapes : Begin(r, s)
      PROVE  DeadlineInv'
  BY <1>1, <1>2, <1>3, StepPunctual, BeginPunctual DEF DeadlineInv
<1>4. CASE Tick
  <2>1. ASSUME NEW r \in Requests PROVE InTime(req'[r])
    <3>1. InTime(req[r]) /\ req[r] \in Request
      BY <1>1 DEF DeadlineInv
    <3>2. CASE ~ Counts(r)
      <4>1. req'[r] = req[r]
        BY <1>4, <3>2 DEF Tick
      <4> QED
        BY <3>1, <4>1
    <3>3. CASE Counts(r)
      <4> DEFINE q == [req[r] EXCEPT !.wait = @ + 1, !.age = @ + 1]
      <4>1. req'[r] = q
        BY <1>4, <3>3 DEF Tick
      <4>2. /\ q.phase = req[r].phase /\ q.shape = req[r].shape /\ q.hops = req[r].hops
            /\ q.wait = req[r].wait + 1 /\ q.age = req[r].age + 1
        BY <3>1 DEF Request
      <4>3. req[r].wait \in Nat /\ req[r].age \in Nat
        BY <3>1 DEF Request
      <4> HIDE DEF q
      <4>4. Spent(q) = Spent(req[r]) /\ OnItsWay(q)
        BY <3>1, <4>2 DEF Spent, OnItsWay, InTime
      <4>5. Spent(req[r]) \in Int
        BY <1>1, <3>1, SpentIsInt
      <4>6. q.age <= Spent(q) + q.wait
        BY <3>1, <4>2, <4>3, <4>4, <4>5 DEF InTime
      <4> QED
        BY <4>1, <4>4, <4>6 DEF InTime
    <3> QED
      BY <3>2, <3>3
  <2> QED
    BY <2>1 DEF DeadlineInv
<1>5. CASE \/ QueueSwap \/ SwapGetsStuck \/ SwapGivenUp \/ Swap
           \/ Invalidate \/ Evict \/ Flip \/ UNCHANGED vars
  <2>1. req' = req
    BY <1>5 DEF QueueSwap, SwapGetsStuck, SwapGivenUp, Swap, Invalidate, Evict, Flip, vars
  <2> QED
    BY <2>1 DEF DeadlineInv
<1> QED
  BY <1>3, <1>4, <1>5 DEF Next

(* QueryPath.AnsweredInTime: no query outlives the timeouts of the calls   *)
(* its kind may make and, at each of its guards of the graph, the names    *)
(* that another resolves while a swap waits for it; the time in which a    *)
(* swap is stuck among the locks does not count, and may have no end.      *)
THEOREM Punctuality == Spec => []AnsweredInTime
<1>1. Init => DeadlineInv
  BY FreeInTime DEF Init, DeadlineInv
<1>2. ASSUME PathInv, DeadlineInv, NEW r \in Requests
      PROVE  req[r].age <= Budget(req[r].shape)
  <2> DEFINE s == req[r].shape
             a == req[r].age
             h == req[r].hops
  <2>1. InTime(req[r]) /\ OnItsWay(req[r]) /\ ShapeInv /\ req[r].phase \in Phases
    BY <1>2, RequestShape DEF DeadlineInv, InTime, PathInv, Request
  <2>2. /\ s \in Shapes /\ a \in Nat /\ h \in 0..MaxHops /\ h \in Nat
        /\ Ready(s) \in Nat /\ Seeded(s) \in Nat /\ Ready(s) <= Seeded(s) /\ Budget(s) \in Nat
        /\ HealthTimeout \in Nat /\ EmbedTimeout \in Nat /\ GenerateTimeout \in Nat
        /\ LockWait \in Nat
        /\ Hops(h) \in Nat /\ Hops(h) <= Hops(MaxHops) /\ Hops(MaxHops) \in Nat
    <3>1. s \in Shapes /\ a \in Nat /\ h \in 0..MaxHops /\ h \in Nat
      BY <2>1, Waited
    <3>2. /\ Ready(s) \in Nat /\ Seeded(s) \in Nat /\ Ready(s) <= Seeded(s)
          /\ Budget(s) \in Nat
      BY <3>1, BudgetSums
    <3>3. Hops(h) \in Nat /\ Hops(h) <= Hops(MaxHops) /\ Hops(MaxHops) \in Nat
      BY <3>1, HopsGrow, PathAssumption
    <3>4. /\ HealthTimeout \in Nat /\ EmbedTimeout \in Nat /\ GenerateTimeout \in Nat
          /\ LockWait \in Nat
      BY Timeouts, PathAssumption
    <3> QED
      BY <3>1, <3>2, <3>3, <3>4
  <2>3. Seeded(s) <= Budget(s) /\ (s.kind # "multihop" => Seeded(s) + LockWait <= Budget(s))
    BY <2>2, BudgetSums
  <2>4. s.kind = "multihop" =>
          Budget(s) = Seeded(s) + Hops(MaxHops) + LockWait + GenerateTimeout + GenerateTimeout
    BY <2>2, BudgetSums
  <2>5. CASE req[r].phase \in {"idle", "store"}
    BY <2>1, <2>2, <2>5, Waited, SpentByPhase, Timeouts
  <2>6. CASE req[r].phase \in {"check", "exists", "lookup", "search", "pipeline"}
    <3>1. CASE req[r].phase = "lookup"
      <4>1. a <= Ready(s) + (IF s.kind = "node" THEN LockWait ELSE 0)
        BY <2>1, <2>2, <3>1, Waited, SpentByPhase, Timeouts
      <4>2. s.kind = "node" => Seeded(s) = Ready(s) + LockWait
        BY <2>2, BudgetSums
      <4> QED
        BY <2>2, <2>3, <4>1, <4>2
    <3>2. CASE req[r].phase \in {"check", "search"}
      BY <2>1, <2>2, <2>3, <3>2, Waited, SpentByPhase, Timeouts
    <3>3. CASE req[r].phase \in {"exists", "pipeline"}
      <4>1. a <= Seeded(s) + LockWait /\ s.kind # "multihop"
        BY <2>1, <2>2, <3>3, Waited, SpentByPhase, Timeouts DEF OnItsWay
      <4> QED
        BY <2>2, <2>3, <4>1
    <3> QED
      BY <2>6, <3>1, <3>2, <3>3
  <2>7. CASE req[r].phase \in {"probe", "embed", "image"}
    <3>1. a <= Seeded(s)
      <4>1. CASE req[r].phase = "probe"
        BY <2>1, <2>2, <4>1, Waited, SpentByPhase DEF OnItsWay, Ready
      <4>2. CASE req[r].phase \in {"embed", "image"}
        <5>1. a <= Ready(s) + EmbedTimeout /\ s.kind \in {"text", "multihop", "image"}
          BY <2>1, <2>2, <4>2, Waited, SpentByPhase DEF OnItsWay
        <5>2. Seeded(s) = Ready(s) + EmbedTimeout + 0
          BY <5>1 DEF Seeded
        <5> QED
          BY <2>2, <5>1, <5>2
      <4> QED
        BY <2>7, <4>1, <4>2
    <3> QED
      BY <2>2, <2>3, <3>1
  <2>8. CASE req[r].phase = "retrieve"
    <3>1. a <= Seeded(s) + Hops(h) + LockWait /\ s.kind = "multihop"
      BY <2>1, <2>2, <2>8, Waited, SpentByPhase, Timeouts DEF OnItsWay, Hopping
    <3> QED
      BY <2>2, <2>4, <3>1
  <2>9. CASE req[r].phase = "reason"
    <3>1. a <= Seeded(s) + Hops(h) + LockWait + GenerateTimeout /\ s.kind = "multihop"
      BY <2>1, <2>2, <2>9, Waited, SpentByPhase DEF OnItsWay, Hopping
    <3> QED
      BY <2>2, <2>4, <3>1
  <2>10. CASE req[r].phase \in {"follow", "resolve"}
    <3>1. s.kind = "multihop" /\ h > 0
      BY <2>1, <2>10 DEF OnItsWay, Hopping
    <3>2. h - 1 \in Nat /\ (h - 1) + 1 = h
      BY <2>2, <3>1
    <3>3. /\ Hops(h - 1) \in Nat
          /\ Hops(h) = Hops(h - 1) + GenerateTimeout + LockWait + LockWait + LockWait
      BY <3>2, HopsGrow
    <3>4. a <= Seeded(s) + Hops(h - 1) + LockWait + GenerateTimeout + LockWait + LockWait
      <4>1. CASE req[r].phase = "follow"
        BY <2>1, <2>2, <3>3, <4>1, Waited, SpentByPhase, Timeouts
      <4>2. CASE req[r].phase = "resolve"
        BY <2>1, <2>2, <3>3, <4>2, Waited, SpentByPhase
      <4> QED
        BY <2>10, <4>1, <4>2
    <3>5. a <= Budget(s)
      <4> HIDE DEF a, s, h
      <4> QED
        BY ONLY <2>2, <2>4, <3>1, <3>3, <3>4
    <3> QED
      BY <3>5
  <2>11. CASE req[r].phase = "generate"
    <3>1. /\ s.llm
          /\ a <= Seeded(s) + (IF s.kind = "multihop" THEN Hops(MaxHops) ELSE LockWait)
                    + GenerateTimeout
      BY <2>1, <2>2, <2>11, Waited, SpentByPhase DEF OnItsWay
    <3>2. CASE s.kind = "multihop"
      BY <2>2, <2>4, <3>1, <3>2
    <3>3. CASE s.kind # "multihop"
      <4>1. Budget(s) = Seeded(s) + LockWait + GenerateTimeout
        BY <2>2, <3>1, <3>3, BudgetSums
      <4> QED
        BY <2>2, <3>1, <3>3, <4>1
    <3> QED
      BY <3>2, <3>3
  <2> QED
    BY <2>1, <2>5, <2>6, <2>7, <2>8, <2>9, <2>10, <2>11, PhaseSet
<1>3. PathInv /\ DeadlineInv => AnsweredInTime
  BY <1>2 DEF AnsweredInTime
<1> QED
  BY <1>1, <1>3, DeadlineStep, PathInvariant, PTL DEF Spec
=============================================================================
