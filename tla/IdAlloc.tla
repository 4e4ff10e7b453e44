-------------------------------- MODULE IdAlloc --------------------------------
(***************************************************************************)
(* The node-ID counter of core/src/delta.rs: one AtomicU32 that every      *)
(* ingest bumps before it looks at the limit of its instance's range.      *)
(*                                                                         *)
(* The upper bits of an ID are the instance, the lower ones a local        *)
(* sequence; both widths are parameters here.  A failed call puts its bump *)
(* back, and until it does the others see the counter beyond the limit.    *)
(***************************************************************************)
EXTENDS Naturals, FiniteSets

CONSTANTS
    Callers,    \* calls of alloc_node_id that may overlap
    Instances,  \* number of instance IDs: 256
    RangeSize,  \* IDs per instance: 2^24
    Instance,   \* instance_id
    BaseCounts  \* num_nodes() + nodes_len() at boot, one of these

ASSUME CallersAssumption == IsFiniteSet(Callers)

ASSUME RangeAssumption ==
    /\ Instances \in Nat /\ RangeSize \in Nat \ {0}
    /\ Instance \in Nat /\ Instance < Instances
    /\ BaseCounts \subseteq Nat

Modulus == Instances * RangeSize
Floor   == Instance * RangeSize
Limit   == Floor + (RangeSize - 1)

VARIABLES
    base,     \* what init_node_ids was called with
    counter,  \* next_node_id
    seen,     \* per call: what fetch_add returned, or NoId
    issued    \* the IDs handed out since boot

vars == <<base, counter, seen, issued>>

NoId == Modulus
Pending == {c \in Callers : seen[c] # NoId}
Failing == {c \in Pending : seen[c] >= Limit}

\* fetch_add and fetch_sub wrap around.
Bumped(n)  == IF n = Modulus - 1 THEN 0 ELSE n + 1
PutDown(n) == IF n = 0 THEN Modulus - 1 ELSE n - 1

\* Mutant: the counter starts at the floor, whatever the graph holds.
StartAtFloor(b) == Floor

\* init_node_ids(base)
Start(b) == IF b > Floor THEN b ELSE Floor

\* next_node_id.fetch_add(1)
FetchAdd(c) ==
    /\ c \notin Pending
    /\ seen' = [seen EXCEPT ![c] = counter]
    /\ counter' = Bumped(counter)
    /\ UNCHANGED <<base, issued>>

\* Mutants: the limit itself is handed out; a call that succeeds puts back too.
IssueLimit(c) ==
    /\ c \in Pending /\ seen[c] <= Limit
    /\ issued' = issued \cup {seen[c]}
    /\ seen' = [seen EXCEPT ![c] = NoId]
    /\ UNCHANGED <<base, counter>>
IssueAndPutBack(c) ==
    /\ c \in Pending /\ seen[c] < Limit
    /\ issued' = issued \cup {seen[c]}
    /\ seen' = [seen EXCEPT ![c] = NoId]
    /\ counter' = PutDown(counter)
    /\ UNCHANGED base

\* The ID is below the limit: Ok(id).
Issue(c) ==
    /\ c \in Pending /\ seen[c] < Limit
    /\ issued' = issued \cup {seen[c]}
    /\ seen' = [seen EXCEPT ![c] = NoId]
    /\ UNCHANGED <<base, counter>>

\* Mutant: the bump of a failed call stays.
PutBackForgotten(c) ==
    /\ c \in Failing
    /\ seen' = [seen EXCEPT ![c] = NoId]
    /\ UNCHANGED <<base, counter, issued>>

\* The range is exhausted: fetch_sub(1), and an error.
PutBack(c) ==
    /\ c \in Failing
    /\ seen' = [seen EXCEPT ![c] = NoId]
    /\ counter' = PutDown(counter)
    /\ UNCHANGED <<base, issued>>

Init ==
    /\ base \in BaseCounts
    /\ counter = Start(base)
    /\ seen = [c \in Callers |-> NoId]
    /\ issued = {}

Next == \E c \in Callers : FetchAdd(c) \/ Issue(c) \/ PutBack(c)

Spec == Init /\ [][Next]_vars

-----------------------------------------------------------------------------
(***************************************************************************)
(* Properties.                                                             *)
(***************************************************************************)
\* The counter is an unsigned integer of its width, and every ID handed out is
\* below the limit that alloc_node_id reports when it runs out.
TypeOK ==
    /\ base \in BaseCounts
    /\ counter \in 0..(Modulus - 1)
    /\ seen \in [Callers -> 0..Modulus]
    /\ issued \subseteq 0..(Limit - 1)

\* alloc_node_id: "non-overlapping".  An ID is never handed out twice, however
\* many calls run into the limit and put their bumps back at the same time.
UniqueIds ==
    /\ \A c \in Pending \ Failing : seen[c] \notin issued
    /\ \A c, d \in Pending \ Failing : seen[c] = seen[d] => c = d

\* "never below the base": an ID is in the range of its instance and is not the
\* index of a node that was there at boot.
FreshIds == \A id \in issued : Floor <= id /\ base <= id

\* No ID is skipped, which is what keeps the IDs of a single instance equal to
\* the indices that merge_into assigns: when no call runs, the counter has moved
\* by the number of IDs handed out.
NoGaps == Pending = {} => counter = Start(base) + Cardinality(issued)

\* The hypothesis of the theorems: the bumps of calls that fail at the same time
\* do not carry the counter past its width.  It does not hold of the last of the
\* 256 instances, whose limit is the greatest 32-bit integer.
NoWrap ==
    \A b \in BaseCounts :
        Limit + Cardinality(Callers) < Modulus /\ Start(b) + Cardinality(Callers) < Modulus

=============================================================================
