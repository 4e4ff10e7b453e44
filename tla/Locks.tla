--------------------------------- MODULE Locks ---------------------------------
(***************************************************************************)
(* The reader-writer locks of AppState.  Four are tokio's: fair, a request *)
(* waits behind every earlier one, a reader behind a waiting writer too.   *)
(* The delta's is std's: a writer takes it as soon as nobody holds it, a   *)
(* reader waits while a writer waits.  Neither knows which task asks, so a *)
(* task that holds a read guard waits for its second one like any other.   *)
(***************************************************************************)
EXTENDS Naturals, Sequences

CONSTANTS Tasks, Nobody

ASSUME NobodyAssumption == Nobody \notin Tasks

IndexLocks == {"graph", "hnsw", "edge_hnsw", "store"}
Locks == IndexLocks \cup {"delta"}

VARIABLES
    queue,    \* per lock: the requests that wait, [task, mode], in order
    readers,  \* per lock and task: how many read guards it holds
    writer    \* per lock: the task that holds the write guard

lockVars == <<queue, readers, writer>>

WritersWait(l) == \E i \in DOMAIN queue[l] : queue[l][i].mode = "write"

\* Mutant: a writer does not wait for the readers.
GrantableOverReaders(l, mode) == writer[l] = Nobody

Grantable(l, mode) ==
    /\ writer[l] = Nobody
    /\ mode = "write" => \A t \in Tasks : readers[l][t] = 0

MayBarge(l, mode) ==
    IF l = "delta" THEN mode = "read" => ~ WritersWait(l) ELSE queue[l] = <<>>

Take(t, l, mode) ==
    IF mode = "read"
    THEN readers' = [readers EXCEPT ![l][t] = @ + 1] /\ UNCHANGED writer
    ELSE writer' = [writer EXCEPT ![l] = t] /\ UNCHANGED readers

\* read() or write(): the guard at once, or a place in the queue.
Acquire(t, l, mode) ==
    IF Grantable(l, mode) /\ MayBarge(l, mode)
    THEN Take(t, l, mode) /\ UNCHANGED queue
    ELSE /\ queue' = [queue EXCEPT ![l] = Append(@, [task |-> t, mode |-> mode])]
         /\ UNCHANGED <<readers, writer>>

Without(s, i) == SubSeq(s, 1, i - 1) \o SubSeq(s, i + 1, Len(s))

\* The lock is given to a request that waits.
Serve(l) ==
    \E i \in DOMAIN queue[l] :
        LET r == queue[l][i]
        IN  /\ IF l = "delta" THEN r.mode = "read" => ~ WritersWait(l) ELSE i = 1
            /\ Grantable(l, r.mode)
            /\ Take(r.task, l, r.mode)
            /\ queue' = [queue EXCEPT ![l] = Without(@, i)]

Release(t, l) ==
    /\ readers' = [readers EXCEPT ![l][t] = 0]
    /\ writer' = [writer EXCEPT ![l] = IF @ = t THEN Nobody ELSE @]
    /\ UNCHANGED queue

\* A task has at most one place in a queue.
Leave(s, t) ==
    LET mine == {i \in DOMAIN s : s[i].task = t}
    IN  IF mine = {} THEN s ELSE Without(s, CHOOSE i \in mine : TRUE)

\* The future of t is dropped, with its guards and its place in every queue.
Abandon(t) ==
    /\ readers' = [l \in Locks |-> [readers[l] EXCEPT ![t] = 0]]
    /\ writer' = [l \in Locks |-> IF writer[l] = t THEN Nobody ELSE writer[l]]
    /\ queue' = [l \in Locks |-> Leave(queue[l], t)]

LocksInit ==
    /\ queue = [l \in Locks |-> <<>>]
    /\ readers = [l \in Locks |-> [t \in Tasks |-> 0]]
    /\ writer = [l \in Locks |-> Nobody]

-----------------------------------------------------------------------------
Modes == {"read", "write"}
WaitsFor(t, l) == \E i \in DOMAIN queue[l] : queue[l][i].task = t
Waits(t) == \E l \in Locks : WaitsFor(t, l)
Holds(t, l) == readers[l][t] > 0 \/ writer[l] = t

LocksTypeOK ==
    /\ queue \in [Locks -> Seq([task : Tasks, mode : Modes])]
    /\ readers \in [Locks -> [Tasks -> Nat]]
    /\ writer \in [Locks -> Tasks \cup {Nobody}]

=============================================================================
