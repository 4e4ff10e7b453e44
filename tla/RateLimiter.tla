---------------------------- MODULE RateLimiter ----------------------------
(***************************************************************************)
(* The authentication and rate limiting of the protected routes            *)
(* (src/core/src/middleware/auth.rs, pruner of src/core/src/main.rs).      *)
(* RateLimiter::check runs under one mutex, so a request is one step.  A   *)
(* bucket keeps what was left at its last use and the time since then; the *)
(* f64 arithmetic is done exactly, in parts of a token.  The limiter of    *)
(* the public routes is the same structure keyed by address, without the   *)
(* first test and without the pruner: its steps are a subset of these.     *)
(***************************************************************************)
EXTENDS Integers

CONSTANTS Headers,      \* the keys clients send
          EmptyKey,     \* the one of a request without a key
          Anonymous,    \* the bucket such requests share
          NoMaster,     \* MASTER_KEY unset: every key is let in
          MasterKeys,   \* the values MASTER_KEY may have at boot
          Unit,         \* parts of a token
          Rate,         \* parts refilled in a tick
          Capacity,     \* parts of a full bucket
          PruneAfter,   \* ticks without a request before a bucket is dropped
          PruneEvery,   \* ticks the pruner sleeps
          MaxIdle,      \* bound: greater idle times are not told apart
          MaxWindow     \* bound: the longest interval WindowBound looks at

BucketKeys == (Headers \ {EmptyKey}) \cup {Anonymous}

ASSUME LimiterAssumption ==
    /\ Unit \in Nat \ {0} /\ Rate \in Nat /\ Capacity \in Nat
    /\ PruneAfter \in Nat /\ PruneEvery \in Nat \ {0}
    /\ MaxIdle \in Nat /\ MaxWindow \in Nat
    /\ EmptyKey \in Headers /\ Anonymous # EmptyKey
    /\ MasterKeys \subseteq BucketKeys \cup {NoMaster}

(* A dropped bucket would have been full.  The defaults satisfy it (burst  *)
(* 20, one token a second, ten minutes); no line of the code requires it   *)
(* of RATE_LIMIT_BURST and RATE_LIMIT_PER_MINUTE.                          *)
ASSUME PruneAssumption == Capacity <= Rate * PruneAfter

(* A bucket idle for MaxIdle is full and old enough to be dropped.         *)
ASSUME IdleAssumption == PruneAfter <= MaxIdle

VARIABLES master,       \* the key loaded at boot, or NoMaster
          buckets,      \* the map of buckets: [tokens, idle] of the keys it holds
          sleep,        \* ticks until the pruner wakes
          verdict,      \* the last answer of check
          window        \* history: an interval, and what it let through per key

vars == <<master, buckets, sleep, verdict, window>>

IsValid(h) == master = NoMaster \/ h = master

BucketOf(h) == IF h = EmptyKey THEN Anonymous ELSE h

AtMost(parts) == IF parts <= Capacity THEN parts ELSE Capacity

NewBucket == [tokens |-> Capacity, idle |-> 0]

Held(k) == IF k \in DOMAIN buckets THEN buckets[k] ELSE NewBucket

(* A plausible slip: a full bucket is refilled past its capacity.          *)
RefilledPastCapacity(b) == b.tokens + b.idle * Rate

(* What consume() finds in a bucket after its refill.                      *)
Refilled(b) == AtMost(b.tokens + b.idle * Rate)

PutBucket(k, tokens) ==
    buckets' = [j \in DOMAIN buckets \cup {k} |->
                  IF j = k THEN [tokens |-> tokens, idle |-> 0] ELSE buckets[j]]

Init == /\ master \in MasterKeys
        /\ buckets = [k \in {} |-> NewBucket]
        /\ sleep = PruneEvery
        /\ verdict = <<>>
        /\ window = [elapsed |-> 0, allowed |-> [k \in BucketKeys |-> 0]]

(* 401: the limiter is not asked.                                          *)
Unauthorized(h) == ~IsValid(h) /\ UNCHANGED vars

Allowed(h) ==
    LET k == BucketOf(h) IN
    /\ IsValid(h)
    /\ Refilled(Held(k)) >= Unit
    /\ PutBucket(k, Refilled(Held(k)) - Unit)
    /\ verdict' = <<k, TRUE>>
    /\ window' = [window EXCEPT !.allowed[k] = @ + 1]
    /\ UNCHANGED <<master, sleep>>

(* A plausible slip: last_refill moves but the refill is lost.             *)
RefusedLosesRefill(h) ==
    LET k == BucketOf(h) IN
    /\ IsValid(h)
    /\ Refilled(Held(k)) < Unit
    /\ PutBucket(k, Held(k).tokens)
    /\ verdict' = <<k, FALSE>>
    /\ UNCHANGED <<master, sleep, window>>

(* 429: the refill is kept.                                                *)
Refused(h) ==
    LET k == BucketOf(h) IN
    /\ IsValid(h)
    /\ Refilled(Held(k)) < Unit
    /\ PutBucket(k, Refilled(Held(k)))
    /\ verdict' = <<k, FALSE>>
    /\ UNCHANGED <<master, sleep, window>>

(* A plausible slip: the cutoff is the pruner's period.                    *)
PruneAsleep ==
    /\ sleep = 0
    /\ sleep' = PruneEvery
    /\ buckets' = [k \in {j \in DOMAIN buckets : buckets[j].idle < PruneEvery} |-> buckets[k]]
    /\ UNCHANGED <<master, verdict, window>>

Prune ==
    /\ sleep = 0
    /\ sleep' = PruneEvery
    /\ buckets' = [k \in {j \in DOMAIN buckets : buckets[j].idle < PruneAfter} |-> buckets[k]]
    /\ UNCHANGED <<master, verdict, window>>

(* Time passes.  The interval goes on, or ends here and a new one starts.  *)
Tick ==
    /\ buckets' = [k \in DOMAIN buckets |->
                     [buckets[k] EXCEPT !.idle = IF @ < MaxIdle THEN @ + 1 ELSE @]]
    /\ sleep' = IF sleep > 0 THEN sleep - 1 ELSE 0
    /\ \/ window.elapsed < MaxWindow /\ window' = [window EXCEPT !.elapsed = @ + 1]
       \/ window' = [elapsed |-> 0, allowed |-> [k \in BucketKeys |-> 0]]
    /\ UNCHANGED <<master, verdict>>

Next == \/ \E h \in Headers : Unauthorized(h) \/ Allowed(h) \/ Refused(h)
        \/ Prune
        \/ Tick

Spec == Init /\ [][Next]_vars

-----------------------------------------------------------------------------
(* The shape of the state; the tokens never exceed the capacity and never  *)
(* go below zero, and only keys that may pass own a bucket.                *)
TypeOK ==
    /\ master \in MasterKeys
    /\ DOMAIN buckets \subseteq IF master = NoMaster THEN BucketKeys ELSE {master}
    /\ buckets \in [DOMAIN buckets -> [tokens : 0..Capacity, idle : 0..MaxIdle]]
    /\ sleep \in 0..PruneEvery
    /\ verdict = <<>> \/ verdict \in BucketKeys \X BOOLEAN
    /\ window \in [elapsed : 0..MaxWindow, allowed : [BucketKeys -> Nat]]

(* What the buckets would hold were they refilled at every tick.           *)
Level == [k \in BucketKeys |-> Refilled(Held(k))]

Promise == INSTANCE TokenBucket WITH Keys <- BucketKeys, level <- Level

(* Buckets that are refilled when used and dropped when idle answer every  *)
(* request as buckets refilled all the time and never dropped would: the   *)
(* pruner (auth.rs:84-91) gives nobody tokens back before their time.      *)
ImplementsPromise == Promise!Spec

(* In no interval does a key get more requests through than a full bucket  *)
(* and the refill of that interval pay for, whatever the pruner drops.     *)
WindowBound ==
    \A k \in BucketKeys : Unit * window.allowed[k] <= Capacity + Rate * window.elapsed
=============================================================================
