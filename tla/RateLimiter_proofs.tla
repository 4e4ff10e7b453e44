------------------------- MODULE RateLimiter_proofs -------------------------
(***************************************************************************)
(* For any keys, rates and capacities with PruneAssumption: the lazy and   *)
(* pruned buckets of RateLimiter implement TokenBucket, and no interval    *)
(* lets more through than a full bucket and its refill pay for.            *)
(***************************************************************************)
EXTENDS RateLimiter, TLAPS

(* More idle time refills no less.                                         *)
LEMMA IdleMonotone == \A i, j, r \in Nat : i <= j => r * i <= r * j
  OBVIOUS

(* A bucket idle long enough to be dropped is full.                        *)
LEMMA IdleIsFull ==
  ASSUME NEW b \in [tokens : 0..Capacity, idle : 0..MaxIdle], b.idle >= PruneAfter
  PROVE  Refilled(b) = Capacity
<1>1. Rate * PruneAfter <= Rate * b.idle
  BY IdleMonotone, LimiterAssumption
<1>2. b.idle * Rate = Rate * b.idle
  BY LimiterAssumption
<1>3. b.tokens + b.idle * Rate >= Capacity
  BY <1>1, <1>2, PruneAssumption, LimiterAssumption
<1> QED
  BY <1>3, LimiterAssumption DEF Refilled, AtMost

(* What a refill leaves in a bucket is a number of parts that fits in it.  *)
LEMMA RefilledFits ==
  ASSUME NEW b \in [tokens : 0..Capacity, idle : 0..MaxIdle]
  PROVE  Refilled(b) \in 0..Capacity
<1>1. b.idle * Rate \in Nat
  BY LimiterAssumption
<1> QED
  BY <1>1, LimiterAssumption DEF Refilled, AtMost

(* One more tick of idle time is one more tick of refill: nothing is lost  *)
(* where the model stops to count idle time.                               *)
LEMMA IdleTick ==
  ASSUME NEW b \in [tokens : 0..Capacity, idle : 0..MaxIdle],
         NEW c, c = [b EXCEPT !.idle = IF @ < MaxIdle THEN @ + 1 ELSE @]
  PROVE  /\ c \in [tokens : 0..Capacity, idle : 0..MaxIdle]
         /\ Refilled(c) = AtMost(Refilled(b) + Rate)
<1>1. c \in [tokens : 0..Capacity, idle : 0..MaxIdle]
  BY LimiterAssumption
<1>2. CASE b.idle < MaxIdle
  <2>1. c.tokens = b.tokens /\ c.idle = b.idle + 1
    BY <1>2
  <2>2. c.idle * Rate = b.idle * Rate + Rate
    BY <2>1, LimiterAssumption
  <2>3. b.idle * Rate \in Nat
    BY LimiterAssumption
  <2>4. Refilled(c) = AtMost(b.tokens + b.idle * Rate + Rate)
    BY <2>1, <2>2, <2>3, LimiterAssumption DEF Refilled
  <2> QED
    BY <1>1, <2>3, <2>4, LimiterAssumption DEF Refilled, AtMost
<1>3. CASE b.idle = MaxIdle
  <2>1. c = b
    BY <1>3
  <2>2. Refilled(b) = Capacity
    BY <1>3, IdleIsFull, IdleAssumption, LimiterAssumption
  <2> QED
    BY <1>1, <2>1, <2>2, LimiterAssumption DEF AtMost
<1> QED
  BY <1>2, <1>3, LimiterAssumption

(* A bucket that may be asked is shaped like one.                          *)
LEMMA HeldIsBucket ==
  ASSUME TypeOK, NEW k \in BucketKeys
  PROVE  Held(k) \in [tokens : 0..Capacity, idle : 0..MaxIdle]
  BY LimiterAssumption DEF TypeOK, Held, NewBucket

(* A request that passes the first test asks the bucket of a key that may. *)
LEMMA BucketOfValid ==
  ASSUME TypeOK, NEW h \in Headers, IsValid(h)
  PROVE  /\ BucketOf(h) \in BucketKeys
         /\ BucketOf(h) \in IF master = NoMaster THEN BucketKeys ELSE {master}
  BY LimiterAssumption DEF TypeOK, IsValid, BucketOf, BucketKeys

-----------------------------------------------------------------------------
(* Buckets, the pruner and the interval keep their shape in every step.    *)
LEMMA TypeStep == TypeOK /\ [Next]_vars => TypeOK'
<1> SUFFICES ASSUME TypeOK, [Next]_vars PROVE TypeOK'
  OBVIOUS
<1> USE LimiterAssumption
<1>1. ASSUME NEW h \in Headers, Unauthorized(h) PROVE TypeOK'
  BY <1>1 DEF Unauthorized, vars, TypeOK
<1>2. ASSUME NEW h \in Headers, Allowed(h) PROVE TypeOK'
  <2> DEFINE k == BucketOf(h)
  <2>1. /\ k \in BucketKeys
        /\ k \in IF master = NoMaster THEN BucketKeys ELSE {master}
    BY <1>2, BucketOfValid DEF Allowed
  <2>2. Refilled(Held(k)) - Unit \in 0..Capacity
    BY <1>2, <2>1, HeldIsBucket, RefilledFits DEF Allowed
  <2>3. /\ DOMAIN buckets' \subseteq IF master = NoMaster THEN BucketKeys ELSE {master}
        /\ buckets' \in [DOMAIN buckets' -> [tokens : 0..Capacity, idle : 0..MaxIdle]]
    BY <1>2, <2>1, <2>2 DEF Allowed, PutBucket, TypeOK
  <2>4. window' \in [elapsed : 0..MaxWindow, allowed : [BucketKeys -> Nat]]
    <3>1. window' = [window EXCEPT !.allowed = [window.allowed EXCEPT ![k] = @ + 1]]
      BY <1>2 DEF Allowed
    <3>2. window \in [elapsed : 0..MaxWindow, allowed : [BucketKeys -> Nat]]
      BY DEF TypeOK
    <3> HIDE DEF k
    <3> QED
      BY <2>1, <3>1, <3>2
  <2> QED
    BY <1>2, <2>1, <2>3, <2>4 DEF Allowed, TypeOK
<1>3. ASSUME NEW h \in Headers, Refused(h) PROVE TypeOK'
  <2> DEFINE k == BucketOf(h)
  <2>1. /\ k \in BucketKeys
        /\ k \in IF master = NoMaster THEN BucketKeys ELSE {master}
    BY <1>3, BucketOfValid DEF Refused
  <2>2. Refilled(Held(k)) \in 0..Capacity
    BY <2>1, HeldIsBucket, RefilledFits
  <2>3. /\ DOMAIN buckets' \subseteq IF master = NoMaster THEN BucketKeys ELSE {master}
        /\ buckets' \in [DOMAIN buckets' -> [tokens : 0..Capacity, idle : 0..MaxIdle]]
    BY <1>3, <2>1, <2>2 DEF Refused, PutBucket, TypeOK
  <2> QED
    BY <1>3, <2>1, <2>3 DEF Refused, TypeOK
<1>4. ASSUME Prune PROVE TypeOK'
  BY <1>4 DEF Prune, TypeOK
<1>5. ASSUME Tick PROVE TypeOK'
  <2>1. /\ DOMAIN buckets' = DOMAIN buckets
        /\ buckets' \in [DOMAIN buckets -> [tokens : 0..Capacity, idle : 0..MaxIdle]]
    BY <1>5, IdleTick DEF Tick, TypeOK
  <2>2. window' \in [elapsed : 0..MaxWindow, allowed : [BucketKeys -> Nat]]
    <3>1. window \in [elapsed : 0..MaxWindow, allowed : [BucketKeys -> Nat]]
      BY DEF TypeOK
    <3>2. CASE window.elapsed < MaxWindow /\ window' = [window EXCEPT !.elapsed = @ + 1]
      BY <3>1, <3>2
    <3>3. CASE window' = [elapsed |-> 0, allowed |-> [k \in BucketKeys |-> 0]]
      BY <3>3
    <3> QED
      BY <1>5, <3>2, <3>3 DEF Tick
  <2>3. sleep' \in 0..PruneEvery
    BY <1>5 DEF Tick, TypeOK
  <2> QED
    BY <1>5, <2>1, <2>2, <2>3 DEF Tick, TypeOK
<1>6. ASSUME UNCHANGED vars PROVE TypeOK'
  BY <1>6 DEF vars, TypeOK
<1> QED
  BY <1>1, <1>2, <1>3, <1>4, <1>5, <1>6 DEF Next

(* The initial state has the shape.                                        *)
LEMMA TypeInit == Init => TypeOK
  BY LimiterAssumption DEF Init, TypeOK

(* RateLimiter.TypeOK: no bucket holds more than its capacity or less than *)
(* nothing, and only keys that pass the first test own one.                *)
THEOREM TypeCorrect == Spec => []TypeOK
  BY TypeInit, TypeStep, PTL DEF Spec

-----------------------------------------------------------------------------
(* The level of a key after check() has replaced its bucket.               *)
LEMMA PutLevel ==
  ASSUME TypeOK, NEW k \in BucketKeys, NEW tokens \in 0..Capacity, PutBucket(k, tokens)
  PROVE  Level' = [Level EXCEPT ![k] = tokens]
<1>1. Refilled([tokens |-> tokens, idle |-> 0]) = tokens
  BY LimiterAssumption DEF Refilled, AtMost
<1>2. Held(k)' = [tokens |-> tokens, idle |-> 0]
  BY DEF PutBucket, Held
<1>3. ASSUME NEW j \in BucketKeys, j # k PROVE Held(j)' = Held(j)
  BY <1>3 DEF PutBucket, Held
<1> QED
  BY <1>1, <1>2, <1>3 DEF Level, Refilled

(* A new bucket is full.                                                   *)
LEMMA NewIsFull == Refilled(NewBucket) = Capacity
  BY LimiterAssumption DEF Refilled, AtMost, NewBucket

(* Dropping a bucket gives its key nothing.                                *)
LEMMA PruneLevel ==
  ASSUME TypeOK, Prune
  PROVE  Level' = Level
<1>1. ASSUME NEW k \in BucketKeys PROVE Refilled(Held(k)') = Refilled(Held(k))
  <2>1. CASE k \in DOMAIN buckets /\ buckets[k].idle >= PruneAfter
    <3>1. Held(k)' = NewBucket
      BY <2>1, LimiterAssumption DEF Prune, Held, NewBucket, TypeOK
    <3>2. Refilled(Held(k)) = Capacity
      BY <2>1, HeldIsBucket, IdleIsFull DEF Held
    <3> QED
      BY <3>1, <3>2, NewIsFull
  <2>2. CASE k \in DOMAIN buckets /\ ~(buckets[k].idle >= PruneAfter)
    BY <2>2, LimiterAssumption DEF Prune, Held, NewBucket, TypeOK
  <2>3. CASE k \notin DOMAIN buckets
    BY <2>3 DEF Prune, Held, NewBucket
  <2> QED
    BY <2>1, <2>2, <2>3
<1> QED
  BY <1>1 DEF Level, Refilled

(* A tick refills every level, those of absent buckets included.           *)
LEMMA TickLevel ==
  ASSUME TypeOK, Tick
  PROVE  Level' = [k \in BucketKeys |-> AtMost(Level[k] + Rate)]
<1>1. ASSUME NEW k \in BucketKeys
      PROVE  Refilled(Held(k)') = AtMost(Refilled(Held(k)) + Rate)
  <2>1. CASE k \in DOMAIN buckets
    <3>1. /\ Held(k) = buckets[k]
          /\ Held(k)' = [buckets[k] EXCEPT !.idle = IF @ < MaxIdle THEN @ + 1 ELSE @]
      BY <2>1 DEF Tick, Held
    <3> QED
      BY <3>1, HeldIsBucket, IdleTick
  <2>2. CASE k \notin DOMAIN buckets
    <3>1. Held(k) = NewBucket /\ Held(k)' = NewBucket
      BY <2>2 DEF Tick, Held, NewBucket
    <3> QED
      BY <3>1, NewIsFull, LimiterAssumption DEF AtMost
  <2> QED
    BY <2>1, <2>2
<1> QED
  BY <1>1 DEF Level, Refilled, AtMost

(* Every step of the limiter is one of the promise, or a stutter.          *)
LEMMA PromiseStep == TypeOK /\ [Next]_vars => [Promise!Next]_(Promise!vars)
<1> SUFFICES ASSUME TypeOK, [Next]_vars PROVE [Promise!Next]_(Promise!vars)
  OBVIOUS
<1>1. ASSUME NEW h \in Headers, Unauthorized(h) PROVE UNCHANGED Promise!vars
  BY <1>1 DEF Unauthorized, vars, Promise!vars, Level, Held, NewBucket, Refilled, AtMost
<1>2. ASSUME NEW h \in Headers, Allowed(h) PROVE Promise!Next
  <2> DEFINE k == BucketOf(h)
  <2>1. k \in BucketKeys
    BY <1>2, BucketOfValid DEF Allowed
  <2>2. Level[k] = Refilled(Held(k)) /\ Level[k] \in 0..Capacity /\ Level[k] >= Unit
    BY <1>2, <2>1, HeldIsBucket, RefilledFits DEF Level, Allowed
  <2>3. Level' = [Level EXCEPT ![k] = @ - Unit]
    <3>1. Level[k] - Unit \in 0..Capacity
      BY <2>2, LimiterAssumption
    <3>2. PutBucket(k, Level[k] - Unit)
      BY <1>2, <2>2 DEF Allowed
    <3> HIDE DEF k
    <3>3. Level' = [Level EXCEPT ![k] = Level[k] - Unit]
      BY <2>1, <3>1, <3>2, PutLevel
    <3> QED
      BY <3>3
  <2>4. Promise!Allow(k)
    BY <1>2, <2>2, <2>3 DEF Promise!Allow, Allowed
  <2> QED
    BY <2>1, <2>4 DEF Promise!Next
<1>3. ASSUME NEW h \in Headers, Refused(h) PROVE Promise!Next
  <2> DEFINE k == BucketOf(h)
  <2>1. k \in BucketKeys
    BY <1>3, BucketOfValid DEF Refused
  <2>2. Level[k] = Refilled(Held(k)) /\ Level[k] \in 0..Capacity /\ Level[k] < Unit
    BY <1>3, <2>1, HeldIsBucket, RefilledFits DEF Level, Refused
  <2>3. PutBucket(k, Level[k])
    BY <1>3, <2>2 DEF Refused
  <2>4. Level' = Level
    <3> HIDE DEF k
    <3>1. Level' = [Level EXCEPT ![k] = Level[k]]
      BY <2>1, <2>2, <2>3, PutLevel
    <3> QED
      BY <3>1 DEF Level
  <2>5. Promise!Refuse(k)
    BY <1>3, <2>2, <2>4 DEF Promise!Refuse, Refused
  <2> QED
    BY <2>1, <2>5 DEF Promise!Next
<1>4. ASSUME Prune PROVE UNCHANGED Promise!vars
  BY <1>4, PruneLevel DEF Promise!vars, Prune
<1>5. ASSUME Tick PROVE Promise!Next
  <2>1. Promise!Tick
    BY <1>5, TickLevel DEF Promise!Tick, Promise!AtMost, AtMost, Tick
  <2> QED
    BY <2>1 DEF Promise!Next
<1>6. ASSUME UNCHANGED vars PROVE UNCHANGED Promise!vars
  BY <1>6 DEF vars, Promise!vars, Level, Held, NewBucket, Refilled, AtMost
<1> QED
  BY <1>1, <1>2, <1>3, <1>4, <1>5, <1>6 DEF Next

(* All levels are full at boot.                                            *)
LEMMA PromiseInit == Init => Promise!Init
  BY NewIsFull DEF Init, Promise!Init, Level, Held

(* RateLimiter.ImplementsPromise: lazy refill and pruning are invisible.   *)
THEOREM LimiterImplementsTokenBucket == Spec => ImplementsPromise
  BY PromiseInit, PromiseStep, TypeInit, TypeStep, PTL
     DEF Spec, Promise!Spec, ImplementsPromise

-----------------------------------------------------------------------------
(* What a key was let through since the interval began and what it holds   *)
(* now were paid for by a full bucket and the refill of the interval.      *)
Paid == \A k \in BucketKeys :
          Unit * window.allowed[k] + Level[k] <= Capacity + Rate * window.elapsed

(* The levels are what a refill leaves.                                    *)
LEMMA LevelType == ASSUME TypeOK PROVE Level \in [BucketKeys -> 0..Capacity]
  BY HeldIsBucket, RefilledFits DEF Level

(* Nothing was let through before boot.                                    *)
LEMMA PaidInit == Init => Paid
<1> SUFFICES ASSUME Init, NEW k \in BucketKeys
             PROVE  Unit * window.allowed[k] + Level[k] <= Capacity + Rate * window.elapsed
  BY DEF Paid
<1>1. window.allowed[k] = 0 /\ window.elapsed = 0
  BY DEF Init
<1>2. Level[k] = Capacity
  BY NewIsFull DEF Init, Level, Held
<1> QED
  BY <1>1, <1>2, LimiterAssumption

(* Every step keeps the books: an answer moves a token from the level to   *)
(* the count, a tick pays at most Rate, pruning moves nothing.             *)
LEMMA PaidStep == TypeOK /\ Paid /\ [Next]_vars => Paid'
<1> SUFFICES ASSUME TypeOK, Paid, [Next]_vars, NEW k \in BucketKeys
             PROVE  Unit * window'.allowed[k] + Level'[k] <= Capacity + Rate * window'.elapsed
  BY DEF Paid
<1> USE LimiterAssumption
<1>1. /\ window.allowed \in [BucketKeys -> Nat] /\ window.elapsed \in Nat
      /\ Level \in [BucketKeys -> 0..Capacity]
      /\ Unit * window.allowed[k] + Level[k] <= Capacity + Rate * window.elapsed
  <2>1. window \in [elapsed : 0..MaxWindow, allowed : [BucketKeys -> Nat]]
    BY DEF TypeOK
  <2>2. window.elapsed \in 0..MaxWindow /\ window.allowed \in [BucketKeys -> Nat]
    BY <2>1
  <2>3. Unit * window.allowed[k] + Level[k] <= Capacity + Rate * window.elapsed
    BY DEF Paid
  <2> QED
    BY <2>2, <2>3, LevelType
<1>2. ASSUME UNCHANGED <<Level, window>>
      PROVE  Unit * window'.allowed[k] + Level'[k] <= Capacity + Rate * window'.elapsed
  BY <1>1, <1>2
<1>3. ASSUME NEW h \in Headers, Unauthorized(h) PROVE UNCHANGED <<Level, window>>
  BY <1>3 DEF Unauthorized, vars, Level, Held, NewBucket, Refilled, AtMost
<1>4. ASSUME NEW h \in Headers, Allowed(h)
      PROVE  Unit * window'.allowed[k] + Level'[k] <= Capacity + Rate * window'.elapsed
  <2> DEFINE b == BucketOf(h)
  <2>1. b \in BucketKeys
    BY <1>4, BucketOfValid DEF Allowed
  <2>2. Level[b] = Refilled(Held(b)) /\ Level[b] >= Unit
    BY <1>4, <2>1 DEF Level, Allowed
  <2>3. PutBucket(b, Level[b] - Unit) /\ window' = [window EXCEPT !.allowed[b] = @ + 1]
    BY <1>4, <2>2 DEF Allowed
  <2> HIDE DEF b
  <2>4. Level' = [Level EXCEPT ![b] = Level[b] - Unit]
    BY <1>1, <2>1, <2>2, <2>3, PutLevel
  <2>5. window'.elapsed = window.elapsed
    BY <2>3 DEF TypeOK
  <2>6. CASE b = k
    <3>1. window'.allowed[k] = window.allowed[k] + 1 /\ Level'[k] = Level[k] - Unit
      BY <1>1, <2>1, <2>3, <2>4, <2>6 DEF TypeOK
    <3>2. Unit * window'.allowed[k] = Unit * window.allowed[k] + Unit
      BY <1>1, <3>1
    <3> QED
      BY <1>1, <2>5, <3>1, <3>2
  <2>7. CASE b # k
    <3>1. window'.allowed[k] = window.allowed[k] /\ Level'[k] = Level[k]
      BY <1>1, <2>1, <2>3, <2>4, <2>7 DEF TypeOK
    <3> QED
      BY <1>1, <2>5, <3>1
  <2> QED
    BY <2>6, <2>7
<1>5. ASSUME NEW h \in Headers, Refused(h) PROVE UNCHANGED <<Level, window>>
  <2> DEFINE b == BucketOf(h)
  <2>1. b \in BucketKeys
    BY <1>5, BucketOfValid DEF Refused
  <2>2. PutBucket(b, Level[b]) /\ window' = window
    BY <1>5, <2>1 DEF Refused, Level
  <2> HIDE DEF b
  <2>3. Level' = [Level EXCEPT ![b] = Level[b]]
    BY <1>1, <2>1, <2>2, PutLevel
  <2> QED
    BY <2>2, <2>3 DEF Level
<1>6. ASSUME Prune PROVE UNCHANGED <<Level, window>>
  BY <1>6, PruneLevel DEF Prune
<1>7. ASSUME Tick
      PROVE  Unit * window'.allowed[k] + Level'[k] <= Capacity + Rate * window'.elapsed
  <2>1. Level'[k] = AtMost(Level[k] + Rate)
    BY <1>7, TickLevel
  <2>2. Level'[k] <= Level[k] + Rate /\ Level'[k] \in 0..Capacity
    BY <1>1, <2>1 DEF AtMost
  <2>3. CASE window' = [window EXCEPT !.elapsed = @ + 1]
    <3>1. window'.allowed[k] = window.allowed[k] /\ window'.elapsed = window.elapsed + 1
      BY <1>1, <2>3 DEF TypeOK
    <3>2. Rate * window'.elapsed = Rate * window.elapsed + Rate
      BY <1>1, <3>1
    <3>3. Unit * window.allowed[k] \in Nat /\ Rate * window.elapsed \in Nat
      BY <1>1
    <3> QED
      BY <1>1, <2>2, <3>1, <3>2, <3>3
  <2>4. CASE window' = [elapsed |-> 0, allowed |-> [j \in BucketKeys |-> 0]]
    <3>1. window'.allowed[k] = 0 /\ window'.elapsed = 0
      BY <2>4
    <3> QED
      BY <2>2, <3>1
  <2> QED
    BY <1>7, <2>3, <2>4 DEF Tick
<1>8. ASSUME UNCHANGED vars PROVE UNCHANGED <<Level, window>>
  BY <1>8 DEF vars, Level, Held, NewBucket, Refilled, AtMost
<1> QED
  BY <1>2, <1>3, <1>4, <1>5, <1>6, <1>7, <1>8 DEF Next

(* The books imply the bound: no level is negative.                        *)
LEMMA PaidBound == TypeOK /\ Paid => WindowBound
<1> SUFFICES ASSUME TypeOK, Paid, NEW k \in BucketKeys
             PROVE  Unit * window.allowed[k] <= Capacity + Rate * window.elapsed
  BY DEF WindowBound
<1>1. /\ window.allowed[k] \in Nat /\ window.elapsed \in Nat /\ Level[k] \in 0..Capacity
      /\ Unit * window.allowed[k] + Level[k] <= Capacity + Rate * window.elapsed
  BY LevelType DEF TypeOK, Paid
<1>2. Unit * window.allowed[k] \in Nat /\ Rate * window.elapsed \in Nat
  BY <1>1, LimiterAssumption
<1> QED
  BY <1>1, <1>2, LimiterAssumption

(* RateLimiter.WindowBound: what a key gets through in any interval.       *)
THEOREM WindowIsBounded == Spec => []WindowBound
  BY TypeInit, TypeStep, PaidInit, PaidStep, PaidBound, PTL DEF Spec
=============================================================================
