---------------------------- MODULE TokenBucket ----------------------------
(***************************************************************************)
(* What a rate limiter promises (src/core/src/middleware/auth.rs:1-10), as *)
(* an abstract specification: every key owns a bucket that is full at      *)
(* first, gains Rate parts a tick up to Capacity, and pays Unit parts for  *)
(* each request let through.  A refused request costs nothing, and no key  *)
(* is ever forgotten.  RateLimiter implements it with buckets that are     *)
(* refilled only when they are used and dropped when they are idle.        *)
(***************************************************************************)
EXTENDS Naturals

CONSTANTS Keys,       \* the keys that own a bucket
          Unit,       \* parts of a token: what one request costs
          Rate,       \* parts gained in a tick
          Capacity    \* parts of a full bucket

VARIABLES level,      \* the parts in every key's bucket
          verdict     \* the last answer: <<key, allowed>>

vars == <<level, verdict>>

AtMost(parts) == IF parts <= Capacity THEN parts ELSE Capacity

Init == /\ level = [k \in Keys |-> Capacity]
        /\ verdict = <<>>

Tick == /\ level' = [k \in Keys |-> AtMost(level[k] + Rate)]
        /\ UNCHANGED verdict

Allow(k) == /\ level[k] >= Unit
            /\ level' = [level EXCEPT ![k] = @ - Unit]
            /\ verdict' = <<k, TRUE>>

Refuse(k) == /\ level[k] < Unit
             /\ verdict' = <<k, FALSE>>
             /\ UNCHANGED level

Next == Tick \/ \E k \in Keys : Allow(k) \/ Refuse(k)

Spec == Init /\ [][Next]_vars
=============================================================================
