------------------------------- MODULE MCHotSwap -------------------------------
(***************************************************************************)
(* Instances of HotSwap for TLC: which handlers run at the same time.      *)
(***************************************************************************)
EXTENDS HotSwap, TLC

CONSTANTS t1, t2, t3, t4

\* A search, a multi-hop query, an ingest and the merge they race.
Queries == t1 :> "text" @@ t2 :> "multihop" @@ t3 :> "ingest" @@ t4 :> "merge"

\* Handlers that take the locks in order, and two merges that overlap.
Ordered == t1 :> "node" @@ t2 :> "ingest" @@ t3 :> "merge" @@ t4 :> "merge"

SearchAndMerge == t1 :> "text" @@ t2 :> "merge"
StatsAndIngest == t1 :> "stats" @@ t2 :> "ingest"

=============================================================================
