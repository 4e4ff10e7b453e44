-------------------------------- MODULE MCEngine --------------------------------
(***************************************************************************)
(* Instances of Engine for TLC: the requests of each run.                  *)
(***************************************************************************)
EXTENDS EngineRefinement, TLC

CONSTANTS w1, w2, w3, a, b, c, d

Req(es, rs) == [ents |-> es, rels |-> rs, mode |-> "embedding"]
Raw(es, rs) == [ents |-> es, rels |-> rs, mode |-> "none"]

Seed == <<a>>

\* One client after the other: new entities, known ones (of the snapshot, the
\* delta and the batch), and relations that join them.
SerialRequest ==
    w1 :> Req(<<a, b, c>>, <<<<1, 2>>, <<2, 3>>>>)
    @@ w2 :> Req(<<c, d, d>>, <<<<1, 2>>, <<3, 1>>>>)
    @@ w3 :> Raw(<<b>>, <<<<1, 1>>>>)

\* Two clients at once, which create one entity each and relate it.
PairRequest ==
    w1 :> Req(<<a, b>>, <<<<1, 2>>>>) @@ w2 :> Req(<<c, b>>, <<<<1, 2>>>>)

\* Two clients whose requests each make a merge due.
OverlapRequest ==
    w1 :> Req(<<a, b>>, <<<<1, 2>>>>) @@ w2 :> Req(<<c>>, <<<<1, 1>>>>)

MergerSymmetry == Permutations(Mergers)

=============================================================================
