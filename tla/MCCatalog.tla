------------------------------- MODULE MCCatalog -------------------------------
(***************************************************************************)
(* Instances of Catalog for TLC.                                           *)
(***************************************************************************)
EXTENDS Catalog, TLC

CONSTANTS a, b, c, t, u

TypeWeights == t :> 1 @@ u :> 2

\* A snapshot of two entities and a relation between them.
Related(x, y) ==
    [nodes |-> <<[id |-> 0, ent |-> x, origin |-> "full"], [id |-> 1, ent |-> y, origin |-> "full"]>>,
     edges |-> <<[from |-> 0, to |-> 1, src |-> x, dst |-> y,
                  origin |-> [type |-> t, weight |-> 1, dim |-> "full"]]>>]

EmptyOrRelated == {Empty} \cup {Related(p[1], p[2]) : p \in {p \in Names \X Names : p[1] # p[2]}}
OnlyRelated == {Related(a, b)}

NameSymmetry == Permutations(Names)

=============================================================================
