------------------------------ MODULE MCRetrieval ------------------------------
(***************************************************************************)
(* Instances of Retrieval for TLC: walks in graphs of three nodes, to      *)
(* which a merge adds a fourth or a heavier parallel edge.                 *)
(***************************************************************************)
EXTENDS Retrieval, TLC

CONSTANTS a, b, c, d, t

MCEntities == {a, b, c, d}
MCWeights == {0, 1}

Node(id, ent) == [id |-> id, ent |-> ent, origin |-> "full"]
Ents == <<a, b, c, d>>

Edge(from, to, weight) ==
    [from |-> from, to |-> to, src |-> Ents[from + 1], dst |-> Ents[to + 1],
     origin |-> [type |-> t, weight |-> weight, dim |-> "full"]]

Three == <<Node(0, a), Node(1, b), Node(2, c)>>

\* A chain, a star, a pair joined both ways, and a weightless edge beside another.
MCGraphs ==
    {[nodes |-> Three, edges |-> es] :
        es \in {<<Edge(0, 1, 1), Edge(1, 2, 1)>>,
                <<Edge(0, 1, 0), Edge(0, 2, 1)>>,
                <<Edge(1, 0, 1), Edge(0, 1, 0), Edge(2, 2, 1)>>}}

MCGrowths ==
    {[nodes |-> <<Node(3, d)>>, edges |-> <<Edge(0, 3, 1)>>],
     [nodes |-> <<>>, edges |-> <<Edge(0, 1, 1)>>]}

\* Unlike, alike and opposite to the query.
MCSims == {a :> 6 @@ b :> 6 @@ c :> 12 @@ d :> 12,
           a :> 12 @@ b :> -6 @@ c :> 0 @@ d :> 6,
           a :> 0 @@ b :> 12 @@ c :> 6 @@ d :> -6}

Mode(alpha, beta, gamma, bidirectional) ==
    [alpha |-> alpha, beta |-> beta, gamma |-> gamma, bidirectional |-> bidirectional]

\* balanced, relationship and entity.
MCModes == {Mode(5, 3, 2, FALSE), Mode(3, 6, 1, TRUE), Mode(4, 2, 4, FALSE)}

=============================================================================
