---------------------------- MODULE EngineRefinement ----------------------------
(***************************************************************************)
(* Engine implements KnowledgeGraph: IDs, buffers, the merge and the files *)
(* of a snapshot are a way to keep entities and relations.                 *)
(***************************************************************************)
EXTENDS Engine

\* The entity that an ID stands for, none for an ID that leads nowhere.
EntityAt(ns, id) == IF id < Len(ns) THEN {ns[id + 1].ent} ELSE {}

\* What nodes and edges say, whatever the edges' requests meant.
Facts(ns, es) ==
    [known   |-> {ns[i].ent : i \in DOMAIN ns},
     related |-> UNION {{<<es[j].origin, s, d>> : s \in EntityAt(ns, es[j].from),
                                                  d \in EntityAt(ns, es[j].to)} : j \in DOMAIN es}]

\* What a merge has drained and not yet swapped in.  There is one merge at a time.
UnderWay == IF Merging = {} THEN Empty ELSE drained[CHOOSE m \in Merging : TRUE]

\* A node has the place in graph, merge and delta that its ID says.  After a
\* clean exit the snapshot is all there is.
Content ==
    IF stage = "exited"
    THEN Facts(disk.nodes, disk.edges)
    ELSE Facts(graph.nodes \o UnderWay.nodes \o delta.nodes,
               graph.edges \o UnderWay.edges \o delta.edges)

Served ==
    IF stage = "exited" THEN Content ELSE Facts(graph.nodes, graph.edges)

Progress ==
    [w \in Writers |->
        CASE pc[w] \in {"appendEdges", "pushEdges"} -> "described"
          [] pc[w] = "finish"                       -> "related"
          [] pc[w] = "done"                         -> "answered"
          [] OTHER                                  -> "open"]

Promise == INSTANCE KnowledgeGraph WITH
    First    <- Facts(FirstSnapshot.nodes, FirstSnapshot.edges),
    content  <- Content,
    served   <- Served,
    progress <- Progress

\* While clients write one at a time and nothing fails, ingest, run_merge, the
\* snapshot and the exit flush are together a graph to which requests add what
\* they said and from which nothing is lost: resolution, the order of commits,
\* the remap of IDs, the swap and the files change how facts are kept and
\* never which.
ImplementsKnowledgeGraph == Promise!Spec /\ Promise!EveryoneAnswered

=============================================================================
