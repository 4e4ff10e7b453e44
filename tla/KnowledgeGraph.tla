----------------------------- MODULE KnowledgeGraph -----------------------------
(***************************************************************************)
(* What the engine promises a client that writes alone: a knowledge graph  *)
(* of entities and of relations between them.  An ingest request adds all  *)
(* its entities, then all its relations, each between the two entities it  *)
(* named, and is answered.  Nothing is ever taken back.  Queries see a     *)
(* part of it that only grows.  An entity is in it or not: how many nodes   *)
(* it has is another question (OneNodePerEntity in Engine).                *)
(*                                                                         *)
(* Nothing here is buffered, logged, numbered or merged; EngineRefinement  *)
(* shows that Engine, which does all that, implements this.                *)
(***************************************************************************)
EXTENDS Naturals, Sequences

CONSTANTS
    Writers,    \* ingest requests
    Request,    \* what each writer ingests: [ents, rels, mode]
    First       \* the facts of the first snapshot

VARIABLES
    content,    \* the facts written so far: [known, related]
    served,     \* those that queries see
    progress    \* per writer: "open", "described", "related" or "answered"

vars == <<content, served, progress>>

EntitiesOf(w) == {Request[w].ents[i] : i \in DOMAIN Request[w].ents}

\* A relation remembers which one of which request it is.
RelationsOf(w) ==
    {<<<<w, j>>, Request[w].ents[Request[w].rels[j][1]], Request[w].ents[Request[w].rels[j][2]]>> :
        j \in DOMAIN Request[w].rels}

Advance(w, from, to) ==
    progress[w] = from /\ progress' = [progress EXCEPT ![w] = to]

Describe(w) ==
    /\ Advance(w, "open", "described")
    /\ content' = [content EXCEPT !.known = @ \cup EntitiesOf(w)]
    /\ UNCHANGED served

Relate(w) ==
    /\ Advance(w, "described", "related")
    /\ content' = [content EXCEPT !.related = @ \cup RelationsOf(w)]
    /\ UNCHANGED served

Answer(w) ==
    /\ Advance(w, "related", "answered")
    /\ UNCHANGED <<content, served>>

\* Queries come to see more, and never a relation without the entities it joins.
Publish ==
    /\ served.known \subseteq served'.known /\ served'.known \subseteq content.known
    /\ served.related \subseteq served'.related /\ served'.related \subseteq content.related
    /\ \A r \in served'.related : r[2] \in served'.known /\ r[3] \in served'.known
    /\ UNCHANGED <<content, progress>>

Init ==
    /\ content = First
    /\ served = First
    /\ progress = [w \in Writers |-> "open"]

Next == (\E w \in Writers : Describe(w) \/ Relate(w) \/ Answer(w)) \/ Publish

Spec == Init /\ [][Next]_vars

\* Whoever has begun to write comes to an end.
EveryoneAnswered == \A w \in Writers : progress[w] = "described" ~> progress[w] = "answered"

=============================================================================
