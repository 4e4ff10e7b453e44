---------------------------- MODULE MCQueryPath ----------------------------
(* A small instance: the kinds of request that differ in the code they     *)
(* reach, two at a time.                                                   *)
EXTENDS QueryPath, TLC

CONSTANTS r1, r2

MCRequests == {r1, r2}
RequestSymmetry == Permutations(MCRequests)

Shape(kind, llm, hints) == [kind |-> kind, llm |-> llm, hints |-> hints]

MCShapes == {Shape("text", TRUE, FALSE), Shape("node", FALSE, FALSE), Shape("vector", FALSE, FALSE),
             Shape("multihop", TRUE, FALSE), Shape("image", FALSE, FALSE)}
=============================================================================
