--------------------------- MODULE MCResourceTree ---------------------------
(* Nodes and requests are interchangeable. *)
EXTENDS ResourceTree, TLC

MCSymmetry == Permutations(Nodes) \cup Permutations(Txs)
=============================================================================
