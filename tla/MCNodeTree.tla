----------------------------- MODULE MCNodeTree -----------------------------
(* Model-checking instances of NodeTree.                                   *)
EXTENDS NodeTree, TLC

CONSTANTS n0, n1, n2, n3, n4

(* Client ids other than the root's are interchangeable. *)
IdSymmetry == Permutations(NodeId \ {Root})
=============================================================================
