---------------------------- MODULE MCRtBacklog ----------------------------
(* Model-checking instances of RtBacklog.                                  *)
EXTENDS RtBacklog, TLC

CONSTANTS b1, b2, b3, b4, b5, b6

BoxSymmetry == Permutations(Box)
=============================================================================
