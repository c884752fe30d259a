---- MODULE MCSynthDefs ----
EXTENDS SynthDefs

Symmetry == Permutations(Names) \cup Permutations(Nodes)
====
