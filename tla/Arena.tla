------------------------------- MODULE Arena -------------------------------
(***************************************************************************)
(* What the real-time pool promises its users: a region is a run of blocks *)
(* that no other region overlaps, taken from the start of a gap that holds *)
(* it, and neighbouring gaps are one gap.  No tags, no lists, no bins:     *)
(* RtPool implements this.                                                 *)
(***************************************************************************)
EXTENDS Integers

CONSTANTS
    Blocks,    \* blocks in the arena
    Least,     \* the smallest region
    Needs      \* numbers of blocks that requests round up to

VARIABLE held  \* the live regions: first block -> number of blocks

(* The maximal runs of blocks that no region of h covers. *)
Gaps(h) ==
    LET from == {0} \cup {at + h[at] : at \in DOMAIN h}
        to == {Blocks} \cup DOMAIN h
    IN {gap \in {[at |-> a, size |-> b - a] : a \in from, b \in to} :
          /\ gap.size > 0
          /\ \A at \in DOMAIN h : at + h[at] <= gap.at \/ gap.at + gap.size <= at}

(* What is left beyond the need is kept when it is too small for a region. *)
Trim(total, need) == IF total - need >= Least THEN need ELSE total

Holds(h, at, size) == [a \in DOMAIN h \cup {at} |-> IF a = at THEN size ELSE h[a]]
Drop(h, at) == [a \in DOMAIN h \ {at} |-> h[a]]

Init == held = [at \in {} |-> 0]

Alloc(need) ==
    \E gap \in Gaps(held) :
        /\ gap.size >= need
        /\ held' = Holds(held, gap.at, Trim(gap.size, need))

Dealloc(at) == held' = Drop(held, at)

(* Smaller, or larger into the gap behind, or somewhere else. *)
Shrink(at, need) ==
    /\ need <= held[at]
    /\ held' = Holds(held, at, Trim(held[at], need))
Grow(at, need) ==
    /\ need > held[at]
    /\ \E gap \in Gaps(held) :
          /\ gap.at = at + held[at]
          /\ held[at] + gap.size >= need
          /\ held' = Holds(held, at, Trim(held[at] + gap.size, need))
Relocate(at, need) ==
    /\ need > held[at]
    /\ \E gap \in Gaps(held) :
          /\ gap.size >= need
          /\ held' = Holds(Drop(held, at), gap.at, Trim(gap.size, need))

Next ==
    \/ \E need \in Needs : Alloc(need)
    \/ \E at \in DOMAIN held :
          Dealloc(at) \/ \E need \in Needs : Shrink(at, need) \/ Grow(at, need) \/ Relocate(at, need)

Spec == Init /\ [][Next]_held
=============================================================================
