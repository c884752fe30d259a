----------------------------- MODULE EngineProofs -----------------------------
(***************************************************************************)
(* Proofs about the audio thread's engine, for every size of tree, every   *)
(* definition and any number of synths.                                    *)
(*                                                                         *)
(* NodeTree: a pending done action meets the synth that asked for it, or   *)
(* an empty slot.  Done actions only relink, pause and free nodes, so a    *)
(* slot keeps the node that was in it or loses it; each operator on trees  *)
(* is shown to do no more than that.                                       *)
(*                                                                         *)
(* And the tree is well formed in every state.  Between two link updates   *)
(* it is not, so the argument is about trees with nodes out of place       *)
(* (Sound(t, R, H): R has the root and the nodes that hang from nothing, H *)
(* the slots taken off the free list).  The links agree locally (Ties) and *)
(* every set of nodes has one whose parent and left neighbour are outside  *)
(* it (Grounded): no circle, so each node has a finite branch, which a     *)
(* walk lists once.  Unlinking a node adds it to R, inserting it above     *)
(* its own branch removes it, destroying it drops its branch.              *)
(*                                                                         *)
(* SynthCompile: whatever definition is accepted, the plan it compiles to  *)
(* is sound.  Sets of units are numbered in order, so a running total of   *)
(* their sizes gives each its own span, and wires follow the parameters.   *)
(*                                                                         *)
(* SynthGraph: the walk is at one unit of one synth that runs, and every   *)
(* synth is formed by the definition; so a local buffer keeps what is in   *)
(* it, and a trigger's value is held by one synth and seen in one tick.    *)
(***************************************************************************)
EXTENDS NodeTree, SynthGraph, SequenceInduction

-----------------------------------------------------------------------------
(* The tree.                                                               *)

(* The arena: nodes with their links, and the reports of freed ones.       *)
Links == {"parent", "prev", "next", "head", "tail"}
Link == Slot \cup {None}
Node == [kind : {"synth", "group"}, id : NodeId, parent : Link, prev : Link, next : Link,
         head : Link, tail : Link, paused : BOOLEAN]
IdOrNone == NodeId \cup {None}
Info == [id : IdOrNone, parent : IdOrNone, prev : IdOrNone, next : IdOrNone]
Trees == [slots : [Slot -> Node \cup {Free}], free : Seq(Slot),
          ids : UNION {[N -> Slot] : N \in SUBSET NodeId}, synthCount : Nat, sink : Seq(Info)]

(* A slot keeps its node, whose kind and id stay, or is freed.             *)
Keeps(t, u) ==
    \A i \in Slot : u.slots[i] # Free =>
        /\ t.slots[i] # Free
        /\ u.slots[i].kind = t.slots[i].kind /\ u.slots[i].id = t.slots[i].id
Left(t) == {u \in Trees : Keeps(t, u)}

(* The slots and the nodes in them. *)
LEMMA NodeFacts ==
    /\ Slot \subseteq Nat /\ 0 \in Slot /\ None \notin Slot
    /\ \A n \in Node : n # Free
  BY IdAssumption, SizeAssumption DEF Slot, Node, Free

(* A tree is itself what is left of it. *)
LEMMA LeftSelf == \A t \in Trees : t \in Left(t)
  BY DEF Left, Keeps

(* What is left of a rest of a tree is left of the tree. *)
LEMMA LeftTrans == ASSUME NEW t, NEW u \in Left(t), NEW w \in Left(u) PROVE w \in Left(t)
  BY DEF Left, Keeps

(* A slot that holds something holds a node. *)
LEMMA LiveIs ==
    ASSUME NEW t \in Trees, NEW i, IsLive(t, i)
    PROVE  i \in Slot /\ t.slots[i] \in Node
  BY DEF Trees, IsLive

(* A link that is written: the node stays. *)
LEMMA PutLeft ==
    ASSUME NEW t, NEW u \in Left(t), NEW i, NEW link, NEW v,
           \/ link \in Links /\ v \in Link
           \/ link = "paused" /\ v \in BOOLEAN
    PROVE  Put(u, i, link, v) \in Left(t)
<1>1. CASE ~IsLive(u, i)
  BY <1>1 DEF Put
<1>2. CASE IsLive(u, i)
  <2> DEFINE n == [u.slots[i] EXCEPT ![link] = v]
             w == [u EXCEPT !.slots[i][link] = v]
  <2>1. u \in Trees /\ i \in Slot /\ u.slots[i] \in Node /\ u.slots[i] # Free
    BY <1>2, LiveIs DEF Left, IsLive
  <2>2. n \in Node /\ n.kind = u.slots[i].kind /\ n.id = u.slots[i].id
    <3> USE <2>1 DEF Node
    <3>1. CASE link = "parent" /\ v \in Link
      BY <3>1
    <3>2. CASE link = "prev" /\ v \in Link
      BY <3>2
    <3>3. CASE link = "next" /\ v \in Link
      BY <3>3
    <3>4. CASE link = "head" /\ v \in Link
      BY <3>4
    <3>5. CASE link = "tail" /\ v \in Link
      BY <3>5
    <3>6. CASE link = "paused" /\ v \in BOOLEAN
      BY <3>6
    <3> QED
      BY <3>1, <3>2, <3>3, <3>4, <3>5, <3>6 DEF Links
  <2>3. w = [u EXCEPT !.slots = [u.slots EXCEPT ![i] = n]]
    OBVIOUS
  <2> HIDE DEF n, w
  <2>4. w \in Trees /\ w.slots = [u.slots EXCEPT ![i] = n]
    BY <2>1, <2>2, <2>3 DEF Trees
  <2>5. Keeps(u, w)
    BY <2>1, <2>2, <2>4 DEF Keeps, Trees
  <2>6. w \in Left(t)
    BY <2>4, <2>5, LeftTrans DEF Left
  <2> QED
    BY <1>2, <2>6 DEF Put, w
<1> QED
  BY <1>1, <1>2

(* A link of a group that is written. *)
LEMMA PutGroupLeft ==
    ASSUME NEW t, NEW u \in Left(t), NEW i, NEW link \in Links, NEW v \in Link
    PROVE  PutGroup(u, i, link, v) \in Left(t)
  BY PutLeft DEF PutGroup

(* A link that is read. *)
LEMMA GetLink ==
    ASSUME NEW t \in Trees, NEW i, NEW link \in Links
    PROVE  Get(t, i, link) \in Link
  BY LiveIs DEF Get, Link, Links, Node

(* Ids and reports are made of ids of nodes. *)
LEMMA IdOfName ==
    ASSUME NEW t \in Trees, NEW i
    PROVE  IdOf(t, i) \in IdOrNone /\ Report(t, i) \in Info
<1>1. \A j : IdOf(t, j) \in IdOrNone
  BY LiveIs DEF IdOf, IdOrNone, Node
<1> QED
  BY <1>1 DEF Report, Info

(* A node that is removed. *)
LEMMA Remove1Left ==
    ASSUME NEW t, NEW u \in Left(t), NEW i \in Slot, NEW report \in Info
    PROVE  Remove1(u, i, report) \in Left(t)
<1> DEFINE w == Remove1(u, i, report)
<1>1. u \in Trees
  BY DEF Left
<1>2. /\ w.slots = [u.slots EXCEPT ![i] = Free]
      /\ w.free = Append(u.free, i)
      /\ w.ids = [n \in DOMAIN u.ids \ {report.id} |-> u.ids[n]]
      /\ w.synthCount = (IF IsSynth(u, i) /\ u.synthCount > 0 THEN u.synthCount - 1 ELSE u.synthCount)
      /\ w.sink = Append(u.sink, report)
      /\ w = [slots |-> w.slots, free |-> w.free, ids |-> w.ids, synthCount |-> w.synthCount,
              sink |-> w.sink]
  BY DEF Remove1
<1> HIDE DEF w
<1>3. w.slots \in [Slot -> Node \cup {Free}] /\ Keeps(u, w)
  BY <1>1, <1>2 DEF Trees, Keeps
<1>4. w.free \in Seq(Slot) /\ w.sink \in Seq(Info)
  BY <1>1, <1>2, AppendProperties DEF Trees
<1>5. w.synthCount \in Nat
  BY <1>1, <1>2 DEF Trees
<1>6. w.ids \in UNION {[N -> Slot] : N \in SUBSET NodeId}
  <2>1. PICK N \in SUBSET NodeId : u.ids \in [N -> Slot]
    BY <1>1 DEF Trees
  <2>2. w.ids \in [N \ {report.id} -> Slot] /\ N \ {report.id} \in SUBSET NodeId
    BY <1>2, <2>1
  <2> QED
    BY <2>2
<1>7. w \in Trees
  BY <1>2, <1>3, <1>4, <1>5, <1>6 DEF Trees
<1> QED
  BY <1>3, <1>7, LeftTrans DEF Left, w

-----------------------------------------------------------------------------
(* Relinking.                                                              *)

(* A node that is linked in between two siblings. *)
LEMMA InsertLeft ==
    ASSUME NEW t, NEW u \in Left(t), NEW i, NEW g \in Link, NEW prev \in Link, NEW next \in Link,
           i \in Slot
    PROVE  Insert(u, i, g, prev, next) \in Left(t)
<1> DEFINE placed == Put(Put(Put(u, i, "parent", g), i, "prev", prev), i, "next", next)
           left == IF prev = None THEN PutGroup(placed, g, "head", i)
                   ELSE Put(placed, prev, "next", i)
<1>1. i \in Link /\ None \in Link /\ {"parent", "prev", "next", "head", "tail"} = Links
  BY DEF Link, Links
<1>2. placed \in Left(t)
  BY <1>1, PutLeft
<1> HIDE DEF placed
<1>3. left \in Left(t)
  BY <1>1, <1>2, PutLeft, PutGroupLeft
<1> HIDE DEF left
<1>4. (IF next = None THEN PutGroup(left, g, "tail", i) ELSE Put(left, next, "prev", i)) \in Left(t)
  BY <1>1, <1>3, PutLeft, PutGroupLeft
<1> QED
  BY <1>4 DEF Insert, left, placed

(* The neighbours of a node that leaves. *)
LEMMA RepairLeft ==
    ASSUME NEW t, NEW u \in Left(t), NEW parent, NEW prev \in Link, NEW next \in Link, NEW i
    PROVE  RepairParent(u, parent, prev, next, i) \in Left(t)
<1> DEFINE around == Put(Put(u, prev, "next", next), next, "prev", prev)
           first == IF Get(around, parent, "head") = i
                    THEN PutGroup(around, parent, "head", next) ELSE around
<1>1. {"parent", "prev", "next", "head", "tail"} = Links
  BY DEF Links
<1>2. around \in Left(t)
  BY <1>1, PutLeft
<1> HIDE DEF around
<1>3. first \in Left(t)
  BY <1>1, <1>2, PutGroupLeft
<1> HIDE DEF first
<1>4. (IF Get(first, parent, "tail") = i THEN PutGroup(first, parent, "tail", prev) ELSE first) \in Left(t)
  BY <1>1, <1>3, PutGroupLeft
<1> QED
  BY <1>4 DEF RepairParent, first, around

(* A node that is unlinked. *)
LEMMA UnlinkLeft ==
    ASSUME NEW t, NEW u \in Left(t), NEW i
    PROVE  Unlink(u, i) \in Left(t)
<1> DEFINE out == RepairParent(u, Get(u, i, "parent"), Get(u, i, "prev"), Get(u, i, "next"), i)
<1>1. None \in Link /\ {"parent", "prev", "next", "head", "tail"} = Links
  BY DEF Link, Links
<1>2. u \in Trees
  BY DEF Left
<1>3. out \in Left(t)
  BY <1>1, <1>2, GetLink, RepairLeft
<1> HIDE DEF out
<1>4. Put(Put(Put(out, i, "parent", None), i, "prev", None), i, "next", None) \in Left(t)
  BY <1>1, <1>3, PutLeft
<1> QED
  BY <1>4 DEF Unlink, out

-----------------------------------------------------------------------------
(* The walks.                                                              *)

(* The members of a sequence that are in a set, one after another.         *)
Sieves(run, s, S, set) ==
    /\ run \in [0..Len(s) -> Seq(S \cap set)] /\ run[0] = <<>>
    /\ \A k \in 1..Len(s) : run[k] = run[k - 1] \o IF s[k] \in set THEN <<s[k]>> ELSE <<>>
    /\ Those(s, set) = run[Len(s)]
LEMMA ThoseRuns ==
    ASSUME NEW S, NEW s \in Seq(S), NEW set
    PROVE  \E run : Sieves(run, s, S, set)
<1> DEFINE n == Len(s)
           D == Seq(S \cap set)
           more(k) == IF s[k] \in set THEN <<s[k]>> ELSE <<>>
           step == [p \in (1..n) \X D |-> p[2] \o more(p[1])]
           body(g) == [k \in 0..n |-> IF k = 0 THEN <<>> ELSE g[k - 1] \o more(k)]
           upTo == CHOOSE g : g = body(g)
<1>1. n \in Nat /\ \A k \in 1..n : s[k] \in S
  OBVIOUS
<1>2. <<>> \in D /\ \A k \in 1..n : more(k) \in D
  <2>1. \A x \in S \cap set : <<x>> \in D
    OBVIOUS
  <2>2. <<>> \in D
    OBVIOUS
  <2> HIDE DEF D
  <2> QED
    BY <1>1, <2>1, <2>2
<1>3. \A k \in 1..n, r \in D : r \o more(k) \in D
  BY <1>2, ConcatProperties
<1>4. step \in [(1..n) \X D -> D]
  BY <1>3
<1> HIDE DEF n, D, more
<1>5. PICK g \in [0..n -> D] : Recurs(g, n, step, <<>>)
  <2> HIDE DEF step
  <2> QED
    BY <1>1, <1>2, <1>4, RecursionExists
<1>6. g = body(g)
  <2>1. \A k \in 1..n : k \in 0..n /\ k - 1 \in 0..n /\ k # 0
    BY <1>1
  <2>2. \A k \in 0..n : k # 0 => k \in 1..n
    BY <1>1
  <2>3. \A k \in 1..n : g[k] = g[k - 1] \o more(k)
    <3> SUFFICES ASSUME NEW k \in 1..n PROVE g[k] = g[k - 1] \o more(k)
      OBVIOUS
    <3>1. g[k] = step[<<k, g[k - 1]>>]
      BY <1>5, <2>1 DEF Recurs
    <3>2. <<k, g[k - 1]>> \in (1..n) \X D
      BY <1>5, <2>1
    <3> QED
      BY <3>1, <3>2
  <2>4. g[0] = <<>>
    BY <1>1, <1>5 DEF Recurs
  <2> HIDE DEF step
  <2> QED
    BY <1>5, <2>2, <2>3, <2>4
<1>7. upTo = body(upTo)
  <2> HIDE DEF body
  <2> QED
    BY <1>6
<1> HIDE DEF upTo
<1>8. upTo[0] \in D /\ \A k \in 1..n : upTo[k] = upTo[k - 1] \o more(k)
  <2>1. 0 \in 0..n /\ \A k \in 1..n : k \in 0..n /\ k # 0
    BY <1>1
  <2>2. \A k \in 0..n : upTo[k] = IF k = 0 THEN <<>> ELSE upTo[k - 1] \o more(k)
    BY <1>7
  <2> QED
    BY <1>2, <2>1, <2>2
<1>9. upTo \in [0..n -> D]
  <2>1. \A k \in 1..n : upTo[k - 1] \in D => upTo[k] \in D
    BY <1>3, <1>8
  <2>2. \A k \in 0..n : upTo[k] \in D
    BY <1>1, <1>8, <2>1, RecursionStays
  <2>3. upTo = [k \in 0..n |-> upTo[k]]
    BY <1>7
  <2> QED
    BY <2>2, <2>3
<1>10. upTo[0] = <<>>
  BY <1>1, <1>7
<1>11. Those(s, set) = upTo[n]
  BY DEF Those, upTo, n, more
<1>12. upTo \in [0..Len(s) -> Seq(S \cap set)] /\ Those(s, set) = upTo[Len(s)]
  BY <1>9, <1>11 DEF D, n
<1>13. \A k \in 1..Len(s) : upTo[k] = upTo[k - 1] \o IF s[k] \in set THEN <<s[k]>> ELSE <<>>
  BY <1>8 DEF n, more
<1> QED
  BY <1>10, <1>12, <1>13 DEF Sieves

(* They are members of both. *)
LEMMA ThoseIs ==
    ASSUME NEW S, NEW s \in Seq(S), NEW set
    PROVE  Those(s, set) \in Seq(S \cap set)
<1>1. PICK run : Sieves(run, s, S, set)
  BY ThoseRuns
<1>2. Len(s) \in 0..Len(s)
  OBVIOUS
<1> QED
  BY <1>1, <1>2 DEF Sieves

(* The chain of siblings from a slot on.                                   *)
Strings(at, m, t, from) ==
    /\ at \in [0..MaxNodes -> Link] /\ m \in Nat
    /\ at[0] = from /\ \A k \in 1..MaxNodes : at[k] = Get(t, at[k - 1], "next")
    /\ m < MaxNodes /\ \A k \in 0..(m - 1) : at[k] # None
    /\ m < MaxNodes - 1 => at[m] = None
    /\ Chain(t, from) = [k \in 1..m |-> at[k - 1]]
LEMMA ChainRuns ==
    ASSUME NEW t \in Trees, NEW from \in Link
    PROVE  \E at, m : Strings(at, m, t, from)
<1> DEFINE n == MaxNodes
           step == [p \in (1..n) \X Link |-> Get(t, p[2], "next")]
           body(g) == [k \in 0..n |-> IF k = 0 THEN from ELSE Get(t, g[k - 1], "next")]
           at == CHOOSE g : g = body(g)
           K == {k \in 0..(n - 2) : at[k] # None}
           m == Cardinality(K)
<1>1. n \in Nat /\ n >= 1
  BY SizeAssumption
<1>2. \A i : Get(t, i, "next") \in Link
  BY GetLink DEF Links
<1>3. step \in [(1..n) \X Link -> Link]
  BY <1>2
<1> HIDE DEF n
<1>4. PICK g \in [0..n -> Link] : Recurs(g, n, step, from)
  <2> HIDE DEF step
  <2> QED
    BY <1>1, <1>3, RecursionExists
<1>5. g = body(g)
  <2>1. \A k \in 0..n : k # 0 => k \in 1..n /\ k - 1 \in 0..n
    BY <1>1
  <2>2. \A k \in 0..n : g[k] = IF k = 0 THEN from ELSE Get(t, g[k - 1], "next")
    <3> SUFFICES ASSUME NEW k \in 0..n
                 PROVE  g[k] = IF k = 0 THEN from ELSE Get(t, g[k - 1], "next")
      OBVIOUS
    <3>1. g[k] = IF k = 0 THEN from ELSE step[<<k, g[k - 1]>>]
      BY <1>4 DEF Recurs
    <3>2. k # 0 => <<k, g[k - 1]>> \in (1..n) \X Link
      BY <1>4, <2>1
    <3> QED
      BY <3>1, <3>2
  <2> HIDE DEF step
  <2> QED
    BY <1>4, <2>2
<1>6. at = body(at)
  <2> HIDE DEF body
  <2> QED
    BY <1>5
<1> HIDE DEF at
<1>7. \A k \in 0..n : at[k] = IF k = 0 THEN from ELSE Get(t, at[k - 1], "next")
  BY <1>6
<1>8. \A k \in 0..n : at[k] \in Link
  BY <1>2, <1>7
<1>9. \A k \in K : 0..k \subseteq K
  <2> SUFFICES ASSUME NEW k \in K, NEW j \in 0..k, at[j] = None PROVE FALSE
    BY <1>1
  <2> DEFINE T == {d \in Nat : j + d <= n => at[j + d] = None}
  <2>1. k \in 0..n /\ j \in 0..n /\ at[k] # None
    BY <1>1
  <2>2. 0 \in T
    BY <2>1
  <2>3. ASSUME NEW d \in Nat, d \in T PROVE d + 1 \in T
    <3> SUFFICES ASSUME j + (d + 1) <= n PROVE at[j + (d + 1)] = None
      OBVIOUS
    <3>1. j + d <= n /\ j + (d + 1) \in 0..n /\ j + (d + 1) # 0 /\ (j + (d + 1)) - 1 = j + d
      BY <1>1, <2>1
    <3>2. at[j + d] = None
      BY <2>3, <3>1
    <3>3. at[j + (d + 1)] = Get(t, None, "next")
      BY <1>7, <3>1, <3>2
    <3> QED
      BY <3>3, NodeFacts DEF Get, IsLive
  <2>4. Nat \subseteq T
    <3> HIDE DEF T
    <3> QED
      BY <2>2, <2>3, Induct
  <2>5. k - j \in Nat /\ j + (k - j) = k /\ k <= n
    BY <1>1, <2>1
  <2> QED
    BY <2>1, <2>4, <2>5
<1>10. m \in Nat /\ K = 0..(m - 1)
  <2>1. n - 2 \in Int /\ n - 2 >= -1 /\ K \in SUBSET (0..(n - 2))
    BY <1>1
  <2> HIDE DEF K
  <2> QED
    BY <1>9, <2>1, Segment
<1>11. Chain(t, from) = [k \in 1..m |-> at[k - 1]]
  BY DEF Chain, m, K, at, n
<1> HIDE DEF m
<1>12. m < n /\ (\A k \in 0..(m - 1) : at[k] # None) /\ (m < n - 1 => at[m] = None)
  <2>1. \A k \in 0..(m - 1) : k \in K
    BY <1>10
  <2>2. m \notin K
    BY <1>10
  <2>3. m < n
    <3>1. m - 1 \in K \/ m = 0
      BY <1>10
    <3> QED
      BY <1>1, <1>10, <3>1
  <2> QED
    BY <1>1, <1>10, <2>1, <2>2, <2>3
<1>13. at \in [0..n -> Link] /\ at[0] = from /\ \A k \in 1..n : at[k] = Get(t, at[k - 1], "next")
  <2>1. at = [k \in 0..n |-> at[k]]
    BY <1>6
  <2>2. 0 \in 0..n /\ \A k \in 1..n : k \in 0..n /\ k # 0
    BY <1>1
  <2> QED
    BY <1>7, <1>8, <2>1, <2>2
<1> QED
  BY <1>10, <1>11, <1>12, <1>13 DEF n, Strings

(* A chain is of slots. *)
LEMMA ChainIs ==
    ASSUME NEW t \in Trees, NEW from \in Link
    PROVE  Chain(t, from) \in Seq(Slot)
<1>1. PICK at, m : Strings(at, m, t, from)
  BY ChainRuns
<1>2. \A k \in 1..m : k - 1 \in 0..MaxNodes /\ k - 1 \in 0..(m - 1)
  BY <1>1, SizeAssumption DEF Strings
<1>3. \A k \in 1..m : at[k - 1] \in Slot
  BY <1>1, <1>2 DEF Link, Strings
<1> QED
  BY <1>1, <1>3 DEF Strings

(* The children of a group are slots. *)
LEMMA ChildrenIs ==
    ASSUME NEW t \in Trees, NEW g
    PROVE  Children(t, g) \in Seq(Slot)
  BY GetLink, ChainIs DEF Children, Links

(* The walk below a slot.                                                  *)
Orders(order, t) ==
    /\ order \in [0..MaxNodes -> [Slot -> Seq(Slot)]]
    /\ order[0] = [i \in Slot |-> <<>>]
    /\ \A k \in 1..MaxNodes : \A i \in Slot :
          order[k][i] = FlattenSeq([c \in DOMAIN Children(t, i) |-> order[k - 1][Children(t, i)[c]]]) \o <<i>>
    /\ \A top \in Slot : PostOrder(t, top) = order[MaxNodes][top]
LEMMA PostOrderRuns ==
    ASSUME NEW t \in Trees
    PROVE  \E order : Orders(order, t)
<1> DEFINE n == MaxNodes
           D == [Slot -> Seq(Slot)]
           base == [i \in Slot |-> <<>>]
           walk(o, i) == FlattenSeq([c \in DOMAIN Children(t, i) |-> o[Children(t, i)[c]]]) \o <<i>>
           step == [p \in (1..n) \X D |-> [i \in Slot |-> walk(p[2], i)]]
           body(g) == [k \in 0..n |-> [i \in Slot |-> IF k = 0 THEN <<>> ELSE walk(g[k - 1], i)]]
           order == CHOOSE g : g = body(g)
<1>1. n \in Nat /\ base \in D
  BY SizeAssumption
<1>2. ASSUME NEW o \in D, NEW i \in Slot PROVE walk(o, i) \in Seq(Slot)
  <2> DEFINE s == Children(t, i)
             parts == [c \in DOMAIN s |-> o[s[c]]]
  <2>1. s \in Seq(Slot)
    BY ChildrenIs
  <2> HIDE DEF s
  <2>2. DOMAIN s = 1..Len(s) /\ Len(s) \in Nat /\ \A c \in DOMAIN s : o[s[c]] \in Seq(Slot)
    BY <2>1
  <2>3. parts \in Seq(Seq(Slot))
    BY <2>2
  <2>4. FlattenSeq(parts) \in Seq(Slot)
    <3> HIDE DEF parts
    <3> QED
      BY <2>3, FlattenType
  <2>5. <<i>> \in Seq(Slot)
    OBVIOUS
  <2>6. FlattenSeq(parts) \o <<i>> \in Seq(Slot)
    <3> HIDE DEF parts
    <3> QED
      BY <2>4, <2>5, ConcatProperties
  <2> QED
    BY <2>6 DEF s
<1> HIDE DEF walk, n
<1>3. step \in [(1..n) \X D -> D]
  BY <1>2
<1>4. PICK g \in [0..n -> D] : Recurs(g, n, step, base)
  <2> HIDE DEF step, D, base
  <2> QED
    BY <1>1, <1>3, RecursionExists
<1>5. g = body(g)
  <2>1. \A k \in 0..n : k # 0 => k \in 1..n /\ k - 1 \in 0..n
    BY <1>1
  <2>2. \A k \in 0..n : g[k] = [i \in Slot |-> IF k = 0 THEN <<>> ELSE walk(g[k - 1], i)]
    <3> SUFFICES ASSUME NEW k \in 0..n
                 PROVE  g[k] = [i \in Slot |-> IF k = 0 THEN <<>> ELSE walk(g[k - 1], i)]
      OBVIOUS
    <3>1. g[k] = IF k = 0 THEN base ELSE step[<<k, g[k - 1]>>]
      BY <1>4 DEF Recurs
    <3>2. k # 0 => <<k, g[k - 1]>> \in (1..n) \X D
      BY <1>4, <2>1
    <3>3. k # 0 => step[<<k, g[k - 1]>>] = [i \in Slot |-> walk(g[k - 1], i)]
      BY <3>2
    <3>4. CASE k = 0
      BY <3>1, <3>4
    <3>5. CASE k # 0
      BY <3>1, <3>3, <3>5
    <3> QED
      BY <3>4, <3>5
  <2> HIDE DEF step
  <2> QED
    BY <1>4, <2>2
<1>6. order = body(order)
  <2> HIDE DEF body
  <2> QED
    BY <1>5
<1> HIDE DEF order
<1>7. order[0] \in D /\ \A k \in 1..n : order[k] = [i \in Slot |-> walk(order[k - 1], i)]
  <2>1. 0 \in 0..n /\ \A k \in 1..n : k \in 0..n /\ k # 0
    BY <1>1
  <2>2. \A k \in 0..n : order[k] = [i \in Slot |-> IF k = 0 THEN <<>> ELSE walk(order[k - 1], i)]
    BY <1>6
  <2>3. order[0] = [i \in Slot |-> <<>>]
    BY <2>1, <2>2
  <2>4. ASSUME NEW k \in 1..n PROVE order[k] = [i \in Slot |-> walk(order[k - 1], i)]
    <3>1. k \in 0..n /\ k # 0
      BY <2>1
    <3> QED
      BY <2>2, <3>1
  <2> QED
    BY <1>1, <2>3, <2>4
<1>8. order \in [0..n -> D]
  <2>1. ASSUME NEW k \in 1..n, order[k - 1] \in D PROVE order[k] \in D
    <3>1. order[k] = [i \in Slot |-> walk(order[k - 1], i)]
      BY <1>7
    <3>2. \A i \in Slot : walk(order[k - 1], i) \in Seq(Slot)
      BY <1>2, <2>1
    <3>3. [i \in Slot |-> walk(order[k - 1], i)] \in D
      BY <3>2
    <3> QED
      BY <3>1, <3>3, Zenon
  <2>2. \A k \in 0..n : order[k] \in D
    <3> HIDE DEF D
    <3> QED
      BY <1>1, <1>7, <2>1, RecursionStays
  <2>3. order = [k \in 0..n |-> order[k]]
    BY <1>6
  <2> HIDE DEF D
  <2> QED
    BY <2>2, <2>3
<1>9. order[0] = [i \in Slot |-> <<>>]
  <2>1. 0 \in 0..n
    BY <1>1
  <2> QED
    BY <1>6, <2>1
<1>10. ASSUME NEW k \in 1..n, NEW i \in Slot PROVE order[k][i] = walk(order[k - 1], i)
  BY <1>7
<1>11. \A top \in Slot : PostOrder(t, top) = order[n][top]
  BY DEF PostOrder, order, n, walk
<1> QED
  BY <1>8, <1>9, <1>10, <1>11 DEF n, walk, Orders

(* A subtree is of slots. *)
LEMMA PostOrderIs ==
    ASSUME NEW t \in Trees, NEW top \in Slot
    PROVE  PostOrder(t, top) \in Seq(Slot)
<1>1. PICK order : Orders(order, t)
  BY PostOrderRuns
<1> QED
  BY <1>1, SizeAssumption DEF Orders

-----------------------------------------------------------------------------
(* Freeing: a fold of removals.                                            *)

(* The greatest of the first numbers is the last. *)
LEMMA MaxTo ==
    ASSUME NEW n \in Nat, n >= 1
    PROVE  Max(1 .. n) = n /\ (1 .. n) \ {n} = 1 .. (n - 1)
  BY DEF Max

(* A fold over the numbers up to n, as a run from the base on. *)
Folded(n, S, D, step, base, g) ==
    /\ n \in Nat /\ S = 1..n /\ base \in D /\ g[{}] = base /\ step \in [S \X D -> D]
    /\ \A s \in SUBSET S : s # {} /\ g[s \ {Max(s)}] \in D => g[s] = step[<<Max(s), g[s \ {Max(s)}]>>]
Running(run, n, S, D, step, base, g) ==
    run \in [0..n -> D] /\ Recurs(run, n, step, base) /\ g[S] = run[n]
LEMMA FoldRuns ==
    ASSUME NEW n, NEW S, NEW D, NEW step, NEW base, NEW g, Folded(n, S, D, step, base, g)
    PROVE  \E run : Running(run, n, S, D, step, base, g)
<1>0. /\ n \in Nat /\ S = 1..n /\ base \in D /\ g[{}] = base /\ step \in [(1..n) \X D -> D]
      /\ \A s \in SUBSET (1..n) : s # {} /\ g[s \ {Max(s)}] \in D => g[s] = step[<<Max(s), g[s \ {Max(s)}]>>]
  BY DEF Folded
<1> DEFINE run == [k \in 0..n |-> g[1 .. k]]
<1>1. run[0] = base /\ run[n] = g[1 .. n]
  <2>1. 1 .. 0 = {} /\ 0 \in 0..n /\ n \in 0..n
    BY <1>0
  <2> QED
    BY <1>0, <2>1
<1>2. ASSUME NEW k \in 1..n, run[k - 1] \in D PROVE run[k] = step[<<k, run[k - 1]>>]
  <2>1. Max(1 .. k) = k /\ (1 .. k) \ {k} = 1 .. (k - 1)
    BY <1>0, MaxTo
  <2>2. (1 .. k) \in SUBSET (1 .. n) /\ 1 .. k # {} /\ k \in 0..n /\ k - 1 \in 0..n
    BY <1>0
  <2>3. g[1 .. (k - 1)] \in D
    BY <1>2, <2>2
  <2>4. g[1 .. k] = step[<<k, g[1 .. (k - 1)]>>]
    BY <1>0, <2>1, <2>2, <2>3
  <2> QED
    BY <2>2, <2>4
<1>3. DOMAIN run = 0..n
  OBVIOUS
<1> HIDE DEF run
<1>4. \A k \in 1..n : run[k - 1] \in D => run[k] \in D
  <2> SUFFICES ASSUME NEW k \in 1..n, run[k - 1] \in D PROVE run[k] \in D
    OBVIOUS
  <2>1. <<k, run[k - 1]>> \in (1 .. n) \X D
    OBVIOUS
  <2> QED
    BY <1>0, <1>2, <2>1
<1>5. \A k \in 0..n : run[k] \in D
  BY <1>0, <1>1, <1>4, RecursionStays
<1>6. run \in [0..n -> D]
  <2>1. run = [k \in 0..n |-> g[1 .. k]]
    BY DEF run
  <2>2. run = [k \in 0..n |-> run[k]]
    BY <2>1
  <2> QED
    BY <1>5, <2>2
<1>7. \A k \in 1..n : run[k - 1] \in D
  BY <1>0, <1>5
<1> QED
  BY <1>0, <1>1, <1>2, <1>6, <1>7 DEF Recurs, Running

(* A subtree that is destroyed, node by node.                              *)
Removes(run, t, u, seq) ==
    /\ run \in [0..Len(seq) -> Left(t)] /\ run[0] = u
    /\ \A k \in 1..Len(seq) : run[k] = Remove1(run[k - 1], seq[k], Report(run[k - 1], seq[k]))
LEMMA DestroyRuns ==
    ASSUME NEW t, NEW u \in Left(t), NEW top \in Slot
    PROVE  \E run : /\ Removes(run, t, u, PostOrder(u, top))
                    /\ Destroy(u, top) = run[Len(PostOrder(u, top))]
<1> DEFINE seq == PostOrder(u, top)
           S == DOMAIN seq
           D == Left(t)
           body(g) == [s \in SUBSET S |->
              IF s = {} THEN u
              ELSE Remove1(g[s \ {Max(s)}], seq[Max(s)], Report(g[s \ {Max(s)}], seq[Max(s)]))]
           iter == CHOOSE g : g = body(g)
           pick == [s \in SUBSET S |-> Max(s)]
           step == [p \in S \X D |-> Remove1(p[2], seq[p[1]], Report(p[2], seq[p[1]]))]
<1>1. S = 1 .. Len(seq) /\ Len(seq) \in Nat /\ IsFiniteSet(S) /\ \A i \in S : seq[i] \in Slot
  <2>1. seq \in Seq(Slot)
    BY PostOrderIs DEF Left
  <2> HIDE DEF seq
  <2>2. S = 1 .. Len(seq) /\ Len(seq) \in Nat /\ \A i \in S : seq[i] \in Slot
    BY <2>1
  <2>3. IsFiniteSet(1 .. Len(seq))
    BY <2>2, FS_Interval
  <2> QED
    BY <2>2, <2>3, Zenon
<1>2. \A s \in SUBSET S : s # {} => pick[s] \in s /\ pick[s] = Max(s)
  BY <1>1, MaxIsOne
<1>3. \A w \in D, i \in S : Remove1(w, seq[i], Report(w, seq[i])) \in D
  BY <1>1, IdOfName, Remove1Left DEF Left
<1>4. step \in [S \X D -> D] /\ u \in D
  BY <1>3
<1> HIDE DEF seq, S, D, pick
<1>5. PICK g : FoldOf(g, S, D, step, u, pick)
  <2>1. Folding(S, D, step, u, pick)
    <3> HIDE DEF step
    <3> QED
      BY <1>1, <1>2, <1>4 DEF Folding
  <2> HIDE DEF step
  <2> QED
    BY <2>1, FoldExists, Zenon
<1>6. g = body(g)
  <2>1. \A s \in SUBSET S : s # {} =>
           step[<<pick[s], g[s \ {pick[s]}]>>]
             = Remove1(g[s \ {Max(s)}], seq[Max(s)], Report(g[s \ {Max(s)}], seq[Max(s)]))
    BY <1>2, <1>5 DEF FoldOf
  <2> HIDE DEF step
  <2> QED
    BY <1>5, <2>1 DEF FoldOf
<1>7. iter = body(iter)
  <2> HIDE DEF body
  <2> QED
    BY <1>6
<1> HIDE DEF iter
<1>8. iter[{}] = u
  BY <1>7
<1>9. \A s \in SUBSET S : s # {} /\ iter[s \ {Max(s)}] \in D => iter[s] = step[<<Max(s), iter[s \ {Max(s)}]>>]
  <2> SUFFICES ASSUME NEW s \in SUBSET S, s # {}, iter[s \ {Max(s)}] \in D
               PROVE  iter[s] = step[<<Max(s), iter[s \ {Max(s)}]>>]
    OBVIOUS
  <2>1. Max(s) \in S
    BY <1>2
  <2>2. iter[s] = Remove1(iter[s \ {Max(s)}], seq[Max(s)], Report(iter[s \ {Max(s)}], seq[Max(s)]))
    BY <1>7
  <2> QED
    BY <1>3, <2>1, <2>2
<1>10. PICK run : Running(run, Len(seq), S, D, step, u, iter)
  <2> HIDE DEF step
  <2>1. Folded(Len(seq), S, D, step, u, iter)
    BY <1>1, <1>4, <1>8, <1>9 DEF Folded
  <2> QED
    BY <2>1, FoldRuns, Zenon
<1>11. Destroy(u, top) = iter[S]
  BY DEF Destroy, FoldLeft, MapThenFoldSet, iter, S, seq
<1>15. 0 \in 0..Len(seq) /\ \A k \in 1..Len(seq) : k \in S /\ k # 0 /\ k \in 0..Len(seq) /\ k - 1 \in 0..Len(seq)
  BY <1>1
<1>16. run \in [0..Len(seq) -> D] /\ iter[S] = run[Len(seq)] /\ Recurs(run, Len(seq), step, u)
  BY <1>10, Zenon DEF Running
<1>17. run[0] = u /\ \A k \in 1..Len(seq) : run[k] = step[<<k, run[k - 1]>>]
  BY <1>15, <1>16, Zenon DEF Recurs
<1>14. run \in [0..Len(seq) -> D] /\ run[0] = u /\ iter[S] = run[Len(seq)]
  BY <1>16, <1>17
<1>12. \A k \in 1..Len(seq) : run[k] = Remove1(run[k - 1], seq[k], Report(run[k - 1], seq[k]))
  <2> SUFFICES ASSUME NEW k \in 1..Len(seq) PROVE run[k] = Remove1(run[k - 1], seq[k], Report(run[k - 1], seq[k]))
    OBVIOUS
  <2>1. k \in S /\ run[k - 1] \in D
    BY <1>14, <1>15
  <2> QED
    BY <1>17, <2>1
<1> HIDE DEF step
<1>20. run \in [0..Len(seq) -> Left(t)] /\ run[0] = u /\ iter[S] = run[Len(seq)]
  BY <1>14, Zenon DEF D
<1>21. Removes(run, t, u, seq)
  BY <1>12, <1>20, Zenon DEF Removes
<1> QED
  BY <1>11, <1>20, <1>21 DEF seq

(* What a destroyed subtree leaves. *)
LEMMA DestroyLeft ==
    ASSUME NEW t, NEW u \in Left(t), NEW top \in Slot
    PROVE  Destroy(u, top) \in Left(t)
<1> DEFINE seq == PostOrder(u, top)
<1>1. seq \in Seq(Slot)
  BY PostOrderIs DEF Left
<1>2. PICK run : Removes(run, t, u, seq) /\ Destroy(u, top) = run[Len(seq)]
  BY DestroyRuns
<1> HIDE DEF seq
<1> QED
  BY <1>1, <1>2 DEF Removes

(* Each child of a group.                                                  *)
Destroys(run, t, u, seq) ==
    /\ run \in [0..Len(seq) -> Left(t)] /\ run[0] = u
    /\ \A k \in 1..Len(seq) : run[k] = Destroy(run[k - 1], seq[k])
    /\ FoldLeft(Destroy, u, seq) = run[Len(seq)]
LEMMA DestroyAllRuns ==
    ASSUME NEW t, NEW u \in Left(t), NEW seq \in Seq(Slot)
    PROVE  \E run : Destroys(run, t, u, seq)
<1> DEFINE S == DOMAIN seq
           D == Left(t)
           body(g) == [s \in SUBSET S |->
              IF s = {} THEN u
              ELSE Destroy(g[s \ {Max(s)}], seq[Max(s)])]
           iter == CHOOSE g : g = body(g)
           pick == [s \in SUBSET S |-> Max(s)]
           step == [p \in S \X D |-> Destroy(p[2], seq[p[1]])]
<1>1. S = 1 .. Len(seq) /\ Len(seq) \in Nat /\ IsFiniteSet(S) /\ \A i \in S : seq[i] \in Slot
  <2>1. S = 1 .. Len(seq) /\ Len(seq) \in Nat /\ \A i \in S : seq[i] \in Slot
    OBVIOUS
  <2>2. IsFiniteSet(1 .. Len(seq))
    BY <2>1, FS_Interval
  <2> QED
    BY <2>1, <2>2, Zenon
<1>2. \A s \in SUBSET S : s # {} => pick[s] \in s /\ pick[s] = Max(s)
  BY <1>1, MaxIsOne
<1>3. \A w \in D, i \in S : Destroy(w, seq[i]) \in D
  BY <1>1, DestroyLeft
<1>4. step \in [S \X D -> D] /\ u \in D
  BY <1>3
<1> HIDE DEF S, D, pick
<1>5. PICK g : FoldOf(g, S, D, step, u, pick)
  <2>1. Folding(S, D, step, u, pick)
    <3> HIDE DEF step
    <3> QED
      BY <1>1, <1>2, <1>4 DEF Folding
  <2> HIDE DEF step
  <2> QED
    BY <2>1, FoldExists, Zenon
<1>6. g = body(g)
  <2>1. \A s \in SUBSET S : s # {} =>
           step[<<pick[s], g[s \ {pick[s]}]>>]
             = Destroy(g[s \ {Max(s)}], seq[Max(s)])
    BY <1>2, <1>5 DEF FoldOf
  <2> HIDE DEF step
  <2> QED
    BY <1>5, <2>1 DEF FoldOf
<1>7. iter = body(iter)
  <2> HIDE DEF body
  <2> QED
    BY <1>6
<1> HIDE DEF iter
<1>8. iter[{}] = u
  BY <1>7
<1>9. \A s \in SUBSET S : s # {} /\ iter[s \ {Max(s)}] \in D => iter[s] = step[<<Max(s), iter[s \ {Max(s)}]>>]
  <2> SUFFICES ASSUME NEW s \in SUBSET S, s # {}, iter[s \ {Max(s)}] \in D
               PROVE  iter[s] = step[<<Max(s), iter[s \ {Max(s)}]>>]
    OBVIOUS
  <2>1. Max(s) \in S
    BY <1>2
  <2>2. iter[s] = Destroy(iter[s \ {Max(s)}], seq[Max(s)])
    BY <1>7
  <2> QED
    BY <1>3, <2>1, <2>2
<1>10. PICK run : Running(run, Len(seq), S, D, step, u, iter)
  <2> HIDE DEF step
  <2>1. Folded(Len(seq), S, D, step, u, iter)
    BY <1>1, <1>4, <1>8, <1>9 DEF Folded
  <2> QED
    BY <2>1, FoldRuns, Zenon
<1>11. FoldLeft(Destroy, u, seq) = iter[S]
  BY DEF FoldLeft, MapThenFoldSet, iter, S
<1>15. 0 \in 0..Len(seq) /\ \A k \in 1..Len(seq) : k \in S /\ k # 0 /\ k \in 0..Len(seq) /\ k - 1 \in 0..Len(seq)
  BY <1>1
<1>16. run \in [0..Len(seq) -> D] /\ iter[S] = run[Len(seq)] /\ Recurs(run, Len(seq), step, u)
  BY <1>10, Zenon DEF Running
<1>17. run[0] = u /\ \A k \in 1..Len(seq) : run[k] = step[<<k, run[k - 1]>>]
  BY <1>15, <1>16, Zenon DEF Recurs
<1>14. run \in [0..Len(seq) -> D] /\ run[0] = u /\ iter[S] = run[Len(seq)]
  BY <1>16, <1>17
<1>12. \A k \in 1..Len(seq) : run[k] = Destroy(run[k - 1], seq[k])
  <2> SUFFICES ASSUME NEW k \in 1..Len(seq) PROVE run[k] = Destroy(run[k - 1], seq[k])
    OBVIOUS
  <2>1. k \in S /\ run[k - 1] \in D
    BY <1>14, <1>15
  <2> QED
    BY <1>17, <2>1
<1> HIDE DEF step
<1> QED
  BY <1>11, <1>12, <1>14, Zenon DEF D, Destroys

(* What several destroyed subtrees leave. *)
LEMMA DestroyAllLeft ==
    ASSUME NEW t, NEW u \in Left(t), NEW seq \in Seq(Slot)
    PROVE  FoldLeft(Destroy, u, seq) \in Left(t)
<1>1. PICK run : Destroys(run, t, u, seq)
  BY DestroyAllRuns
<1>2. Len(seq) \in 0..Len(seq)
  OBVIOUS
<1> QED
  BY <1>1, <1>2, Zenon DEF Destroys

(* The synths below a group, which are freed one by one.                   *)
Silences(run, t, u, seq) ==
    /\ run \in [0..Len(seq) -> Left(t)] /\ run[0] = u
    /\ \A k \in 1..Len(seq) :
          run[k] = Remove1(Unlink(run[k - 1], seq[k]), seq[k], Report(run[k - 1], seq[k]))
LEMMA DeepFreeRuns ==
    ASSUME NEW t, NEW u \in Left(t), NEW top \in Slot
    PROVE  \E run : /\ Silences(run, t, u, Those(PostOrder(u, top), Synths(u)))
                    /\ DeepFreeGroup(u, top) = run[Len(Those(PostOrder(u, top), Synths(u)))]
<1> DEFINE seq == Those(PostOrder(u, top), Synths(u))
<1>0. seq \in Seq(Slot)
  <2>1. seq \in Seq(Slot \cap Synths(u))
    BY PostOrderIs, ThoseIs DEF Left
  <2>2. Slot \cap Synths(u) \subseteq Slot
    OBVIOUS
  <2> HIDE DEF seq
  <2> QED
    BY <2>1, <2>2
<1>13. DeepFreeGroup(u, top) = FoldLeft(LAMBDA w, i : Remove1(Unlink(w, i), i, Report(w, i)), u, seq)
  BY DEF DeepFreeGroup
<1> HIDE DEF seq
<1> DEFINE S == DOMAIN seq
           D == Left(t)
           body(g) == [s \in SUBSET S |->
              IF s = {} THEN u
              ELSE Remove1(Unlink(g[s \ {Max(s)}], seq[Max(s)]), seq[Max(s)], Report(g[s \ {Max(s)}], seq[Max(s)]))]
           iter == CHOOSE g : g = body(g)
           pick == [s \in SUBSET S |-> Max(s)]
           step == [p \in S \X D |-> Remove1(Unlink(p[2], seq[p[1]]), seq[p[1]], Report(p[2], seq[p[1]]))]
<1>1. S = 1 .. Len(seq) /\ Len(seq) \in Nat /\ IsFiniteSet(S) /\ \A i \in S : seq[i] \in Slot
  <2>1. S = 1 .. Len(seq) /\ Len(seq) \in Nat /\ \A i \in S : seq[i] \in Slot
    BY <1>0
  <2>2. IsFiniteSet(1 .. Len(seq))
    BY <2>1, FS_Interval
  <2> QED
    BY <2>1, <2>2, Zenon
<1>2. \A s \in SUBSET S : s # {} => pick[s] \in s /\ pick[s] = Max(s)
  BY <1>1, MaxIsOne
<1>3. \A w \in D, i \in S : Remove1(Unlink(w, seq[i]), seq[i], Report(w, seq[i])) \in D
  BY <1>1, IdOfName, UnlinkLeft, Remove1Left DEF Left
<1>4. step \in [S \X D -> D] /\ u \in D
  BY <1>3
<1> HIDE DEF S, D, pick
<1>5. PICK g : FoldOf(g, S, D, step, u, pick)
  <2>1. Folding(S, D, step, u, pick)
    <3> HIDE DEF step
    <3> QED
      BY <1>1, <1>2, <1>4 DEF Folding
  <2> HIDE DEF step
  <2> QED
    BY <2>1, FoldExists, Zenon
<1>6. g = body(g)
  <2>1. \A s \in SUBSET S : s # {} =>
           step[<<pick[s], g[s \ {pick[s]}]>>]
             = Remove1(Unlink(g[s \ {Max(s)}], seq[Max(s)]), seq[Max(s)], Report(g[s \ {Max(s)}], seq[Max(s)]))
    BY <1>2, <1>5 DEF FoldOf
  <2> HIDE DEF step
  <2> QED
    BY <1>5, <2>1 DEF FoldOf
<1>7. iter = body(iter)
  <2> HIDE DEF body
  <2> QED
    BY <1>6
<1> HIDE DEF iter
<1>8. iter[{}] = u
  BY <1>7
<1>9. \A s \in SUBSET S : s # {} /\ iter[s \ {Max(s)}] \in D => iter[s] = step[<<Max(s), iter[s \ {Max(s)}]>>]
  <2> SUFFICES ASSUME NEW s \in SUBSET S, s # {}, iter[s \ {Max(s)}] \in D
               PROVE  iter[s] = step[<<Max(s), iter[s \ {Max(s)}]>>]
    OBVIOUS
  <2>1. Max(s) \in S
    BY <1>2
  <2>2. iter[s] = Remove1(Unlink(iter[s \ {Max(s)}], seq[Max(s)]), seq[Max(s)], Report(iter[s \ {Max(s)}], seq[Max(s)]))
    BY <1>7
  <2> QED
    BY <1>3, <2>1, <2>2
<1>10. PICK run : Running(run, Len(seq), S, D, step, u, iter)
  <2> HIDE DEF step
  <2>1. Folded(Len(seq), S, D, step, u, iter)
    BY <1>1, <1>4, <1>8, <1>9 DEF Folded
  <2> QED
    BY <2>1, FoldRuns, Zenon
<1>11. DeepFreeGroup(u, top) = iter[S]
  BY <1>13 DEF FoldLeft, MapThenFoldSet, iter, S
<1>15. 0 \in 0..Len(seq) /\ \A k \in 1..Len(seq) : k \in S /\ k # 0 /\ k \in 0..Len(seq) /\ k - 1 \in 0..Len(seq)
  BY <1>1
<1>16. run \in [0..Len(seq) -> D] /\ iter[S] = run[Len(seq)] /\ Recurs(run, Len(seq), step, u)
  BY <1>10, Zenon DEF Running
<1>17. run[0] = u /\ \A k \in 1..Len(seq) : run[k] = step[<<k, run[k - 1]>>]
  BY <1>15, <1>16, Zenon DEF Recurs
<1>14. run \in [0..Len(seq) -> D] /\ run[0] = u /\ iter[S] = run[Len(seq)]
  BY <1>16, <1>17
<1>12. \A k \in 1..Len(seq) : run[k] = Remove1(Unlink(run[k - 1], seq[k]), seq[k], Report(run[k - 1], seq[k]))
  <2> SUFFICES ASSUME NEW k \in 1..Len(seq) PROVE run[k] = Remove1(Unlink(run[k - 1], seq[k]), seq[k], Report(run[k - 1], seq[k]))
    OBVIOUS
  <2>1. k \in S /\ run[k - 1] \in D
    BY <1>14, <1>15
  <2> QED
    BY <1>17, <2>1
<1> HIDE DEF step
<1>20. run \in [0..Len(seq) -> Left(t)] /\ run[0] = u /\ iter[S] = run[Len(seq)]
  BY <1>14, Zenon DEF D
<1>21. Silences(run, t, u, seq)
  BY <1>12, <1>20, Zenon DEF Silences
<1> QED
  BY <1>11, <1>20, <1>21 DEF seq

(* A node that is freed with what is below it. *)
LEMMA FreeAtLeft ==
    ASSUME NEW t, NEW u \in Left(t), NEW i \in Slot
    PROVE  FreeAt(u, i) \in Left(t)
<1>1. Get(u, i, "prev") \in Link /\ Get(u, i, "next") \in Link
  BY GetLink DEF Left, Links
<1> QED
  BY <1>1, DestroyLeft, RepairLeft DEF FreeAt

(* A group that is emptied loses its children and keeps its slot. *)
LEMMA FreeAllAtLeft ==
    ASSUME NEW t, NEW u \in Left(t), NEW g
    PROVE  FreeAllAt(u, g) \in Left(t)
<1> DEFINE emptied == FoldLeft(Destroy, u, Children(u, g))
<1>1. emptied \in Left(t)
  BY ChildrenIs, DestroyAllLeft DEF Left
<1> HIDE DEF emptied
<1>2. None \in Link /\ "head" \in Links /\ "tail" \in Links
  BY DEF Link, Links
<1>3. PutGroup(PutGroup(emptied, g, "head", None), g, "tail", None) \in Left(t)
  BY <1>1, <1>2, PutGroupLeft
<1> QED
  BY <1>3 DEF FreeAllAt, emptied

(* What is left when the synths below a group are freed. *)
LEMMA DeepFreeGroupLeft ==
    ASSUME NEW t, NEW u \in Left(t), NEW g \in Slot
    PROVE  DeepFreeGroup(u, g) \in Left(t)
<1> DEFINE seq == Those(PostOrder(u, g), Synths(u))
<1>1. Len(seq) \in Nat
  <2>1. seq \in Seq(Slot \cap Synths(u))
    BY PostOrderIs, ThoseIs DEF Left
  <2> HIDE DEF seq
  <2> QED
    BY <2>1
<1>2. PICK run : Silences(run, t, u, seq) /\ DeepFreeGroup(u, g) = run[Len(seq)]
  BY DeepFreeRuns
<1> HIDE DEF seq
<1>3. Len(seq) \in 0..Len(seq)
  BY <1>1
<1> QED
  BY <1>2, <1>3, Zenon DEF Silences

-----------------------------------------------------------------------------
(* The done actions.                                                       *)

(* What a done action does to a neighbour that may be missing. *)
LEMMA FreeIfLeft ==
    ASSUME NEW t, NEW u \in Left(t), NEW i \in Link
    PROVE  /\ FreeIf(u, i) \in Left(t)
           /\ FreeAllIf(u, i) \in Left(t)
           /\ DeepFreeIf(u, i) \in Left(t)
           /\ Pause(u, i) \in Left(t)
<1>1. FreeIf(u, i) \in Left(t)
  BY FreeAtLeft DEF FreeIf, Link
<1>2. FreeAllIf(u, i) \in Left(t)
  BY <1>1, FreeAllAtLeft DEF FreeAllIf
<1>3. DeepFreeIf(u, i) \in Left(t)
  BY <1>1, DeepFreeGroupLeft DEF DeepFreeIf, IsGroup, IsLive
<1>4. Pause(u, i) \in Left(t)
  BY PutLeft DEF Pause
<1> QED
  BY <1>1, <1>2, <1>3, <1>4

(* A neighbour after another, as long as there is one.                     *)
Frees(freed, t, u, i, link) ==
    /\ freed \in [0..MaxNodes -> Left(t)] /\ freed[0] = u
    /\ \A k \in 1..MaxNodes : freed[k] = FreeIf(freed[k - 1], Get(freed[k - 1], i, link))
    /\ FreeChain(u, i, link) = freed[MaxNodes]
LEMMA FreeChainRuns ==
    ASSUME NEW t, NEW u \in Left(t), NEW i, NEW link \in Links
    PROVE  \E freed : Frees(freed, t, u, i, link)
<1> DEFINE n == MaxNodes
           D == Left(t)
           onwards(w) == FreeIf(w, Get(w, i, link))
           step == [p \in (1..n) \X D |-> onwards(p[2])]
           body(g) == [k \in 0..n |-> IF k = 0 THEN u ELSE onwards(g[k - 1])]
           freed == CHOOSE g : g = body(g)
<1>1. n \in Nat /\ u \in D
  BY SizeAssumption
<1>2. \A w \in D : onwards(w) \in D
  BY GetLink, FreeIfLeft DEF Left
<1> HIDE DEF n, D, onwards
<1>3. step \in [(1..n) \X D -> D]
  BY <1>2
<1>4. PICK g \in [0..n -> D] : Recurs(g, n, step, u)
  <2> HIDE DEF step
  <2> QED
    BY <1>1, <1>3, RecursionExists
<1>5. g = body(g)
  <2>1. \A k \in 0..n : k # 0 => k \in 1..n /\ k - 1 \in 0..n
    BY <1>1
  <2>2. \A k \in 0..n : g[k] = IF k = 0 THEN u ELSE onwards(g[k - 1])
    <3> SUFFICES ASSUME NEW k \in 0..n PROVE g[k] = IF k = 0 THEN u ELSE onwards(g[k - 1])
      OBVIOUS
    <3>1. g[k] = IF k = 0 THEN u ELSE step[<<k, g[k - 1]>>]
      BY <1>4 DEF Recurs
    <3>2. k # 0 => <<k, g[k - 1]>> \in (1..n) \X D
      BY <1>4, <2>1
    <3> QED
      BY <3>1, <3>2
  <2> HIDE DEF step
  <2> QED
    BY <1>4, <2>2
<1>6. freed = body(freed)
  <2> HIDE DEF body
  <2> QED
    BY <1>5
<1> HIDE DEF freed
<1>7. freed[0] = u /\ \A k \in 1..n : freed[k] = onwards(freed[k - 1])
  <2>1. 0 \in 0..n /\ \A k \in 1..n : k \in 0..n /\ k # 0
    BY <1>1
  <2>2. \A k \in 0..n : freed[k] = IF k = 0 THEN u ELSE onwards(freed[k - 1])
    BY <1>6
  <2> QED
    BY <2>1, <2>2
<1>8. \A k \in 0..n : freed[k] \in D
  <2>1. \A k \in 1..n : freed[k - 1] \in D => freed[k] \in D
    BY <1>2, <1>7
  <2> QED
    BY <1>1, <1>7, <2>1, RecursionStays
<1>9. freed \in [0..MaxNodes -> Left(t)]
  <2>1. freed = [k \in 0..n |-> freed[k]]
    BY <1>6
  <2> QED
    BY <1>8, <2>1 DEF n, D
<1>10. FreeChain(u, i, link) = freed[MaxNodes]
  BY DEF FreeChain, freed, n, onwards
<1> QED
  BY <1>7, <1>9, <1>10 DEF n, onwards, Frees

(* What is left when one side of a chain is freed. *)
LEMMA FreeChainLeft ==
    ASSUME NEW t, NEW u \in Left(t), NEW i, NEW link \in Links
    PROVE  FreeChain(u, i, link) \in Left(t)
<1>1. PICK freed : Frees(freed, t, u, i, link)
  BY FreeChainRuns
<1>2. MaxNodes \in 0..MaxNodes
  BY SizeAssumption
<1> QED
  BY <1>1, <1>2 DEF Frees

(* A done action leaves every slot its node, or frees it. *)
LEMMA PerformedLeft ==
    ASSUME NEW t \in Trees, NEW i \in Slot, NEW action \in DoneActions
    PROVE  Performed(t, i, action) \in Left(t)
<1> DEFINE prev == Get(t, i, "prev")
           next == Get(t, i, "next")
           parent == Get(t, i, "parent")
<1>1. /\ t \in Left(t) /\ prev \in Link /\ next \in Link /\ parent \in Link /\ i \in Link
      /\ "prev" \in Links /\ "next" \in Links
  BY LeftSelf, GetLink DEF Links, Link
<1> HIDE DEF prev, next, parent
<1>2. /\ Pause(t, i) \in Left(t) /\ Pause(t, prev) \in Left(t) /\ Pause(t, next) \in Left(t)
      /\ FreeIf(t, prev) \in Left(t) /\ FreeIf(t, next) \in Left(t)
      /\ FreeAllIf(t, prev) \in Left(t) /\ FreeAllIf(t, next) \in Left(t)
      /\ DeepFreeIf(t, prev) \in Left(t) /\ DeepFreeIf(t, next) \in Left(t)
      /\ FreeChain(t, i, "prev") \in Left(t) /\ FreeChain(t, i, "next") \in Left(t)
  BY <1>1, FreeIfLeft, FreeChainLeft
<1>3. \A u \in Left(t) : FreeAt(u, i) \in Left(t)
  BY FreeAtLeft
<1>4. FreeAllAt(t, parent) \in Left(t)
  BY <1>1, FreeAllAtLeft
<1>5. parent \notin {None, 0} => FreeAt(t, parent) \in Left(t)
  BY <1>1, FreeAtLeft DEF Link
<1>6. \A x \in DoneActions : x = action => Performed(t, i, x) \in Left(t)
  BY <1>1, <1>2, <1>3, <1>4, <1>5, Zenon DEF Performed, DoneActions, prev, next, parent
<1> QED
  BY <1>6

-----------------------------------------------------------------------------
(* The commands only have to leave a tree: no done action is pending.      *)

(* A slot that a new node takes. *)
LEMMA OccupyTree ==
    ASSUME NEW t \in Trees, NEW i \in Slot, NEW id \in NodeId, NEW kind \in Kinds
    PROVE  /\ Occupy(t, i, id, kind) \in Trees
           /\ DOMAIN Occupy(t, i, id, kind).ids = DOMAIN t.ids \cup {id}
<1> DEFINE ids == [n \in DOMAIN t.ids \cup {id} |-> IF n = id THEN i ELSE t.ids[n]]
           w == Occupy(t, i, id, kind)
<1>1. NewNode(id, kind) \in Node
  BY DEF NewNode, Node, Kinds, Link
<1>2. ids \in UNION {[N -> Slot] : N \in SUBSET NodeId}
  <2>1. PICK N \in SUBSET NodeId : t.ids \in [N -> Slot]
    BY DEF Trees
  <2>2. N \cup {id} \in SUBSET NodeId /\ ids \in [N \cup {id} -> Slot]
    BY <2>1
  <2> QED
    BY <2>2
<1>3. DOMAIN ids = DOMAIN t.ids \cup {id}
  OBVIOUS
<1>4. w = [t EXCEPT !.slots = [t.slots EXCEPT ![i] = NewNode(id, kind)], !.ids = ids,
                    !.synthCount = IF kind = "synth" THEN t.synthCount + 1 ELSE t.synthCount]
  BY DEF Occupy
<1> HIDE DEF ids, w
<1>5. t.synthCount \in Nat /\ t.slots \in [Slot -> Node \cup {Free}]
  BY DEF Trees
<1>6. /\ [t.slots EXCEPT ![i] = NewNode(id, kind)] \in [Slot -> Node \cup {Free}]
      /\ (IF kind = "synth" THEN t.synthCount + 1 ELSE t.synthCount) \in Nat
  BY <1>1, <1>5
<1>7. w \in Trees /\ w.ids = ids
  BY <1>2, <1>4, <1>6 DEF Trees
<1> QED
  BY <1>3, <1>7 DEF w

(* A free slot that is taken off the list. *)
LEMMA PoppedTree ==
    ASSUME NEW t \in Trees, t.free # <<>>
    PROVE  Popped(t) \in Trees /\ Popped(t).ids = t.ids /\ Last(t.free) \in Slot
<1>1. t.free \in Seq(Slot)
  BY DEF Trees
<1>2. Front(t.free) \in Seq(Slot) /\ Last(t.free) \in Slot
  BY <1>1 DEF Front, Last
<1>3. Popped(t) \in Trees /\ Popped(t).ids = t.ids
  BY <1>2 DEF Popped, Trees
<1> QED
  BY <1>2, <1>3

(* Writing links leaves the ids. *)
LEMMA PutIds == ASSUME NEW t \in Trees, NEW i, NEW link, NEW v PROVE Put(t, i, link, v).ids = t.ids
  BY DEF Put, Trees

(* Unlinking changes no id. *)
LEMMA UnlinkIds ==
    ASSUME NEW t \in Trees, NEW i
    PROVE  Unlink(t, i) \in Trees /\ Unlink(t, i).ids = t.ids
<1> DEFINE prev == Get(t, i, "prev")
           next == Get(t, i, "next")
           parent == Get(t, i, "parent")
           around == Put(Put(t, prev, "next", next), next, "prev", prev)
           first == IF Get(around, parent, "head") = i
                    THEN PutGroup(around, parent, "head", next) ELSE around
           out == RepairParent(t, parent, prev, next, i)
           p == Put(out, i, "parent", None)
           q == Put(p, i, "prev", None)
<1>1. /\ prev \in Link /\ next \in Link /\ parent \in Link /\ None \in Link
      /\ "parent" \in Links /\ "prev" \in Links /\ "next" \in Links
      /\ "head" \in Links /\ "tail" \in Links
  BY GetLink DEF Links, Link
<1>2. ASSUME NEW u \in Trees, NEW j, NEW link \in Links, NEW v \in Link
      PROVE  /\ Put(u, j, link, v) \in Trees /\ Put(u, j, link, v).ids = u.ids
             /\ PutGroup(u, j, link, v) \in Trees /\ PutGroup(u, j, link, v).ids = u.ids
  BY LeftSelf, PutLeft, PutGroupLeft, PutIds DEF Left, PutGroup
<1> HIDE DEF prev, next, parent
<1>3. around \in Trees /\ around.ids = t.ids
  BY <1>1, <1>2
<1> HIDE DEF around
<1>4. first \in Trees /\ first.ids = t.ids
  BY <1>1, <1>2, <1>3
<1> HIDE DEF first
<1>5. out = IF Get(first, parent, "tail") = i THEN PutGroup(first, parent, "tail", prev) ELSE first
  BY DEF RepairParent, first, around
<1> HIDE DEF out
<1>6. out \in Trees /\ out.ids = t.ids
  BY <1>1, <1>2, <1>4, <1>5
<1>7. p \in Trees /\ p.ids = t.ids
  BY <1>1, <1>2, <1>6
<1> HIDE DEF p
<1>8. q \in Trees /\ q.ids = t.ids
  BY <1>1, <1>2, <1>7
<1> HIDE DEF q
<1>9. Put(q, i, "next", None) \in Trees /\ Put(q, i, "next", None).ids = t.ids
  BY <1>1, <1>2, <1>8
<1> QED
  BY <1>9 DEF Unlink, out, p, q, prev, next, parent

(* A node that is linked where a command says. *)
LEMMA LinkAtTree ==
    ASSUME NEW t \in Trees, NEW i \in Slot, NEW target \in DOMAIN t.ids, NEW where \in Wheres
    PROVE  LinkAt(t, i, target, where) \in Trees
<1> DEFINE at == t.ids[target]
           g == DestGroup(t, target, where)
<1>1. at \in Slot /\ at \in Link /\ None \in Link /\ t \in Left(t)
  BY LeftSelf DEF Trees, Link
<1>2. /\ Get(t, g, "head") \in Link /\ Get(t, g, "tail") \in Link
      /\ Get(t, at, "prev") \in Link /\ Get(t, at, "next") \in Link /\ Get(t, at, "parent") \in Link
  BY GetLink DEF Links
<1>3. g \in Link
  BY <1>1, <1>2 DEF DestGroup
<1> HIDE DEF at, g
<1>4. /\ Insert(t, i, g, None, Get(t, g, "head")) \in Left(t)
      /\ Insert(t, i, g, Get(t, g, "tail"), None) \in Left(t)
      /\ Insert(t, i, g, Get(t, at, "prev"), at) \in Left(t)
      /\ Insert(t, i, g, at, Get(t, at, "next")) \in Left(t)
  BY <1>1, <1>2, <1>3, InsertLeft
<1>5. LinkAt(t, i, target, where) \in Left(t)
  BY <1>4, Zenon DEF LinkAt, Wheres, at, g
<1> QED
  BY <1>5 DEF Left

-----------------------------------------------------------------------------
(* The invariant.                                                          *)

(* Requests, and what each step keeps of the tree and of them.             *)
Request == [slot : Slot, id : NodeId, action : DoneActions]
TreeInv == tree \in Trees /\ done \in Seq(Request) /\ AskersKeepTheirSlots

(* The invariant holds of the new tree. *)
LEMMA InitTree == Init => TreeInv
<1> SUFFICES ASSUME Init PROVE TreeInv
  OBVIOUS
<1>1. NewNode(Root, "group") \in Node /\ MaxNodes \in Nat /\ MaxNodes >= 1 /\ 0 \in Slot
  BY IdAssumption, SizeAssumption, NodeFacts DEF NewNode, Node, Link
<1>2. [i \in 1..(MaxNodes - 1) |-> MaxNodes - i] \in Seq(Slot)
  <2>1. MaxNodes - 1 \in Nat /\ \A i \in 1..(MaxNodes - 1) : MaxNodes - i \in Slot
    BY <1>1 DEF Slot
  <2> QED
    BY <2>1
<1>3. [n \in {Root} |-> 0] \in UNION {[N -> Slot] : N \in SUBSET NodeId}
  <2>1. [n \in {Root} |-> 0] \in [{Root} -> Slot]
    BY <1>1
  <2>2. {Root} \in SUBSET NodeId
    BY IdAssumption
  <2> QED
    BY <2>1, <2>2
<1>4. [i \in Slot |-> IF i = 0 THEN NewNode(Root, "group") ELSE Free] \in [Slot -> Node \cup {Free}]
  BY <1>1
<1>5. tree \in Trees
  BY <1>2, <1>3, <1>4 DEF Init, Trees
<1>6. done \in Seq(Request) /\ AskersKeepTheirSlots
  BY DEF Init, AskersKeepTheirSlots
<1> QED
  BY <1>5, <1>6 DEF TreeInv

(* A command. *)
LEMMA CommandKeeps ==
    ASSUME TreeInv, done' = <<>>, tree' \in Trees
    PROVE  TreeInv'
  BY DEF TreeInv, AskersKeepTheirSlots

(* A command comes when no done action waits. *)
LEMMA AcceptEmpties ==
    ASSUME NEW command, Accept(command)
    PROVE  done' = <<>>
  BY DEF Accept

(* Each command and each step of a block keeps the invariant: adding a node, *)
LEMMA AddNodeKeeps ==
    ASSUME TreeInv, NEW id \in NodeId, NEW target \in NodeId, NEW kind \in Kinds,
           NEW where \in Wheres, AddNode(id, kind, target, where)
    PROVE  TreeInv'
<1> DEFINE i == Last(tree.free)
           u == Occupy(Popped(tree), i, id, kind)
<1>1. tree \in Trees /\ tree.free # <<>> /\ target \in DOMAIN tree.ids
  BY DEF TreeInv, AddNode, CanAdd, Resolves
<1>2. i \in Slot /\ u \in Trees /\ target \in DOMAIN u.ids
  BY <1>1, PoppedTree, OccupyTree
<1>3. tree' = LinkAt(u, i, target, where)
  BY DEF AddNode
<1> HIDE DEF i, u
<1>4. tree' \in Trees
  BY <1>2, <1>3, LinkAtTree
<1> QED
  BY <1>4, AcceptEmpties, CommandKeeps DEF AddNode

(* replacing one, *)
LEMMA ReplaceNodeKeeps ==
    ASSUME TreeInv, NEW id \in NodeId, NEW target \in NodeId, NEW kind \in Kinds,
           ReplaceNode(id, kind, target)
    PROVE  TreeInv'
<1> DEFINE i == Last(tree.free)
           at == tree.ids[target]
           out == Unlink(Popped(tree), at)
           vacated == Destroy(out, at)
           u == Occupy(vacated, i, id, kind)
<1>1. tree \in Trees /\ tree.free # <<>> /\ target \in DOMAIN tree.ids
  BY DEF TreeInv, ReplaceNode, CanReplace
<1>2. /\ at \in Slot
      /\ Get(tree, at, "parent") \in Link /\ Get(tree, at, "prev") \in Link
      /\ Get(tree, at, "next") \in Link
  <2>1. at \in Slot
    BY <1>1 DEF Trees
  <2> HIDE DEF at, i, out, vacated, u
  <2> QED
    BY <1>1, <2>1, GetLink DEF Links
<1>3. i \in Slot /\ Popped(tree) \in Trees
  BY <1>1, PoppedTree
<1>4. out \in Trees
  BY <1>3, UnlinkIds
<1>5. tree' = Insert(u, i, Get(tree, at, "parent"), Get(tree, at, "prev"), Get(tree, at, "next"))
  BY DEF ReplaceNode
<1> HIDE DEF out, at, i
<1>6. vacated \in Trees
  BY <1>2, <1>4, LeftSelf, DestroyLeft DEF Left
<1> HIDE DEF vacated
<1>7. u \in Trees
  BY <1>3, <1>6, OccupyTree
<1> HIDE DEF u
<1>8. tree' \in Trees
  BY <1>2, <1>3, <1>5, <1>7, LeftSelf, InsertLeft DEF Left
<1> QED
  BY <1>8, AcceptEmpties, CommandKeeps DEF ReplaceNode

(* moving one, *)
LEMMA MoveNodeKeeps ==
    ASSUME TreeInv, NEW id \in NodeId, NEW target \in NodeId, NEW where \in Wheres,
           MoveNode(id, target, where)
    PROVE  TreeInv'
<1> DEFINE i == tree.ids[id]
           u == Unlink(tree, i)
<1>1. tree \in Trees /\ id \in DOMAIN tree.ids /\ target \in DOMAIN tree.ids
  BY DEF TreeInv, MoveNode, CanMove, Resolves
<1>2. i \in Slot
  BY <1>1 DEF Trees
<1>3. u \in Trees /\ target \in DOMAIN u.ids
  BY <1>1, UnlinkIds
<1>4. tree' = LinkAt(u, i, target, where)
  BY DEF MoveNode
<1> HIDE DEF i, u
<1>5. tree' \in Trees
  BY <1>2, <1>3, <1>4, LinkAtTree
<1> QED
  BY <1>5, AcceptEmpties, CommandKeeps DEF MoveNode

(* freeing one, or what is below it, *)
LEMMA FreeKeeps ==
    ASSUME TreeInv, NEW id \in NodeId, FreeNode(id) \/ FreeAll(id) \/ DeepFree(id)
    PROVE  TreeInv'
<1>1. tree \in Trees /\ id \in DOMAIN tree.ids /\ done' = <<>>
  BY AcceptEmpties DEF TreeInv, FreeNode, FreeAll, DeepFree, CanFree, CanEmpty
<1>2. tree.ids[id] \in Slot
  BY <1>1 DEF Trees
<1>3. tree' \in Trees
  BY <1>1, <1>2, LeftSelf, FreeAtLeft, FreeAllAtLeft, DeepFreeGroupLeft
     DEF FreeNode, FreeAll, DeepFree, Left
<1> QED
  BY <1>1, <1>3, CommandKeeps

(* pausing and resuming it, *)
LEMMA SetRunKeeps ==
    ASSUME TreeInv, NEW id \in NodeId, NEW run \in BOOLEAN, SetRun(id, run)
    PROVE  TreeInv'
<1> DEFINE i == tree.ids[id]
<1>1. tree \in Trees /\ id \in DOMAIN tree.ids /\ done' = <<>>
  BY AcceptEmpties DEF TreeInv, SetRun
<1>2. i \in Slot
  BY <1>1 DEF Trees
<1>3. tree' = [tree EXCEPT !.slots = [tree.slots EXCEPT ![i] = [tree.slots[i] EXCEPT !.paused = ~run]]]
  BY DEF SetRun
<1>4. [tree.slots[i] EXCEPT !.paused = ~run] \in Node \cup {Free}
  <2>1. CASE tree.slots[i] = Free
    BY <2>1 DEF Free
  <2>2. CASE tree.slots[i] \in Node
    BY <2>2 DEF Node
  <2> QED
    BY <1>1, <1>2, <2>1, <2>2 DEF Trees
<1> HIDE DEF i
<1>5. tree' \in Trees
  BY <1>1, <1>2, <1>3, <1>4 DEF Trees
<1> QED
  BY <1>1, <1>5, CommandKeeps

(* reporting what was freed, *)
LEMMA DrainFreedKeeps ==
    ASSUME TreeInv, DrainFreed
    PROVE  TreeInv'
<1>1. done' = <<>> /\ tree' = [tree EXCEPT !.sink = <<>>] /\ tree \in Trees
  BY DEF DrainFreed, TreeInv
<1>2. /\ tree'.slots = tree.slots /\ tree'.free = tree.free /\ tree'.ids = tree.ids
      /\ tree'.synthCount = tree.synthCount /\ tree'.sink \in Seq(Info)
  BY <1>1 DEF Trees
<1>3. tree' = [slots |-> tree'.slots, free |-> tree'.free, ids |-> tree'.ids,
               synthCount |-> tree'.synthCount, sink |-> tree'.sink]
  BY <1>1 DEF Trees
<1>4. tree' \in Trees
  BY <1>1, <1>2, <1>3 DEF Trees
<1> QED
  BY <1>1, <1>4, CommandKeeps

(* The walk: who asks is a synth that the walk passes. *)
LEMMA ProcessKeeps ==
    ASSUME TreeInv, Process
    PROVE  TreeInv'
<1>1. tree \in Trees /\ UNCHANGED tree
  BY DEF TreeInv, Process
<1>2. PICK asking \in SUBSET ToSet(Processed(tree)) : \E action \in [asking -> Actions] :
         LET order == Those(Processed(tree), asking)
         IN  done' = [k \in DOMAIN order |->
                        [slot |-> order[k], id |-> tree.slots[order[k]].id, action |-> action[order[k]]]]
  BY DEF Process
<1>3. PICK action \in [asking -> Actions] :
         LET order == Those(Processed(tree), asking)
         IN  done' = [k \in DOMAIN order |->
                        [slot |-> order[k], id |-> tree.slots[order[k]].id, action |-> action[order[k]]]]
  BY <1>2
<1> DEFINE awake == {i \in Synths(tree) : ~tree.slots[i].paused}
           order == Those(Processed(tree), asking)
           askers == Slot \cap awake \cap asking
<1>4. order \in Seq(askers)
  <2>1. PostOrder(tree, 0) \in Seq(Slot)
    BY <1>1, NodeFacts, PostOrderIs
  <2>2. Processed(tree) \in Seq(Slot \cap awake)
    BY <2>1, ThoseIs DEF Processed
  <2> HIDE DEF awake
  <2> QED
    BY <2>2, ThoseIs
<1> HIDE DEF order
<1>5. DOMAIN order = 1..Len(order) /\ Len(order) \in Nat /\ \A k \in DOMAIN order : order[k] \in askers
  BY <1>4
<1>6. \A i \in askers : /\ i \in Slot /\ IsSynth(tree, i) /\ tree.slots[i].id \in NodeId
                        /\ action[i] \in DoneActions
  BY <1>1, LiveIs, ActionAssumption DEF Synths, IsSynth, Node
<1> HIDE DEF askers, awake
<1>7. done' = [k \in DOMAIN order |->
                 [slot |-> order[k], id |-> tree.slots[order[k]].id, action |-> action[order[k]]]]
  BY <1>3 DEF order
<1>8. done' \in Seq(Request)
  <2>1. \A k \in 1..Len(order) : done'[k] \in Request
    BY <1>5, <1>6, <1>7 DEF Request
  <2>2. done' \in [1..Len(order) -> Request]
    BY <1>5, <1>7, <2>1
  <2> QED
    BY <1>5, <2>2
<1>9. AskersKeepTheirSlots'
  BY <1>1, <1>5, <1>6, <1>7 DEF AskersKeepTheirSlots
<1> QED
  BY <1>1, <1>8, <1>9 DEF TreeInv

(* A done action takes effect: the others find their synths or nothing. *)
LEMMA ApplyKeeps ==
    ASSUME TreeInv, ApplyDoneAction
    PROVE  TreeInv'
<1>1. tree \in Trees /\ done \in Seq(Request) /\ done # <<>> /\ done' = Tail(done)
  BY DEF TreeInv, ApplyDoneAction
<1>2. Head(done) \in Request
  BY <1>1
<1>3. tree' \in Left(tree)
  BY <1>1, <1>2, LeftSelf, PerformedLeft DEF ApplyDoneAction, Request
<1>4. done' \in Seq(Request) /\ \A k \in DOMAIN done' : k + 1 \in DOMAIN done /\ done'[k] = done[k + 1]
  BY <1>1
<1>5. AskersKeepTheirSlots'
  <2> SUFFICES ASSUME NEW k \in DOMAIN done', IsLive(tree, done[k].slot)'
               PROVE  (IsSynth(tree, done[k].slot) /\ tree.slots[done[k].slot].id = done[k].id)'
    BY DEF AskersKeepTheirSlots
  <2> DEFINE i == done[k + 1].slot
  <2>1. k + 1 \in DOMAIN done /\ done'[k] = done[k + 1]
    BY <1>4
  <2>2. i \in Slot /\ tree'.slots[i] # Free
    BY <2>1 DEF IsLive
  <2>3. /\ tree.slots[i] # Free
        /\ tree'.slots[i].kind = tree.slots[i].kind /\ tree'.slots[i].id = tree.slots[i].id
    BY <1>3, <2>2 DEF Left, Keeps
  <2>4. IsSynth(tree, i) /\ tree.slots[i].id = done[k + 1].id
    BY <2>1, <2>2, <2>3 DEF TreeInv, AskersKeepTheirSlots, IsLive
  <2> QED
    BY <2>1, <2>2, <2>3, <2>4 DEF IsSynth, IsLive
<1> QED
  BY <1>3, <1>4, <1>5 DEF TreeInv, Left

(* Every step keeps the invariant. *)
LEMMA StepTree == TreeInv /\ [Next]_vars => TreeInv'
<1> SUFFICES ASSUME TreeInv, [Next]_vars PROVE TreeInv'
  OBVIOUS
<1>1. CASE UNCHANGED vars
  BY <1>1 DEF vars, TreeInv, AskersKeepTheirSlots, IsLive, IsSynth
<1>2. CASE \E id, target \in NodeId, kind \in Kinds, where \in Wheres :
              AddNode(id, kind, target, where)
  BY <1>2, AddNodeKeeps
<1>3. CASE \E id, target \in NodeId, kind \in Kinds : ReplaceNode(id, kind, target)
  BY <1>3, ReplaceNodeKeeps
<1>4. CASE \E id, target \in NodeId, where \in Wheres : MoveNode(id, target, where)
  BY <1>4, MoveNodeKeeps
<1>5. CASE \E id \in NodeId : FreeNode(id) \/ FreeAll(id) \/ DeepFree(id)
  BY <1>5, FreeKeeps
<1>6. CASE \E id \in NodeId, run \in BOOLEAN : SetRun(id, run)
  BY <1>6, SetRunKeeps
<1>7. CASE Process
  BY <1>7, ProcessKeeps
<1>8. CASE ApplyDoneAction
  BY <1>8, ApplyKeeps
<1>9. CASE DrainFreed
  BY <1>9, DrainFreedKeeps
<1> QED
  BY <1>1, <1>2, <1>3, <1>4, <1>5, <1>6, <1>7, <1>8, <1>9 DEF Next

(* No other node takes the slot of a synth between the walk that collected *)
(* its done action and the action (World::apply_done_actions, tree.rs).    *)
THEOREM AskersStay == Spec => []AskersKeepTheirSlots
<1>1. TreeInv => AskersKeepTheirSlots
  BY DEF TreeInv
<1> QED
  BY <1>1, InitTree, StepTree, PTL DEF Spec

-----------------------------------------------------------------------------
(* Sequences that list a set, each member once.                            *)
Lists(s, S) ==
    /\ s \in Seq(S)
    /\ \A x \in S : \E k \in DOMAIN s : s[k] = x
    /\ \A a, b \in DOMAIN s : s[a] = s[b] => a = b

(* Such a sequence is as long as the set is large. *)
LEMMA ListsSize ==
    ASSUME NEW S, NEW s, Lists(s, S)
    PROVE  IsFiniteSet(S) /\ Len(s) = Cardinality(S) /\ Len(s) \in Nat /\ ToSet(s) = S
<1> DEFINE n == Len(s)
<1>1. n \in Nat /\ DOMAIN s = 1..n /\ s \in [1..n -> S]
  BY DEF Lists
<1> HIDE DEF n
<1>2. s \in Surjection(1..n, S) /\ s \in Injection(1..n, S)
  <2>1. \A x \in S : \E k \in 1..n : s[k] = x
    BY <1>1, Zenon DEF Lists
  <2>2. \A a, b \in 1..n : s[a] = s[b] => a = b
    BY <1>1, Zenon DEF Lists
  <2>3. s \in Surjection(1..n, S)
    BY <1>1, <2>1, Zenon DEF Surjection
  <2>4. s \in Injection(1..n, S)
    <3>1. \A a, b \in 1..n : s[a] = s[b] => a = b
      BY <2>2, Zenon
    <3> QED
      BY <1>1, <3>1 DEF Injection, IsInjective
  <2> QED
    BY <2>3, <2>4
<1>3. IsFiniteSet(1..n) /\ Cardinality(1..n) = n
  BY <1>1, FS_Interval
<1>4. IsFiniteSet(S)
  BY <1>2, <1>3, FS_Surjection
<1>5. Cardinality(S) <= n /\ (Cardinality(S) = n <=> s \in Injection(1..n, S))
  BY <1>2, <1>3, FS_Surjection
<1>6. ToSet(s) = S
  BY <1>1 DEF Lists, ToSet
<1> QED
  BY <1>1, <1>2, <1>4, <1>5, <1>6 DEF n

(* Two of them, one after the other. *)
LEMMA ListsTwo ==
    ASSUME NEW U, NEW P \in SUBSET U, NEW Q \in SUBSET U, NEW s, NEW r,
           Lists(s, P), Lists(r, Q), P \cap Q = {}
    PROVE  Lists(s \o r, P \cup Q)
<1> DEFINE w == s \o r
           n == Len(s)
           m == Len(r)
<1>1. s \in Seq(P) /\ r \in Seq(Q) /\ s \in Seq(P \cup Q) /\ r \in Seq(P \cup Q)
  BY DEF Lists
<1>2. /\ n \in Nat /\ m \in Nat /\ DOMAIN s = 1..n /\ DOMAIN r = 1..m /\ DOMAIN w = 1..(n + m)
      /\ w \in Seq(P \cup Q)
      /\ \A k \in 1..(n + m) : w[k] = IF k <= n THEN s[k] ELSE r[k - n]
  BY <1>1, ConcatProperties
<1> HIDE DEF w, n, m
<1>3. ASSUME NEW x \in P \cup Q PROVE \E k \in 1..(n + m) : w[k] = x
  <2>1. CASE x \in P
    <3>1. PICK k \in 1..n : s[k] = x
      BY <1>2, <2>1 DEF Lists
    <3> QED
      BY <1>2, <3>1
  <2>2. CASE x \in Q
    <3>1. PICK k \in 1..m : r[k] = x
      BY <1>2, <2>2 DEF Lists
    <3>2. n + k \in 1..(n + m) /\ ~(n + k <= n) /\ (n + k) - n = k
      BY <1>2, <3>1
    <3> QED
      BY <1>2, <3>1, <3>2
  <2> QED
    BY <2>1, <2>2
<1>4. \A k \in 1..(n + m) : IF k <= n THEN k \in 1..n /\ w[k] = s[k] /\ w[k] \in P
                            ELSE k - n \in 1..m /\ w[k] = r[k - n] /\ w[k] \in Q
  BY <1>1, <1>2
<1>5. ASSUME NEW a \in 1..(n + m), NEW b \in 1..(n + m), w[a] = w[b] PROVE a = b
  <2>1. (a <= n) <=> (b <= n)
    BY <1>4, <1>5
  <2>2. CASE a <= n
    BY <1>2, <1>4, <1>5, <2>1, <2>2 DEF Lists
  <2>3. CASE ~(a <= n)
    <3>1. a - n \in 1..m /\ b - n \in 1..m /\ r[a - n] = r[b - n]
      BY <1>4, <1>5, <2>1, <2>3
    <3>2. a - n = b - n
      BY <1>2, <3>1 DEF Lists
    <3> QED
      BY <1>2, <3>2
  <2> QED
    BY <2>2, <2>3
<1> QED
  BY <1>2, <1>3, <1>5 DEF Lists, w

(* Many of them. *)
LEMMA ListsMany ==
    ASSUME NEW U, NEW s \in Seq(Seq(U)),
           \A c \in DOMAIN s : \A a, b \in DOMAIN s[c] : s[c][a] = s[c][b] => a = b,
           \A c, d \in DOMAIN s : c # d => ToSet(s[c]) \cap ToSet(s[d]) = {}
    PROVE  Lists(FlattenSeq(s), UNION {ToSet(s[c]) : c \in DOMAIN s})
<1> DEFINE Separate(r) == /\ \A c \in DOMAIN r : \A a, b \in DOMAIN r[c] : r[c][a] = r[c][b] => a = b
                       /\ \A c, d \in DOMAIN r : c # d => ToSet(r[c]) \cap ToSet(r[d]) = {}
           All(r) == UNION {ToSet(r[c]) : c \in DOMAIN r}
           T == {r \in Seq(Seq(U)) : Separate(r) => Lists(FlattenSeq(r), All(r))}
<1>1. <<>> \in T
  <2>1. All(<<>>) = {} /\ FlattenSeq(<<>>) = <<>>
    BY FlattenEmpty
  <2>2. Lists(<<>>, {}) /\ <<>> \in Seq(Seq(U))
    BY DEF Lists
  <2> HIDE DEF All, Separate
  <2> QED
    BY <2>1, <2>2
<1>2. ASSUME NEW r \in Seq(Seq(U)), NEW c \in Seq(U), r \in T PROVE Append(r, c) \in T
  <2> DEFINE q == Append(r, c)
             n == Len(r)
  <2>1. /\ q \in Seq(Seq(U)) /\ n \in Nat /\ DOMAIN q = 1..(n + 1) /\ DOMAIN r = 1..n
        /\ q[n + 1] = c /\ \A k \in 1..n : q[k] = r[k]
    OBVIOUS
  <2>2. FlattenSeq(q) = FlattenSeq(r) \o c
    BY FlattenAppend
  <2> HIDE DEF q, n, All
  <2>3. SUFFICES ASSUME Separate(q) PROVE Lists(FlattenSeq(q), All(q))
    BY <2>1 DEF q
  <2>4. Separate(r)
    <3>1. \A k \in DOMAIN r : k \in DOMAIN q /\ q[k] = r[k]
      BY <2>1
    <3>2. ASSUME NEW k \in DOMAIN r, NEW a \in DOMAIN r[k], NEW b \in DOMAIN r[k], r[k][a] = r[k][b]
          PROVE  a = b
      <4>1. k \in DOMAIN q /\ q[k] = r[k]
        BY <3>1
      <4> QED
        BY <2>3, <3>2, <4>1, Zenon
    <3>3. ASSUME NEW k \in DOMAIN r, NEW d \in DOMAIN r, k # d
          PROVE  ToSet(r[k]) \cap ToSet(r[d]) = {}
      <4>1. k \in DOMAIN q /\ q[k] = r[k] /\ d \in DOMAIN q /\ q[d] = r[d]
        BY <3>1
      <4>2. ToSet(q[k]) \cap ToSet(q[d]) = {}
        BY <2>3, <3>3, <4>1, Zenon
      <4> QED
        BY <4>1, <4>2
    <3> QED
      BY <3>2, <3>3
  <2>5. Lists(FlattenSeq(r), All(r))
    BY <1>2, <2>4
  <2>6. c \in Seq(ToSet(c)) /\ \A a, b \in DOMAIN c : c[a] = c[b] => a = b
    <3>1. n + 1 \in DOMAIN q /\ q[n + 1] = c
      BY <2>1
    <3>2. \A a, b \in DOMAIN q[n + 1] : q[n + 1][a] = q[n + 1][b] => a = b
      BY <2>3, <3>1, Zenon
    <3>3. c \in Seq(ToSet(c))
      BY DEF ToSet
    <3> QED
      BY <3>1, <3>2, <3>3
  <2>7. Lists(c, ToSet(c))
    BY <2>6 DEF Lists, ToSet
  <2>8. \A k \in DOMAIN r : ToSet(r[k]) \cap ToSet(c) = {}
    <3> SUFFICES ASSUME NEW k \in DOMAIN r PROVE ToSet(r[k]) \cap ToSet(c) = {}
      OBVIOUS
    <3>1. /\ k \in DOMAIN q /\ q[k] = r[k] /\ n + 1 \in DOMAIN q /\ q[n + 1] = c
          /\ k # n + 1
      BY <2>1
    <3>2. ToSet(q[k]) \cap ToSet(q[n + 1]) = {}
      BY <2>3, <3>1, Zenon
    <3> QED
      BY <3>1, <3>2
  <2>9. All(q) = All(r) \cup ToSet(c) /\ All(r) \cap ToSet(c) = {}
    <3> HIDE DEF Separate
    <3>1. DOMAIN q = DOMAIN r \cup {n + 1} /\ q[n + 1] = c /\ \A k \in DOMAIN r : q[k] = r[k]
      BY <2>1
    <3>2. All(q) = All(r) \cup ToSet(c)
      BY <3>1 DEF All
    <3>3. All(r) \cap ToSet(c) = {}
      BY <2>8 DEF All
    <3> QED
      BY <3>2, <3>3
  <2>10. Lists(FlattenSeq(r) \o c, All(r) \cup ToSet(c))
    BY <2>5, <2>7, <2>9, ListsTwo, Zenon
  <2> QED
    BY <2>2, <2>9, <2>10
<1>3. Seq(Seq(U)) \subseteq T
  <2> HIDE DEF T
  <2> QED
    BY <1>1, <1>2, InductAppend
<1> QED
  BY <1>3

-----------------------------------------------------------------------------
(* Trees within a tree.                                                    *)

(* The live slots. *)
LiveIn(t) == {i \in Slot : IsLive(t, i)}

(* Within a set of nodes, each but the roots is in the chain of its parent,*)
(* and the links of a chain agree.                                         *)
Ties(t, S, R) ==
    /\ S \in SUBSET Slot /\ R \in SUBSET S
    /\ \A j \in S :
          /\ IsLive(t, j)
          /\ Get(t, j, "head") \in (S \ R) \cup {None}
          /\ Get(t, j, "tail") \in (S \ R) \cup {None}
          /\ Get(t, j, "head") # None =>
                /\ IsGroup(t, j)
                /\ Get(t, Get(t, j, "head"), "parent") = j
                /\ Get(t, Get(t, j, "head"), "prev") = None
          /\ Get(t, j, "tail") # None =>
                /\ IsGroup(t, j)
                /\ Get(t, Get(t, j, "tail"), "parent") = j
                /\ Get(t, Get(t, j, "tail"), "next") = None
    /\ \A j \in R : Get(t, j, "parent") \notin S
    /\ \A j \in S \ R :
          /\ Get(t, j, "parent") \in S /\ IsGroup(t, Get(t, j, "parent"))
          /\ Get(t, j, "next") \in (S \ R) \cup {None}
          /\ Get(t, j, "prev") \in (S \ R) \cup {None}
          /\ Get(t, j, "next") # None =>
                /\ Get(t, Get(t, j, "next"), "prev") = j
                /\ Get(t, Get(t, j, "next"), "parent") = Get(t, j, "parent")
          /\ Get(t, j, "prev") # None =>
                /\ Get(t, Get(t, j, "prev"), "next") = j
                /\ Get(t, Get(t, j, "prev"), "parent") = Get(t, j, "parent")
          /\ Get(t, j, "next") = None => Get(t, Get(t, j, "parent"), "tail") = j
          /\ Get(t, j, "prev") = None => Get(t, Get(t, j, "parent"), "head") = j

(* No chain and no line of parents runs in a circle: some node of every    *)
(* set has neither its parent nor the node before it there.                *)
Grounded(t, S, R) ==
    \A X \in SUBSET S : X # {} =>
        \E m \in X : Get(t, m, "parent") \notin X /\ (m \in R \/ Get(t, m, "prev") \notin X)

(* Both: the nodes of the set hang from the roots. *)
Trunks(t, S, R) == Ties(t, S, R) /\ Grounded(t, S, R)

(* A node with all that is below it: nodes that hang from it, and no other *)
(* node of the tree is in one of them.                                     *)
Branch(t, B, i) == i \in B /\ Trunks(t, B, {i})
Closed(t, S, B) == \A j \in S : Get(t, j, "parent") \in B => j \in B

(* Every node of a tree has its branch. *)
LEMMA BranchExists ==
    ASSUME NEW t, NEW S, NEW R, Trunks(t, S, R), NEW i \in S
    PROVE  \E B \in SUBSET S : Branch(t, B, i) /\ Closed(t, S, B) /\ B \cap R \subseteq {i}
<1> DEFINE B == {j \in S : \A C \in SUBSET S : i \in C /\ Closed(t, S, C) => j \in C}
<1>1. i \in B /\ B \in SUBSET S
  OBVIOUS
<1>2. Closed(t, S, B)
  BY DEF Closed
<1>3. ASSUME NEW j \in B, j # i PROVE Get(t, j, "parent") \in B
  <2> SUFFICES ASSUME Get(t, j, "parent") \notin B PROVE FALSE
    OBVIOUS
  <2> DEFINE C == B \ {j}
  <2>1. i \in C /\ C \in SUBSET S
    BY <1>1, <1>3
  <2>2. Closed(t, S, C)
    <3> HIDE DEF B
    <3> QED
      BY <1>2 DEF Closed
  <2>3. j \in C
    BY <2>1, <2>2
  <2> QED
    BY <2>3
<1> HIDE DEF B
<1>4. Get(t, i, "parent") \notin B
  <2> SUFFICES ASSUME Get(t, i, "parent") \in B PROVE FALSE
    OBVIOUS
  <2>1. PICK m \in B : Get(t, m, "parent") \notin B
    BY <1>1 DEF Trunks, Grounded
  <2> QED
    BY <1>3, <2>1
<1>5. B \cap R \subseteq {i}
  BY <1>1, <1>3 DEF Trunks, Ties
<1>6. Ties(t, B, {i})
  <2>1. Ties(t, S, R)
    BY DEF Trunks
  <2>2. \A j \in S : Get(t, j, "parent") \in B => j \in B
    BY <1>2 DEF Closed
  <2>3. ASSUME NEW j \in B
        PROVE  /\ IsLive(t, j)
               /\ Get(t, j, "head") \in (B \ {i}) \cup {None}
               /\ Get(t, j, "tail") \in (B \ {i}) \cup {None}
    BY <1>1, <1>4, <2>1, <2>2 DEF Ties
  <2>4. ASSUME NEW j \in B \ {i}
        PROVE  /\ Get(t, j, "parent") \in B /\ j \in S \ R
               /\ Get(t, j, "next") \in (B \ {i}) \cup {None}
               /\ Get(t, j, "prev") \in (B \ {i}) \cup {None}
    <3>1. Get(t, j, "parent") \in B /\ j \in S \ R
      BY <1>1, <1>3, <1>5
    <3> QED
      BY <1>1, <1>4, <2>1, <2>2, <3>1 DEF Ties
  <2> QED
    BY <1>1, <1>4, <2>1, <2>3, <2>4 DEF Ties
<1>7. Grounded(t, B, {i})
  <2> SUFFICES ASSUME NEW X \in SUBSET B, X # {}
               PROVE  \E m \in X : Get(t, m, "parent") \notin X /\ (m \in {i} \/ Get(t, m, "prev") \notin X)
    BY DEF Grounded
  <2>1. PICK m \in X : Get(t, m, "parent") \notin X /\ (m \in R \/ Get(t, m, "prev") \notin X)
    BY <1>1 DEF Trunks, Grounded
  <2> QED
    BY <1>5, <2>1
<1> QED
  BY <1>1, <1>2, <1>5, <1>6, <1>7 DEF Branch, Trunks

(* There are as many slots as nodes fit. *)
LEMMA SlotCount ==
    /\ IsFiniteSet(Slot) /\ Cardinality(Slot) = MaxNodes
    /\ \A g \in Slot : IsFiniteSet(Slot \ {g}) /\ Cardinality(Slot \ {g}) = MaxNodes - 1
    /\ \A B \in SUBSET Slot : IsFiniteSet(B) /\ Cardinality(B) \in Nat /\ Cardinality(B) <= MaxNodes
<1>1. IsFiniteSet(Slot) /\ Cardinality(Slot) = MaxNodes
  <2>1. MaxNodes - 1 \in Int /\ 0 \in Int /\ ~(0 > MaxNodes - 1)
    BY SizeAssumption
  <2>2. IsFiniteSet(0..(MaxNodes - 1)) /\ Cardinality(0..(MaxNodes - 1)) = MaxNodes - 1 - 0 + 1
    BY <2>1, FS_Interval
  <2> QED
    BY <2>2, SizeAssumption DEF Slot
<1>2. \A g \in Slot : IsFiniteSet(Slot \ {g}) /\ Cardinality(Slot \ {g}) = MaxNodes - 1
  BY <1>1, FS_RemoveElement
<1>3. \A B \in SUBSET Slot : IsFiniteSet(B) /\ Cardinality(B) \in Nat /\ Cardinality(B) <= MaxNodes
  BY <1>1, FS_Subset, FS_CardinalityType
<1> QED
  BY <1>1, <1>2, <1>3

(* The children of a node, in the order of their chain. *)
LEMMA ChildrenList ==
    ASSUME NEW t \in Trees, NEW S, NEW R, Trunks(t, S, R), NEW g \in S
    PROVE  Lists(Children(t, g), {j \in S : Get(t, j, "parent") = g})
<1> DEFINE Kids == {j \in S : Get(t, j, "parent") = g}
           from == Get(t, g, "head")
<1>0. from \in Link /\ Ties(t, S, R) /\ S \subseteq Slot /\ None \notin Slot
  BY GetLink, IdAssumption, SizeAssumption DEF Links, Trunks, Ties, Slot
<1>20. PICK at, m : Strings(at, m, t, from)
  BY <1>0, ChainRuns
<1>1. /\ at \in [0..MaxNodes -> Link] /\ m \in Nat
      /\ at[0] = from /\ \A k \in 1..MaxNodes : at[k] = Get(t, at[k - 1], "next")
      /\ m < MaxNodes /\ \A k \in 0..(m - 1) : at[k] # None
      /\ m < MaxNodes - 1 => at[m] = None
      /\ Chain(t, from) = [k \in 1..m |-> at[k - 1]]
  BY <1>20, Zenon DEF Strings
<1> DEFINE n == IF at[m] = None THEN m ELSE m + 1
<1>2. /\ n \in Nat /\ n <= MaxNodes /\ MaxNodes \in Nat \ {0}
      /\ \A k \in 0..(n - 1) : at[k] # None
  BY <1>1, SizeAssumption
<1>3. n = m \/ (n = m + 1 /\ n = MaxNodes)
  BY <1>1, SizeAssumption
<1>4. n = m => at[m] = None
  BY <1>1
<1> HIDE DEF n, Kids, from
<1>5. \A k \in 0..(n - 1) : at[k] \in S \ R /\ Get(t, at[k], "parent") = g
  <2> DEFINE T == {k \in 1..n : at[k - 1] \in S \ R /\ Get(t, at[k - 1], "parent") = g}
  <2>1. n >= 1 => 1 \in T
    <3>1. n >= 1 => at[0] # None
      BY <1>2
    <3>2. from # None => from \in S \ R /\ Get(t, from, "parent") = g
      BY <1>0 DEF Ties, from
    <3> QED
      BY <1>1, <1>2, <3>1, <3>2
  <2>2. ASSUME NEW k \in 1..n, k \in T, k + 1 <= n PROVE k + 1 \in T
    <3>1. at[k] = Get(t, at[k - 1], "next") /\ at[k] # None
      BY <1>1, <1>2, <2>2
    <3>2. at[k - 1] \in S \ R /\ Get(t, at[k - 1], "parent") = g
      BY <2>2
    <3>3. at[k] \in S \ R /\ Get(t, at[k], "parent") = g
      BY <1>0, <3>1, <3>2 DEF Ties
    <3> QED
      BY <1>2, <2>2, <3>3
  <2>3. 1..n \subseteq T
    <3> HIDE DEF T
    <3> QED
      BY <1>2, <2>1, <2>2, InductTo
  <2> SUFFICES ASSUME NEW k \in 0..(n - 1)
               PROVE  at[k] \in S \ R /\ Get(t, at[k], "parent") = g
    OBVIOUS
  <2>4. k + 1 \in 1..n /\ (k + 1) - 1 = k
    BY <1>2
  <2> QED
    BY <2>3, <2>4
<1>6. \A k \in 1..(n - 1) : Get(t, at[k], "prev") = at[k - 1]
  <2> SUFFICES ASSUME NEW k \in 1..(n - 1) PROVE Get(t, at[k], "prev") = at[k - 1]
    OBVIOUS
  <2>1. k - 1 \in 0..(n - 1) /\ k \in 0..(n - 1) /\ k \in 1..MaxNodes
    BY <1>2
  <2>2. at[k] = Get(t, at[k - 1], "next") /\ at[k] # None /\ at[k - 1] \in S \ R
    BY <1>1, <1>2, <1>5, <2>1
  <2> QED
    BY <1>0, <2>2 DEF Ties
<1>7. ASSUME NEW a \in 0..(n - 1), NEW b \in 0..(n - 1), a < b PROVE at[a] # at[b]
  <2> SUFFICES ASSUME at[a] = at[b] PROVE FALSE
    OBVIOUS
  <2> DEFINE X == {at[c] : c \in a..b}
  <2>1. a \in a..b /\ \A c \in a..b : c \in 0..(n - 1)
    BY <1>2, <1>7
  <2>2. X \in SUBSET S /\ X # {} /\ \A x \in X : x \notin R
    BY <1>5, <2>1
  <2>3. PICK x \in X : Get(t, x, "prev") \notin X
    <3> HIDE DEF X
    <3> QED
      BY <2>2 DEF Trunks, Grounded
  <2>4. PICK c \in a..b : x = at[c]
    OBVIOUS
  <2>5. PICK d \in (a + 1)..b : x = at[d]
    BY <1>7, <2>4
  <2>6. d \in 1..(n - 1) /\ d - 1 \in a..b
    BY <1>2, <1>7
  <2> QED
    BY <1>6, <2>3, <2>5, <2>6
<1>8. n = m
  <2> SUFFICES ASSUME n = MaxNodes PROVE FALSE
    BY <1>3
  <2> DEFINE f == [k \in 0..(n - 1) |-> at[k]]
  <2>1. \A k \in 0..(n - 1) : at[k] \in Slot \ {g}
    <3>1. Get(t, g, "parent") # g
      <4>1. {g} \in SUBSET S /\ {g} # {}
        OBVIOUS
      <4>2. \E x \in {g} : Get(t, x, "parent") \notin {g}
        BY <4>1, Zenon DEF Trunks, Grounded
      <4> QED
        BY <4>2
    <3> QED
      BY <1>0, <1>5, <3>1
  <2>2. f \in [0..(n - 1) -> Slot \ {g}]
    BY <2>1
  <2>3. IsFiniteSet(0..(n - 1)) /\ Cardinality(0..(n - 1)) = n
    BY <1>2, FS_Interval
  <2>4. IsFiniteSet(Slot \ {g}) /\ Cardinality(Slot \ {g}) < n
    BY <1>0, <1>2, SlotCount
  <2>5. \A k \in 0..(n - 1) : f[k] = at[k]
    OBVIOUS
  <2> HIDE DEF f
  <2>6. \E x \in 0..(n - 1), y \in 0..(n - 1) : x # y /\ f[x] = f[y]
    <3> DEFINE I == 0..(n - 1)
               U == Slot \ {g}
    <3>1. IsFiniteSet(I) /\ IsFiniteSet(U) /\ Cardinality(U) < Cardinality(I) /\ f \in [I -> U]
      BY <2>2, <2>3, <2>4
    <3> HIDE DEF I, U
    <3>2. \E x, y \in I : x # y /\ f[x] = f[y]
      BY <3>1, FS_PigeonHole
    <3> QED
      BY <3>2 DEF I
  <2> QED
    BY <1>2, <1>7, <2>5, <2>6
<1>9. \A j \in Kids : \E k \in 0..(n - 1) : at[k] = j
  <2> DEFINE X == {j \in Kids : \A k \in 0..(n - 1) : at[k] # j}
  <2> SUFFICES ASSUME X # {} PROVE FALSE
    OBVIOUS
  <2>1. X \in SUBSET S
    BY DEF Kids
  <2>2. PICK x \in X : Get(t, x, "prev") \notin X /\ x \notin R
    <3>1. \A x \in X : x \notin R
      BY <1>0 DEF Ties, Kids
    <3> HIDE DEF X
    <3> QED
      BY <2>1, <3>1 DEF Trunks, Grounded
  <2>3. x \in S \ R /\ Get(t, x, "parent") = g /\ x # None
    BY <1>0, <2>2 DEF Kids
  <2>4. CASE Get(t, x, "prev") = None
    <3>1. at[0] = x
      BY <1>0, <1>1, <2>3, <2>4 DEF Ties, from
    <3>2. n # 0
      BY <1>4, <1>8, <2>3, <3>1
    <3>3. 0 \in 0..(n - 1)
      BY <1>2, <3>2
    <3> QED
      BY <2>2, <3>1, <3>3
  <2>5. CASE Get(t, x, "prev") # None
    <3> DEFINE p == Get(t, x, "prev")
    <3>1. p \in S /\ Get(t, p, "parent") = g /\ Get(t, p, "next") = x
      BY <1>0, <2>3, <2>5 DEF Ties
    <3>2. PICK k \in 0..(n - 1) : at[k] = p
      BY <2>2, <3>1 DEF Kids
    <3>3. k + 1 \in 1..MaxNodes /\ (k + 1) - 1 = k
      BY <1>2
    <3>4. at[k + 1] = x
      BY <1>1, <3>1, <3>2, <3>3
    <3>5. k + 1 # n
      BY <1>4, <1>8, <2>3, <3>4
    <3>6. k + 1 \in 0..(n - 1)
      BY <1>2, <3>5
    <3> QED
      BY <2>2, <3>4, <3>6
  <2> QED
    BY <2>4, <2>5
<1> DEFINE s == [k \in 1..n |-> at[k - 1]]
<1>10. Children(t, g) = s
  BY <1>1, <1>8 DEF Children, from
<1>11. ASSUME NEW k \in 1..n PROVE s[k] = at[k - 1] /\ k - 1 \in 0..(n - 1) /\ s[k] \in Kids
  <2>1. k - 1 \in 0..(n - 1)
    BY <1>2
  <2>2. at[k - 1] \in Kids
    BY <1>5, <2>1 DEF Kids
  <2> QED
    BY <2>1, <2>2
<1>12. DOMAIN s = 1..n /\ s \in Seq(Kids)
  BY <1>2, <1>11
<1> HIDE DEF s
<1>13. ASSUME NEW j \in Kids PROVE \E k \in DOMAIN s : s[k] = j
  <2>1. PICK k \in 0..(n - 1) : at[k] = j
    BY <1>9
  <2>2. k + 1 \in 1..n /\ (k + 1) - 1 = k
    BY <1>2
  <2> QED
    BY <1>11, <1>12, <2>1, <2>2
<1>14. ASSUME NEW a \in DOMAIN s, NEW b \in DOMAIN s, s[a] = s[b] PROVE a = b
  <2>1. at[a - 1] = at[b - 1] /\ a - 1 \in 0..(n - 1) /\ b - 1 \in 0..(n - 1) /\ a \in Int /\ b \in Int
    BY <1>11, <1>12, <1>14
  <2>2. ~(a - 1 < b - 1) /\ ~(b - 1 < a - 1)
    BY <1>7, <2>1
  <2> QED
    BY <2>1, <2>2
<1> QED
  BY <1>10, <1>12, <1>13, <1>14 DEF Lists, Kids

(* A node after the walks of its children. *)
LEMMA WalkList ==
    ASSUME NEW t \in Trees, NEW i, NEW B, Branch(t, B, i), NEW o \in [Slot -> Seq(Slot)],
           \A C \in SUBSET B : \A j \in B : Branch(t, C, j) /\ C # B => Lists(o[j], C)
    PROVE  Lists(FlattenSeq([c \in DOMAIN Children(t, i) |-> o[Children(t, i)[c]]]) \o <<i>>, B)
<1> DEFINE kids == Children(t, i)
           K == {j \in B : Get(t, j, "parent") = i}
           br == [j \in K |-> CHOOSE C \in SUBSET B : Branch(t, C, j) /\ Closed(t, B, C)]
           parts == [c \in DOMAIN kids |-> o[kids[c]]]
<1>1. i \in B /\ Trunks(t, B, {i}) /\ B \in SUBSET Slot /\ Ties(t, B, {i})
  BY DEF Branch, Trunks, Ties
<1>2. ASSUME NEW j \in K
      PROVE  /\ br[j] \in SUBSET B /\ Branch(t, br[j], j) /\ Closed(t, B, br[j])
             /\ i \notin br[j] /\ j \in br[j] /\ Lists(o[j], br[j])
  <2>1. \E C \in SUBSET B : Branch(t, C, j) /\ Closed(t, B, C)
    BY <1>1, BranchExists
  <2>2. br[j] \in SUBSET B /\ Branch(t, br[j], j) /\ Closed(t, B, br[j])
    BY <2>1
  <2> HIDE DEF br
  <2>3. i \notin br[j] /\ j \in br[j]
    BY <2>2 DEF Branch, Trunks, Ties
  <2> QED
    BY <1>1, <2>2, <2>3
<1>3. Lists(kids, K)
  BY <1>1, ChildrenList
<1> HIDE DEF kids, K, br
<1>4. /\ \A c \in DOMAIN kids : kids[c] \in K
      /\ \A j \in K : \E c \in DOMAIN kids : kids[c] = j
      /\ \A c, d \in DOMAIN kids : kids[c] = kids[d] => c = d
  BY <1>3 DEF Lists
<1>5. ASSUME NEW a \in K, NEW b \in K, a # b PROVE br[a] \cap br[b] = {}
  <2> DEFINE X == br[a] \cap br[b]
  <2> SUFFICES ASSUME X # {} PROVE FALSE
    OBVIOUS
  <2>1. X \in SUBSET B
    BY <1>2
  <2>2. PICK m \in X : Get(t, m, "parent") \notin X
    <3> HIDE DEF X
    <3> QED
      BY <1>1, <2>1 DEF Trunks, Grounded
  <2>3. Get(t, a, "parent") = i /\ Get(t, b, "parent") = i
    BY DEF K
  <2>4. /\ \A j \in br[a] : j # a => Get(t, j, "parent") \in br[a]
        /\ \A j \in br[b] : j # b => Get(t, j, "parent") \in br[b]
    BY <1>2 DEF Branch, Trunks, Ties
  <2>5. m \in br[a] /\ m \in br[b] /\ (m = a \/ m = b)
    BY <2>2, <2>4
  <2> QED
    BY <1>2, <1>5, <2>3, <2>4, <2>5
<1>6. UNION {br[j] : j \in K} = B \ {i}
  <2> DEFINE X == {j \in B \ {i} : \A c \in K : j \notin br[c]}
  <2>1. X = {}
    <3> SUFFICES ASSUME X # {} PROVE FALSE
      OBVIOUS
    <3>1. PICK m \in X : Get(t, m, "parent") \notin X
      <4>1. X \in SUBSET B
        OBVIOUS
      <4> HIDE DEF X
      <4> QED
        BY <1>1, <4>1 DEF Trunks, Grounded
    <3>2. m \in B \ {i} /\ Get(t, m, "parent") \in B
      BY <1>1 DEF Ties
    <3>3. CASE Get(t, m, "parent") = i
      <4>1. m \in K
        BY <3>2, <3>3 DEF K
      <4> QED
        BY <1>2, <4>1
    <3>4. CASE Get(t, m, "parent") # i
      <4>1. PICK c \in K : Get(t, m, "parent") \in br[c]
        BY <3>1, <3>2, <3>4
      <4>2. m \in br[c]
        BY <1>2, <3>2, <4>1 DEF Closed
      <4> QED
        BY <4>2
    <3> QED
      BY <3>3, <3>4
  <2> QED
    BY <1>2, <2>1
<1>7. /\ parts \in Seq(Seq(Slot)) /\ DOMAIN parts = DOMAIN kids
      /\ \A c \in DOMAIN kids : parts[c] = o[kids[c]] /\ Lists(parts[c], br[kids[c]])
  <2>1. \A c \in DOMAIN kids : o[kids[c]] \in Seq(Slot) /\ Lists(o[kids[c]], br[kids[c]])
    BY <1>1, <1>2, <1>4 DEF K
  <2>2. DOMAIN kids = 1..Len(kids) /\ Len(kids) \in Nat
    BY <1>3 DEF Lists
  <2>3. parts \in Seq(Seq(Slot))
    BY <2>1, <2>2
  <2> QED
    BY <2>1, <2>3
<1> HIDE DEF parts
<1>8. \A c \in DOMAIN parts : ToSet(parts[c]) = br[kids[c]]
  BY <1>7, ListsSize
<1>9. Lists(FlattenSeq(parts), UNION {ToSet(parts[c]) : c \in DOMAIN parts})
  <2>1. ASSUME NEW c \in DOMAIN parts, NEW a \in DOMAIN parts[c], NEW b \in DOMAIN parts[c],
               parts[c][a] = parts[c][b]
        PROVE  a = b
    BY <1>7, <2>1, Zenon DEF Lists
  <2>2. ASSUME NEW c \in DOMAIN parts, NEW d \in DOMAIN parts, c # d
        PROVE  ToSet(parts[c]) \cap ToSet(parts[d]) = {}
    <3>1. kids[c] # kids[d]
      BY <1>4, <1>7, <2>2
    <3>2. br[kids[c]] \cap br[kids[d]] = {}
      BY <1>4, <1>5, <1>7, <3>1
    <3> QED
      BY <1>8, <3>2
  <2> QED
    BY <1>7, <2>1, <2>2, ListsMany
<1>10. UNION {ToSet(parts[c]) : c \in DOMAIN parts} = B \ {i}
  <2>1. \A j \in K : \E c \in DOMAIN parts : kids[c] = j
    BY <1>4, <1>7
  <2>2. UNION {ToSet(parts[c]) : c \in DOMAIN parts} = UNION {br[j] : j \in K}
    <3>1. \A c \in DOMAIN parts : kids[c] \in K /\ ToSet(parts[c]) = br[kids[c]]
      BY <1>4, <1>7, <1>8
    <3> QED
      BY <2>1, <3>1
  <2> QED
    BY <1>6, <2>2
<1>11. Lists(<<i>>, {i})
  BY DEF Lists
<1>12. Lists(FlattenSeq(parts) \o <<i>>, (B \ {i}) \cup {i})
  <2>1. (B \ {i}) \in SUBSET B /\ {i} \in SUBSET B /\ (B \ {i}) \cap {i} = {}
    BY <1>1
  <2>2. Lists(FlattenSeq(parts), B \ {i})
    BY <1>9, <1>10
  <2> QED
    BY <1>11, <2>1, <2>2, ListsTwo
<1>13. (B \ {i}) \cup {i} = B
  BY <1>1
<1> QED
  BY <1>12, <1>13 DEF parts, kids

(* The walk of a node lists its branch. *)
LEMMA PostOrderList ==
    ASSUME NEW t \in Trees, NEW i, NEW B, Branch(t, B, i)
    PROVE  Lists(PostOrder(t, i), B)
<1>20. PICK order : Orders(order, t)
  BY PostOrderRuns
<1>1. /\ order \in [0..MaxNodes -> [Slot -> Seq(Slot)]]
      /\ order[0] = [i1 \in Slot |-> <<>>]
      /\ \A top \in Slot : PostOrder(t, top) = order[MaxNodes][top]
  BY <1>20, Zenon DEF Orders
<1> DEFINE walk(w, j) == FlattenSeq([c \in DOMAIN Children(t, j) |-> w[Children(t, j)[c]]]) \o <<j>>
           T == {k \in Nat : k <= MaxNodes =>
                   \A C \in SUBSET Slot : \A j \in Slot :
                      Branch(t, C, j) /\ Cardinality(C) <= k => Lists(order[k][j], C)}
<1>8. \A k \in 1..MaxNodes : \A j \in Slot : order[k][j] = walk(order[k - 1], j)
  BY <1>20, Zenon DEF Orders
<1> HIDE DEF walk
<1>2. 0 \in T
  <2> SUFFICES ASSUME NEW C \in SUBSET Slot, NEW j \in Slot, Branch(t, C, j), Cardinality(C) <= 0
               PROVE  FALSE
    OBVIOUS
  <2>1. IsFiniteSet(C) /\ Cardinality(C) = 0
    BY SlotCount
  <2>2. C = {}
    BY <2>1, FS_EmptySet
  <2> QED
    BY <2>2 DEF Branch
<1>3. ASSUME NEW k \in Nat, k \in T PROVE k + 1 \in T
  <2> SUFFICES ASSUME k + 1 <= MaxNodes, NEW C \in SUBSET Slot, NEW j \in Slot,
                      Branch(t, C, j), Cardinality(C) <= k + 1
               PROVE  Lists(order[k + 1][j], C)
    OBVIOUS
  <2>1. k \in 0..MaxNodes /\ k + 1 \in 1..MaxNodes /\ (k + 1) - 1 = k
    BY SizeAssumption
  <2> DEFINE o == order[k]
  <2>2. o \in [Slot -> Seq(Slot)]
    BY <1>1, <2>1
  <2>3. \A D \in SUBSET C : \A c \in C : Branch(t, D, c) /\ D # C => Lists(o[c], D)
    <3> SUFFICES ASSUME NEW D \in SUBSET C, NEW c \in C, Branch(t, D, c), D # C
                 PROVE  Lists(o[c], D)
      OBVIOUS
    <3>1. /\ IsFiniteSet(C) /\ Cardinality(C) \in Nat /\ Cardinality(D) \in Nat
          /\ Cardinality(D) <= Cardinality(C) /\ Cardinality(D) # Cardinality(C)
      BY SlotCount, FS_Subset
    <3>2. Cardinality(D) <= k
      BY <3>1
    <3>3. c \in Slot /\ D \in SUBSET Slot /\ k <= MaxNodes
      BY <2>1
    <3> QED
      BY <1>3, <3>2, <3>3
  <2>4. order[k + 1][j] = walk(o, j)
    BY <1>8, <2>1
  <2> HIDE DEF o
  <2>5. Lists(walk(o, j), C)
    BY <2>2, <2>3, WalkList DEF walk
  <2> QED
    BY <2>4, <2>5
<1>4. Nat \subseteq T
  <2> HIDE DEF T
  <2> QED
    BY <1>2, <1>3, Induct
<1>5. B \in SUBSET Slot /\ i \in Slot /\ Cardinality(B) <= MaxNodes /\ MaxNodes \in Nat
  BY SlotCount, SizeAssumption DEF Branch, Trunks, Ties
<1>6. Lists(order[MaxNodes][i], B)
  <2>1. MaxNodes \in T
    <3> HIDE DEF T
    <3> QED
      BY <1>4, <1>5
  <2>2. \A C \in SUBSET Slot : \A j \in Slot :
           Branch(t, C, j) /\ Cardinality(C) <= MaxNodes => Lists(order[MaxNodes][j], C)
    <3>1. MaxNodes <= MaxNodes
      BY <1>5
    <3> QED
      BY <2>1, <3>1, Zenon
  <2> QED
    BY <1>5, <2>2, Zenon
<1>7. PostOrder(t, i) = order[MaxNodes][i]
  BY <1>1, <1>5, Zenon DEF Orders
<1> QED
  BY <1>6, <1>7

-----------------------------------------------------------------------------
(* What an operator does to the links.                                     *)

(* Two trees that differ in links only. *)
Relinked(t, u) ==
    /\ u \in Trees
    /\ \A j : /\ IsLive(u, j) <=> IsLive(t, j)
              /\ IsGroup(u, j) <=> IsGroup(t, j)
              /\ IsSynth(u, j) <=> IsSynth(t, j)
              /\ IdOf(u, j) = IdOf(t, j)
    /\ u.free = t.free /\ u.ids = t.ids /\ u.synthCount = t.synthCount /\ u.sink = t.sink

(* A tree is itself relinked. *)
LEMMA RelinkedSelf == \A t \in Trees : Relinked(t, t)
  BY DEF Relinked

(* Relinked twice is relinked. *)
LEMMA RelinkedTrans ==
    ASSUME NEW t, NEW u, NEW w, Relinked(t, u), Relinked(u, w)
    PROVE  Relinked(t, w)
  BY Zenon DEF Relinked

(* u is t with one link written, if the node there takes it.               *)
Writes(t, u, i, link, v, takes) ==
    /\ Relinked(t, u)
    /\ \A j : \A l \in Links : Get(u, j, l) = IF j = i /\ l = link /\ takes THEN v ELSE Get(t, j, l)

(* One link. *)
LEMMA PutLinks ==
    ASSUME NEW t \in Trees, NEW i, NEW link \in Links, NEW v \in Link
    PROVE  Writes(t, Put(t, i, link, v), i, link, v, IsLive(t, i))
<1> DEFINE u == Put(t, i, link, v)
<1>1. CASE ~IsLive(t, i)
  <2>1. u = t
    BY <1>1 DEF Put
  <2> HIDE DEF u
  <2>2. Writes(t, u, i, link, v, IsLive(t, i))
    BY <1>1, <2>1, RelinkedSelf DEF Writes
  <2> QED
    BY <2>2 DEF u
<1>2. CASE IsLive(t, i)
  <2> DEFINE n == [t.slots[i] EXCEPT ![link] = v]
  <2>1. t \in Trees /\ i \in Slot /\ t.slots[i] \in Node /\ t.slots[i] # Free
    BY <1>2, LiveIs DEF IsLive
  <2>2. u = [t EXCEPT !.slots = [t.slots EXCEPT ![i] = n]]
    BY <1>2 DEF Put
  <2>3. n.kind = t.slots[i].kind /\ n.id = t.slots[i].id
    BY <2>1 DEF Node, Links
  <2>4. \A l \in Links : n[l] = IF l = link THEN v ELSE t.slots[i][l]
    BY <2>1 DEF Node, Links
  <2>5. u \in Trees /\ n # Free
    <3>1. u \in Left(t)
      BY LeftSelf, PutLeft
    <3>2. DOMAIN n = DOMAIN t.slots[i]
      OBVIOUS
    <3>3. "id" \in DOMAIN n /\ "id" \notin DOMAIN Free
      BY <2>1, <3>2 DEF Node, Free
    <3> HIDE DEF n, u
    <3> QED
      BY <3>1, <3>3 DEF Left
  <2> HIDE DEF n, u
  <2>6. /\ u.slots = [t.slots EXCEPT ![i] = n] /\ u.free = t.free /\ u.ids = t.ids
        /\ u.synthCount = t.synthCount /\ u.sink = t.sink
    BY <2>1, <2>2 DEF Trees
  <2>7. u.slots[i] = n /\ \A j \in Slot : j # i => u.slots[j] = t.slots[j]
    BY <2>1, <2>6 DEF Trees
  <2>8. \A j : IsLive(u, j) <=> IsLive(t, j)
    BY <2>1, <2>5, <2>7 DEF IsLive
  <2>9. \A j : IsLive(t, j) => u.slots[j].kind = t.slots[j].kind /\ u.slots[j].id = t.slots[j].id
    BY <2>3, <2>7 DEF IsLive
  <2>10. Relinked(t, u)
    BY <2>5, <2>6, <2>8, <2>9 DEF Relinked, IsGroup, IsSynth, IdOf
  <2>11. ASSUME NEW j, NEW l \in Links
         PROVE  Get(u, j, l) = IF j = i /\ l = link /\ IsLive(t, i) THEN v ELSE Get(t, j, l)
    <3>1. CASE j = i
      BY <1>2, <2>4, <2>7, <2>8, <3>1 DEF Get
    <3>2. CASE j # i
      BY <2>7, <2>8, <3>2 DEF Get, IsLive
    <3> QED
      BY <3>1, <3>2
  <2>12. Writes(t, u, i, link, v, IsLive(t, i))
    BY <2>10, <2>11 DEF Writes
  <2> QED
    BY <2>12 DEF u
<1> QED
  BY <1>1, <1>2

(* One link of a group. *)
LEMMA PutGroupLinks ==
    ASSUME NEW t \in Trees, NEW i, NEW link \in Links, NEW v \in Link
    PROVE  Writes(t, PutGroup(t, i, link, v), i, link, v, IsGroup(t, i))
<1>1. CASE IsGroup(t, i)
  <2>1. PutGroup(t, i, link, v) = Put(t, i, link, v) /\ IsLive(t, i)
    BY <1>1 DEF PutGroup, IsGroup
  <2>2. Writes(t, Put(t, i, link, v), i, link, v, IsLive(t, i))
    BY PutLinks
  <2> QED
    BY <1>1, <2>1, <2>2 DEF Writes
<1>2. CASE ~IsGroup(t, i)
  <2>1. PutGroup(t, i, link, v) = t
    BY <1>2 DEF PutGroup
  <2> QED
    BY <1>2, <2>1, RelinkedSelf DEF Writes
<1> QED
  BY <1>1, <1>2

(* The neighbours of a slot are mended. *)
Repairs(t, u, p, a, b, i) ==
    /\ Relinked(t, u)
    /\ \A j : /\ Get(u, j, "parent") = Get(t, j, "parent")
              /\ Get(u, j, "next") = IF j = a /\ IsLive(t, a) THEN b ELSE Get(t, j, "next")
              /\ Get(u, j, "prev") = IF j = b /\ IsLive(t, b) THEN a ELSE Get(t, j, "prev")
              /\ Get(u, j, "head") = IF j = p /\ IsGroup(t, p) /\ Get(t, p, "head") = i
                                     THEN b ELSE Get(t, j, "head")
              /\ Get(u, j, "tail") = IF j = p /\ IsGroup(t, p) /\ Get(t, p, "tail") = i
                                     THEN a ELSE Get(t, j, "tail")

(* RepairParent mends them. *)
LEMMA RepairLinks ==
    ASSUME NEW t \in Trees, NEW p \in Link, NEW a \in Link, NEW b \in Link, NEW i
    PROVE  Repairs(t, RepairParent(t, p, a, b, i), p, a, b, i)
<1> DEFINE t1 == Put(t, a, "next", b)
           t2 == Put(t1, b, "prev", a)
           t3 == IF Get(t2, p, "head") = i THEN PutGroup(t2, p, "head", b) ELSE t2
           t4 == IF Get(t3, p, "tail") = i THEN PutGroup(t3, p, "tail", a) ELSE t3
<1>0. /\ "parent" \in Links /\ "prev" \in Links /\ "next" \in Links /\ "head" \in Links /\ "tail" \in Links
      /\ \A l \in Links : l \in {"parent", "prev", "next", "head", "tail"}
  BY DEF Links
<1>1. Writes(t, t1, a, "next", b, IsLive(t, a)) /\ t1 \in Trees
  <2>1. Writes(t, t1, a, "next", b, IsLive(t, a))
    BY <1>0, PutLinks, Zenon
  <2> QED
    BY <2>1 DEF Writes, Relinked
<1>2. RepairParent(t, p, a, b, i) = t4
  BY DEF RepairParent
<1> HIDE DEF t1
<1>3. Writes(t1, t2, b, "prev", a, IsLive(t1, b)) /\ t2 \in Trees
  <2>1. Writes(t1, t2, b, "prev", a, IsLive(t1, b))
    BY <1>0, <1>1, PutLinks, Zenon
  <2> QED
    BY <2>1 DEF Writes, Relinked
<1> HIDE DEF t2
<1>4. Writes(t2, t3, p, "head", b, IsGroup(t2, p) /\ Get(t2, p, "head") = i) /\ t3 \in Trees
  <2> DEFINE w == PutGroup(t2, p, "head", b)
  <2>1. Writes(t2, w, p, "head", b, IsGroup(t2, p))
    BY <1>0, <1>3, PutGroupLinks, Zenon
  <2>2. t3 = IF Get(t2, p, "head") = i THEN w ELSE t2
    OBVIOUS
  <2>3. Relinked(t2, t2)
    BY <1>3, RelinkedSelf
  <2> HIDE DEF w, t3
  <2>4. CASE Get(t2, p, "head") = i
    BY <2>1, <2>2, <2>4 DEF Writes, Relinked
  <2>5. CASE Get(t2, p, "head") # i
    BY <1>3, <2>2, <2>3, <2>5 DEF Writes
  <2> QED
    BY <2>4, <2>5
<1> HIDE DEF t3
<1>5. Writes(t3, t4, p, "tail", a, IsGroup(t3, p) /\ Get(t3, p, "tail") = i) /\ t4 \in Trees
  <2> DEFINE w == PutGroup(t3, p, "tail", a)
  <2>1. Writes(t3, w, p, "tail", a, IsGroup(t3, p))
    BY <1>0, <1>4, PutGroupLinks, Zenon
  <2>2. t4 = IF Get(t3, p, "tail") = i THEN w ELSE t3
    OBVIOUS
  <2>3. Relinked(t3, t3)
    BY <1>4, RelinkedSelf
  <2> HIDE DEF w, t4
  <2>4. CASE Get(t3, p, "tail") = i
    BY <2>1, <2>2, <2>4 DEF Writes, Relinked
  <2>5. CASE Get(t3, p, "tail") # i
    BY <1>4, <2>2, <2>3, <2>5 DEF Writes
  <2> QED
    BY <2>4, <2>5
<1> HIDE DEF t4
<1>6. Relinked(t, t2) /\ Relinked(t, t3) /\ Relinked(t, t4)
  BY <1>1, <1>3, <1>4, <1>5, RelinkedTrans DEF Writes
<1>7. /\ IsLive(t1, b) <=> IsLive(t, b)
      /\ IsGroup(t2, p) <=> IsGroup(t, p)
      /\ IsGroup(t3, p) <=> IsGroup(t, p)
  BY <1>1, <1>6 DEF Relinked, Writes
<1>8. \A j : \A l \in Links :
         /\ l \notin {"next", "prev", "head", "tail"} => Get(t4, j, l) = Get(t, j, l)
         /\ l = "next" => Get(t4, j, l) = Get(t1, j, l)
         /\ l = "prev" => Get(t4, j, l) = Get(t2, j, l)
         /\ l = "head" => Get(t4, j, l) = Get(t3, j, l) /\ Get(t2, j, l) = Get(t, j, l)
         /\ l = "tail" => Get(t3, j, l) = Get(t, j, l)
         /\ l = "prev" => Get(t1, j, l) = Get(t, j, l)
  BY <1>1, <1>3, <1>4, <1>5 DEF Writes
<1>9. \A j : /\ Get(t4, j, "parent") = Get(t, j, "parent")
             /\ Get(t4, j, "next") = IF j = a /\ IsLive(t, a) THEN b ELSE Get(t, j, "next")
             /\ Get(t4, j, "prev") = IF j = b /\ IsLive(t, b) THEN a ELSE Get(t, j, "prev")
             /\ Get(t4, j, "head") = IF j = p /\ IsGroup(t, p) /\ Get(t, p, "head") = i
                                     THEN b ELSE Get(t, j, "head")
             /\ Get(t4, j, "tail") = IF j = p /\ IsGroup(t, p) /\ Get(t, p, "tail") = i
                                     THEN a ELSE Get(t, j, "tail")
  BY <1>0, <1>1, <1>3, <1>4, <1>5, <1>7, <1>8 DEF Writes
<1> QED
  BY <1>2, <1>6, <1>9, Zenon DEF Repairs

(* A node that leaves its chain. *)
Unlinks(t, u, i) ==
    /\ Relinked(t, u)
    /\ \A j :
          /\ Get(u, j, "parent") = IF j = i THEN None ELSE Get(t, j, "parent")
          /\ Get(u, j, "next") = IF j = i THEN None
                                 ELSE IF j = Get(t, i, "prev") /\ IsLive(t, j) THEN Get(t, i, "next")
                                 ELSE Get(t, j, "next")
          /\ Get(u, j, "prev") = IF j = i THEN None
                                 ELSE IF j = Get(t, i, "next") /\ IsLive(t, j) THEN Get(t, i, "prev")
                                 ELSE Get(t, j, "prev")
          /\ Get(u, j, "head") = IF j = Get(t, i, "parent") /\ IsGroup(t, j) /\ Get(t, j, "head") = i
                                 THEN Get(t, i, "next") ELSE Get(t, j, "head")
          /\ Get(u, j, "tail") = IF j = Get(t, i, "parent") /\ IsGroup(t, j) /\ Get(t, j, "tail") = i
                                 THEN Get(t, i, "prev") ELSE Get(t, j, "tail")

(* Unlink does so. *)
LEMMA UnlinkLinks ==
    ASSUME NEW t \in Trees, NEW i, IsLive(t, i)
    PROVE  Unlinks(t, Unlink(t, i), i)
<1> DEFINE p == Get(t, i, "parent")
           a == Get(t, i, "prev")
           b == Get(t, i, "next")
           t0 == RepairParent(t, p, a, b, i)
           t1 == Put(t0, i, "parent", None)
           t2 == Put(t1, i, "prev", None)
           t3 == Put(t2, i, "next", None)
<1>0. /\ "parent" \in Links /\ "prev" \in Links /\ "next" \in Links /\ "head" \in Links /\ "tail" \in Links
      /\ None \in Link
  BY DEF Links, Link
<1>1. p \in Link /\ a \in Link /\ b \in Link
  BY <1>0, GetLink
<1>2. Unlink(t, i) = t3
  BY DEF Unlink
<1> HIDE DEF p, a, b
<1>3. /\ Relinked(t, t0) /\ t0 \in Trees
      /\ \A j : /\ Get(t0, j, "parent") = Get(t, j, "parent")
                /\ Get(t0, j, "next") = IF j = a /\ IsLive(t, a) THEN b ELSE Get(t, j, "next")
                /\ Get(t0, j, "prev") = IF j = b /\ IsLive(t, b) THEN a ELSE Get(t, j, "prev")
                /\ Get(t0, j, "head") = IF j = p /\ IsGroup(t, p) /\ Get(t, p, "head") = i
                                        THEN b ELSE Get(t, j, "head")
                /\ Get(t0, j, "tail") = IF j = p /\ IsGroup(t, p) /\ Get(t, p, "tail") = i
                                        THEN a ELSE Get(t, j, "tail")
  <2>1. Repairs(t, t0, p, a, b, i)
    BY <1>1, RepairLinks
  <2> QED
    BY <2>1 DEF Repairs, Relinked
<1> HIDE DEF t0
<1>4. Writes(t0, t1, i, "parent", None, IsLive(t0, i)) /\ t1 \in Trees
  <2>1. Writes(t0, t1, i, "parent", None, IsLive(t0, i))
    BY <1>0, <1>3, PutLinks, Zenon
  <2> QED
    BY <2>1 DEF Writes, Relinked
<1> HIDE DEF t1
<1>5. Writes(t1, t2, i, "prev", None, IsLive(t1, i)) /\ t2 \in Trees
  <2>1. Writes(t1, t2, i, "prev", None, IsLive(t1, i))
    BY <1>0, <1>4, PutLinks, Zenon
  <2> QED
    BY <2>1 DEF Writes, Relinked
<1> HIDE DEF t2
<1>6. Writes(t2, t3, i, "next", None, IsLive(t2, i))
  BY <1>0, <1>5, PutLinks, Zenon
<1> HIDE DEF t3
<1>7. Relinked(t, t3) /\ IsLive(t0, i) /\ IsLive(t1, i) /\ IsLive(t2, i)
  <2>1. Relinked(t, t1) /\ Relinked(t, t2) /\ Relinked(t, t3)
    BY <1>3, <1>4, <1>5, <1>6, RelinkedTrans DEF Writes
  <2> QED
    BY <1>3, <2>1 DEF Relinked
<1>8. \A j : \A l \in Links :
         /\ Get(t1, j, l) = IF j = i /\ l = "parent" THEN None ELSE Get(t0, j, l)
         /\ Get(t2, j, l) = IF j = i /\ l = "prev" THEN None ELSE Get(t1, j, l)
         /\ Get(t3, j, l) = IF j = i /\ l = "next" THEN None ELSE Get(t2, j, l)
  BY <1>4, <1>5, <1>6, <1>7 DEF Writes
<1>9. \A j :
         /\ Get(t3, j, "parent") = IF j = i THEN None ELSE Get(t0, j, "parent")
         /\ Get(t3, j, "next") = IF j = i THEN None ELSE Get(t0, j, "next")
         /\ Get(t3, j, "prev") = IF j = i THEN None ELSE Get(t0, j, "prev")
         /\ Get(t3, j, "head") = Get(t0, j, "head") /\ Get(t3, j, "tail") = Get(t0, j, "tail")
  BY <1>0, <1>8
<1>10. Unlinks(t, t3, i)
  BY <1>3, <1>7, <1>9 DEF Unlinks, p, a, b
<1> QED
  BY <1>2, <1>10

(* A node that enters a chain. *)
Inserts(t, u, i, g, prev, next) ==
    /\ Relinked(t, u)
    /\ \A j :
          /\ Get(u, j, "parent") = IF j = i THEN g ELSE Get(t, j, "parent")
          /\ Get(u, j, "next") = IF j = i THEN next
                                 ELSE IF prev # None /\ j = prev /\ IsLive(t, j) THEN i
                                 ELSE Get(t, j, "next")
          /\ Get(u, j, "prev") = IF j = i THEN prev
                                 ELSE IF next # None /\ j = next /\ IsLive(t, j) THEN i
                                 ELSE Get(t, j, "prev")
          /\ Get(u, j, "head") = IF prev = None /\ j = g /\ IsGroup(t, j) THEN i ELSE Get(t, j, "head")
          /\ Get(u, j, "tail") = IF next = None /\ j = g /\ IsGroup(t, j) THEN i ELSE Get(t, j, "tail")

(* Insert does so. *)
LEMMA InsertLinks ==
    ASSUME NEW t \in Trees, NEW i \in Slot, IsLive(t, i), NEW g \in Slot,
           NEW prev \in Link, NEW next \in Link, prev # i, next # i
    PROVE  Inserts(t, Insert(t, i, g, prev, next), i, g, prev, next)
<1> DEFINE t1 == Put(t, i, "parent", g)
           t2 == Put(t1, i, "prev", prev)
           t3 == Put(t2, i, "next", next)
           t4 == IF prev = None THEN PutGroup(t3, g, "head", i) ELSE Put(t3, prev, "next", i)
           t5 == IF next = None THEN PutGroup(t4, g, "tail", i) ELSE Put(t4, next, "prev", i)
<1>0. /\ "parent" \in Links /\ "prev" \in Links /\ "next" \in Links /\ "head" \in Links /\ "tail" \in Links
      /\ i \in Link /\ g \in Link
  BY DEF Links, Link
<1>2. Insert(t, i, g, prev, next) = t5
  BY DEF Insert
<1>3. Writes(t, t1, i, "parent", g, IsLive(t, i)) /\ t1 \in Trees
  <2>1. Writes(t, t1, i, "parent", g, IsLive(t, i))
    BY <1>0, PutLinks, Zenon
  <2> QED
    BY <2>1 DEF Writes, Relinked
<1> HIDE DEF t1
<1>4. Writes(t1, t2, i, "prev", prev, IsLive(t1, i)) /\ t2 \in Trees
  <2>1. Writes(t1, t2, i, "prev", prev, IsLive(t1, i))
    BY <1>0, <1>3, PutLinks, Zenon
  <2> QED
    BY <2>1 DEF Writes, Relinked
<1> HIDE DEF t2
<1>5. Writes(t2, t3, i, "next", next, IsLive(t2, i)) /\ t3 \in Trees
  <2>1. Writes(t2, t3, i, "next", next, IsLive(t2, i))
    BY <1>0, <1>4, PutLinks, Zenon
  <2> QED
    BY <2>1 DEF Writes, Relinked
<1> HIDE DEF t3
<1>6. /\ prev = None => Writes(t3, t4, g, "head", i, IsGroup(t3, g))
      /\ prev # None => Writes(t3, t4, prev, "next", i, IsLive(t3, prev))
      /\ t4 \in Trees
  <2>1. CASE prev = None
    <3>1. t4 = PutGroup(t3, g, "head", i)
      BY <2>1
    <3>2. Writes(t3, PutGroup(t3, g, "head", i), g, "head", i, IsGroup(t3, g))
      BY <1>0, <1>5, PutGroupLinks, Zenon
    <3> HIDE DEF t4
    <3> QED
      BY <2>1, <3>1, <3>2 DEF Writes, Relinked
  <2>2. CASE prev # None
    <3>1. t4 = Put(t3, prev, "next", i)
      BY <2>2
    <3>2. Writes(t3, Put(t3, prev, "next", i), prev, "next", i, IsLive(t3, prev))
      BY <1>0, <1>5, PutLinks, Zenon
    <3> HIDE DEF t4
    <3> QED
      BY <2>2, <3>1, <3>2 DEF Writes, Relinked
  <2> QED
    BY <2>1, <2>2
<1> HIDE DEF t4
<1>7. /\ next = None => Writes(t4, t5, g, "tail", i, IsGroup(t4, g))
      /\ next # None => Writes(t4, t5, next, "prev", i, IsLive(t4, next))
  <2>1. CASE next = None
    <3>1. t5 = PutGroup(t4, g, "tail", i)
      BY <2>1
    <3>2. Writes(t4, PutGroup(t4, g, "tail", i), g, "tail", i, IsGroup(t4, g))
      BY <1>0, <1>6, PutGroupLinks, Zenon
    <3> HIDE DEF t5
    <3> QED
      BY <2>1, <3>1, <3>2
  <2>2. CASE next # None
    <3>1. t5 = Put(t4, next, "prev", i)
      BY <2>2
    <3>2. Writes(t4, Put(t4, next, "prev", i), next, "prev", i, IsLive(t4, next))
      BY <1>0, <1>6, PutLinks, Zenon
    <3> HIDE DEF t5
    <3> QED
      BY <2>2, <3>1, <3>2
  <2> QED
    BY <2>1, <2>2
<1> HIDE DEF t5
<1>8. Relinked(t, t1) /\ Relinked(t, t2) /\ Relinked(t, t3) /\ Relinked(t, t4) /\ Relinked(t, t5)
  <2>1. Relinked(t, t1) /\ Relinked(t1, t2) /\ Relinked(t2, t3) /\ Relinked(t3, t4) /\ Relinked(t4, t5)
    BY <1>3, <1>4, <1>5, <1>6, <1>7 DEF Writes
  <2> QED
    BY <2>1, RelinkedTrans
<1>9. \A j : /\ IsLive(t1, j) = IsLive(t, j) /\ IsLive(t2, j) = IsLive(t, j)
             /\ IsLive(t3, j) = IsLive(t, j) /\ IsLive(t4, j) = IsLive(t, j)
             /\ IsGroup(t3, j) = IsGroup(t, j) /\ IsGroup(t4, j) = IsGroup(t, j)
  <2>1. \A j, w : IsLive(w, j) \in BOOLEAN /\ IsGroup(w, j) \in BOOLEAN
    BY DEF IsLive, IsGroup
  <2> QED
    BY <1>8, <2>1 DEF Relinked
<1>10. \A j : \A l \in Links :
         /\ Get(t1, j, l) = IF j = i /\ l = "parent" THEN g ELSE Get(t, j, l)
         /\ Get(t2, j, l) = IF j = i /\ l = "prev" THEN prev ELSE Get(t1, j, l)
         /\ Get(t3, j, l) = IF j = i /\ l = "next" THEN next ELSE Get(t2, j, l)
  BY <1>3, <1>4, <1>5, <1>9 DEF Writes
<1>11. \A j : \A l \in Links :
         /\ prev = None => Get(t4, j, l) = IF j = g /\ l = "head" /\ IsGroup(t, g) THEN i ELSE Get(t3, j, l)
         /\ prev # None => Get(t4, j, l) = IF j = prev /\ l = "next" /\ IsLive(t, prev) THEN i ELSE Get(t3, j, l)
  BY <1>6, <1>9 DEF Writes
<1>12. \A j : \A l \in Links :
         /\ next = None => Get(t5, j, l) = IF j = g /\ l = "tail" /\ IsGroup(t, g) THEN i ELSE Get(t4, j, l)
         /\ next # None => Get(t5, j, l) = IF j = next /\ l = "prev" /\ IsLive(t, next) THEN i ELSE Get(t4, j, l)
  BY <1>7, <1>9 DEF Writes
<1>13. \A j : /\ Get(t5, j, "parent") = Get(t3, j, "parent")
              /\ Get(t5, j, "next") = Get(t4, j, "next")
              /\ Get(t4, j, "prev") = Get(t3, j, "prev")
              /\ Get(t5, j, "head") = Get(t4, j, "head")
              /\ Get(t4, j, "tail") = Get(t3, j, "tail")
  BY <1>0, <1>11, <1>12
<1>14. \A j : /\ Get(t3, j, "parent") = IF j = i THEN g ELSE Get(t, j, "parent")
              /\ Get(t3, j, "next") = IF j = i THEN next ELSE Get(t, j, "next")
              /\ Get(t3, j, "prev") = IF j = i THEN prev ELSE Get(t, j, "prev")
              /\ Get(t3, j, "head") = Get(t, j, "head")
              /\ Get(t3, j, "tail") = Get(t, j, "tail")
  BY <1>0, <1>10
<1>15. \A j : /\ Get(t4, j, "next") = IF prev # None /\ j = prev /\ IsLive(t, j) THEN i ELSE Get(t3, j, "next")
              /\ Get(t5, j, "prev") = IF next # None /\ j = next /\ IsLive(t, j) THEN i ELSE Get(t3, j, "prev")
              /\ Get(t4, j, "head") = IF prev = None /\ j = g /\ IsGroup(t, j) THEN i ELSE Get(t3, j, "head")
              /\ Get(t5, j, "tail") = IF next = None /\ j = g /\ IsGroup(t, j) THEN i ELSE Get(t3, j, "tail")
  BY <1>0, <1>11, <1>12, <1>13
<1>16. Inserts(t, t5, i, g, prev, next)
  BY <1>8, <1>13, <1>14, <1>15 DEF Inserts
<1> QED
  BY <1>2, <1>16

-----------------------------------------------------------------------------
(* The whole tree, and the nodes in it that have no place: the root, and a *)
(* node that is being moved or put in.                                     *)
Whole(t, R) ==
    /\ Trunks(t, LiveIn(t), R)
    /\ \A j \in R : /\ Get(t, j, "parent") = None
                    /\ Get(t, j, "next") = None /\ Get(t, j, "prev") = None

(* No node is next to itself or in itself. *)
LEMMA NextToNoSelf ==
    ASSUME NEW t, NEW S, NEW R, Trunks(t, S, R), NEW i \in S
    PROVE  /\ Get(t, i, "parent") # i
           /\ i \notin R => Get(t, i, "prev") # i /\ Get(t, i, "next") # i
<1>1. {i} \in SUBSET S /\ {i} # {}
  OBVIOUS
<1>2. PICK m \in {i} : Get(t, m, "parent") \notin {i} /\ (m \in R \/ Get(t, m, "prev") \notin {i})
  BY <1>1, Zenon DEF Trunks, Grounded
<1>3. i \notin R /\ Get(t, i, "next") = i => Get(t, i, "prev") = i
  BY IdAssumption, NodeFacts DEF Trunks, Ties
<1> QED
  BY <1>2, <1>3

(* The live nodes of a relinked tree. *)
LEMMA RelinkedLive ==
    ASSUME NEW t, NEW u, Relinked(t, u)
    PROVE  LiveIn(u) = LiveIn(t)
  BY DEF LiveIn, Relinked

(* A node that leaves its chain has no place, and the rest stays whole.    *)
LEMMA UnlinkWhole ==
    ASSUME NEW t, NEW u, NEW R, Whole(t, R), NEW i \in LiveIn(t) \ R, Unlinks(t, u, i)
    PROVE  Whole(u, R \cup {i})
<1> DEFINE L == LiveIn(t)
           p == Get(t, i, "parent")
           a == Get(t, i, "prev")
           b == Get(t, i, "next")
<1>1. LiveIn(u) = L /\ Ties(t, L, R) /\ Trunks(t, L, R) /\ None \notin L /\ i \in L
  BY RelinkedLive, NodeFacts DEF Unlinks, Whole, Trunks, Ties
<1>2. p # i /\ a # i /\ b # i
  BY <1>1, NextToNoSelf
<1>3. \A j \in L : IsLive(t, j) /\ IsLive(u, j) /\ (IsGroup(u, j) <=> IsGroup(t, j))
  BY <1>1 DEF Unlinks, Relinked, LiveIn
<1> HIDE DEF L
<1>4. /\ p \in L /\ IsGroup(t, p) /\ a \in (L \ R) \cup {None} /\ b \in (L \ R) \cup {None}
      /\ b # None => Get(t, b, "prev") = i /\ Get(t, b, "parent") = p
      /\ a # None => Get(t, a, "next") = i /\ Get(t, a, "parent") = p
      /\ b = None => Get(t, p, "tail") = i
      /\ a = None => Get(t, p, "head") = i
  BY <1>1 DEF Ties
<1> HIDE DEF p, a, b
<1>5. \A j :
          /\ Get(u, j, "parent") = IF j = i THEN None ELSE Get(t, j, "parent")
          /\ Get(u, j, "next") = IF j = i THEN None
                                 ELSE IF j = a /\ IsLive(t, j) THEN b ELSE Get(t, j, "next")
          /\ Get(u, j, "prev") = IF j = i THEN None
                                 ELSE IF j = b /\ IsLive(t, j) THEN a ELSE Get(t, j, "prev")
          /\ Get(u, j, "head") = IF j = p /\ IsGroup(t, j) /\ Get(t, j, "head") = i THEN b ELSE Get(t, j, "head")
          /\ Get(u, j, "tail") = IF j = p /\ IsGroup(t, j) /\ Get(t, j, "tail") = i THEN a ELSE Get(t, j, "tail")
  BY DEF Unlinks, p, a, b
<1> DEFINE Q == R \cup {i}
<1>6. L \in SUBSET Slot /\ Q \in SUBSET L /\ i \in Q /\ R \subseteq Q
  BY <1>1 DEF Ties
<1>7. ASSUME NEW j \in L
      PROVE  /\ Get(u, j, "head") \in (L \ Q) \cup {None}
             /\ Get(u, j, "head") # None =>
                   /\ IsGroup(u, j)
                   /\ Get(u, Get(u, j, "head"), "parent") = j
                   /\ Get(u, Get(u, j, "head"), "prev") = None
  <2> DEFINE h == Get(t, j, "head")
  <2>1. /\ h \in (L \ R) \cup {None}
        /\ h # None => IsGroup(t, j) /\ Get(t, h, "parent") = j /\ Get(t, h, "prev") = None
    BY <1>1 DEF Ties
  <2>2. CASE h = i
    <3>1. j = p /\ IsGroup(t, j) /\ a = None
      BY <1>1, <2>1, <2>2 DEF p, a
    <3>2. Get(u, j, "head") = b
      BY <1>5, <2>2, <3>1
    <3>3. b # None => Get(u, b, "parent") = p /\ Get(u, b, "prev") = None
      BY <1>2, <1>3, <1>4, <1>5, <3>1
    <3> QED
      BY <1>2, <1>3, <1>4, <3>1, <3>2, <3>3
  <2>3. CASE h # i
    <3>1. Get(u, j, "head") = h
      BY <1>5, <2>3
    <3>2. h # None => Get(u, h, "parent") = j /\ h # b
      BY <1>1, <1>4, <1>5, <2>1, <2>3
    <3>3. h # None => Get(u, h, "prev") = None
      BY <1>5, <2>1, <3>2
    <3> QED
      BY <1>3, <2>1, <2>3, <3>1, <3>2, <3>3
  <2> QED
    BY <2>2, <2>3
<1>8. ASSUME NEW j \in L
      PROVE  /\ Get(u, j, "tail") \in (L \ Q) \cup {None}
             /\ Get(u, j, "tail") # None =>
                   /\ IsGroup(u, j)
                   /\ Get(u, Get(u, j, "tail"), "parent") = j
                   /\ Get(u, Get(u, j, "tail"), "next") = None
  <2> DEFINE h == Get(t, j, "tail")
  <2>1. /\ h \in (L \ R) \cup {None}
        /\ h # None => IsGroup(t, j) /\ Get(t, h, "parent") = j /\ Get(t, h, "next") = None
    BY <1>1 DEF Ties
  <2>2. CASE h = i
    <3>1. j = p /\ IsGroup(t, j) /\ b = None
      BY <1>1, <2>1, <2>2 DEF p, b
    <3>2. Get(u, j, "tail") = a
      BY <1>5, <2>2, <3>1
    <3>3. a # None => Get(u, a, "parent") = p /\ Get(u, a, "next") = None
      BY <1>2, <1>3, <1>4, <1>5, <3>1
    <3> QED
      BY <1>2, <1>3, <1>4, <3>1, <3>2, <3>3
  <2>3. CASE h # i
    <3>1. Get(u, j, "tail") = h
      BY <1>5, <2>3
    <3>2. h # None => Get(u, h, "parent") = j /\ h # a
      BY <1>1, <1>4, <1>5, <2>1, <2>3
    <3>3. h # None => Get(u, h, "next") = None
      BY <1>5, <2>1, <3>2
    <3> QED
      BY <1>3, <2>1, <2>3, <3>1, <3>2, <3>3
  <2> QED
    BY <2>2, <2>3
<1>9. ASSUME NEW j \in L \ Q
      PROVE  /\ Get(u, j, "parent") \in L /\ IsGroup(u, Get(u, j, "parent"))
             /\ Get(u, j, "next") \in (L \ Q) \cup {None}
             /\ Get(u, j, "next") # None =>
                   /\ Get(u, Get(u, j, "next"), "prev") = j
                   /\ Get(u, Get(u, j, "next"), "parent") = Get(u, j, "parent")
             /\ Get(u, j, "next") = None => Get(u, Get(u, j, "parent"), "tail") = j
  <2> DEFINE q == Get(t, j, "parent")
             n == Get(t, j, "next")
  <2>1. /\ j # i /\ j # None /\ q \in L /\ IsGroup(t, q) /\ n \in (L \ R) \cup {None}
        /\ n # None => Get(t, n, "prev") = j /\ Get(t, n, "parent") = q
        /\ n = None => Get(t, q, "tail") = j
    BY <1>1 DEF Ties
  <2>2. Get(u, j, "parent") = q /\ IsGroup(u, q)
    BY <1>3, <1>5, <2>1
  <2>3. CASE j = a
    <3>1. Get(u, j, "next") = b /\ q = p
      BY <1>3, <1>4, <1>5, <2>1, <2>3
    <3>2. b # None => Get(u, b, "prev") = j /\ Get(u, b, "parent") = q
      BY <1>2, <1>3, <1>4, <1>5, <2>3, <3>1
    <3>3. b = None => Get(u, q, "tail") = j
      BY <1>4, <1>5, <2>3, <3>1
    <3> QED
      BY <1>2, <1>4, <2>1, <2>2, <3>1, <3>2, <3>3
  <2>4. CASE j # a
    <3>1. Get(u, j, "next") = n /\ n # i
      BY <1>1, <1>5, <2>1, <2>4 DEF a
    <3>2. n # None => Get(u, n, "prev") = j /\ Get(u, n, "parent") = q
      BY <1>1, <1>4, <1>5, <2>1, <3>1
    <3>3. n = None => Get(u, q, "tail") = j
      BY <1>5, <2>1
    <3> QED
      BY <2>1, <2>2, <3>1, <3>2, <3>3
  <2> QED
    BY <2>3, <2>4
<1>10. ASSUME NEW j \in L \ Q
      PROVE  /\ Get(u, j, "prev") \in (L \ Q) \cup {None}
             /\ Get(u, j, "prev") # None =>
                   /\ Get(u, Get(u, j, "prev"), "next") = j
                   /\ Get(u, Get(u, j, "prev"), "parent") = Get(u, j, "parent")
             /\ Get(u, j, "prev") = None => Get(u, Get(u, j, "parent"), "head") = j
  <2> DEFINE q == Get(t, j, "parent")
             n == Get(t, j, "prev")
  <2>1. /\ j # i /\ j # None /\ q \in L /\ IsGroup(t, q) /\ n \in (L \ R) \cup {None}
        /\ n # None => Get(t, n, "next") = j /\ Get(t, n, "parent") = q
        /\ n = None => Get(t, q, "head") = j
    BY <1>1 DEF Ties
  <2>2. Get(u, j, "parent") = q
    BY <1>5, <2>1
  <2>3. CASE j = b
    <3>1. Get(u, j, "prev") = a /\ q = p
      BY <1>3, <1>4, <1>5, <2>1, <2>3
    <3>2. a # None => Get(u, a, "next") = j /\ Get(u, a, "parent") = q
      BY <1>2, <1>3, <1>4, <1>5, <2>3, <3>1
    <3>3. a = None => Get(u, q, "head") = j
      BY <1>4, <1>5, <2>3, <3>1
    <3> QED
      BY <1>2, <1>4, <2>1, <2>2, <3>1, <3>2, <3>3
  <2>4. CASE j # b
    <3>1. Get(u, j, "prev") = n /\ n # i
      BY <1>1, <1>5, <2>1, <2>4 DEF b
    <3>2. n # None => Get(u, n, "next") = j /\ Get(u, n, "parent") = q
      BY <1>1, <1>4, <1>5, <2>1, <3>1
    <3>3. n = None => Get(u, q, "head") = j
      BY <1>5, <2>1
    <3> QED
      BY <2>1, <2>2, <3>1, <3>2, <3>3
  <2> QED
    BY <2>3, <2>4
<1>11. \A j \in Q : /\ Get(u, j, "parent") = None
                    /\ Get(u, j, "next") = None /\ Get(u, j, "prev") = None
  <2>1. \A j \in R : /\ j \in L /\ Get(t, j, "parent") = None
                     /\ Get(t, j, "next") = None /\ Get(t, j, "prev") = None
    BY <1>6 DEF Whole
  <2>2. \A j \in R : j # a /\ j # b /\ j # i
    BY <1>1, <1>4, <1>6
  <2> QED
    BY <1>5, <2>1, <2>2
<1>12. Ties(u, L, Q)
  <2>1. \A j \in Q : Get(u, j, "parent") \notin L
    BY <1>1, <1>11
  <2> QED
    BY <1>3, <1>6, <1>7, <1>8, <1>9, <1>10, <2>1 DEF Ties
<1>13. Grounded(u, L, Q)
  <2> SUFFICES ASSUME NEW X \in SUBSET L, X # {}
               PROVE  \E m \in X : Get(u, m, "parent") \notin X /\ (m \in Q \/ Get(u, m, "prev") \notin X)
    BY DEF Grounded
  <2>1. None \notin X
    BY <1>1
  <2>2. CASE i \in X
    BY <1>6, <1>11, <2>1, <2>2
  <2>3. CASE i \notin X /\ a \notin X
    <3>1. PICK m \in X : Get(t, m, "parent") \notin X /\ (m \in R \/ Get(t, m, "prev") \notin X)
      BY <1>1, Zenon DEF Trunks, Grounded
    <3>2. Get(u, m, "parent") \notin X
      BY <1>5, <2>3, <3>1
    <3>3. m \in Q \/ Get(u, m, "prev") \notin X
      BY <1>5, <1>6, <2>3, <3>1
    <3> QED
      BY <3>2, <3>3
  <2>4. CASE i \notin X /\ a \in X
    <3> DEFINE Y == X \cup {i}
    <3>1. Y \in SUBSET L /\ Y # {}
      BY <1>1
    <3>2. PICK m \in Y : Get(t, m, "parent") \notin Y /\ (m \in R \/ Get(t, m, "prev") \notin Y)
      <4> HIDE DEF Y
      <4> QED
        BY <1>1, <3>1, Zenon DEF Trunks, Grounded
    <3>3. m # i
      BY <2>4, <3>2 DEF a
    <3>4. m # b
      BY <1>1, <1>4, <3>1, <3>2
    <3>5. m \in X /\ Get(u, m, "parent") = Get(t, m, "parent") /\ Get(u, m, "prev") = Get(t, m, "prev")
      BY <1>5, <3>2, <3>3, <3>4
    <3> QED
      BY <1>6, <3>2, <3>5
  <2> QED
    BY <2>2, <2>3, <2>4
<1> QED
  BY <1>1, <1>11, <1>12, <1>13 DEF Whole, Trunks

(* Two neighbours in the chain of a group, or one end of it.               *)
Gap(t, R, g, prev, next) ==
    /\ g \in LiveIn(t) /\ IsGroup(t, g)
    /\ prev \in (LiveIn(t) \ R) \cup {None} /\ next \in (LiveIn(t) \ R) \cup {None}
    /\ prev = None => Get(t, g, "head") = next
    /\ next = None => Get(t, g, "tail") = prev
    /\ prev # None => Get(t, prev, "parent") = g /\ Get(t, prev, "next") = next
    /\ next # None => Get(t, next, "parent") = g /\ Get(t, next, "prev") = prev

(* A node without a place takes one that is not below it.                  *)
LEMMA InsertWhole ==
    ASSUME NEW t, NEW u, NEW R, NEW i, i \notin R, Whole(t, R \cup {i}),
           NEW B, Branch(t, B, i), Closed(t, LiveIn(t), B), B \in SUBSET LiveIn(t),
           NEW g, g \notin B, NEW prev, NEW next, Gap(t, R \cup {i}, g, prev, next),
           Inserts(t, u, i, g, prev, next)
    PROVE  Whole(u, R)
<1> DEFINE L == LiveIn(t)
           Q == R \cup {i}
<1>1. /\ LiveIn(u) = L /\ Ties(t, L, Q) /\ Trunks(t, L, Q) /\ None \notin L /\ i \in L
      /\ L \in SUBSET Slot /\ Q \in SUBSET L /\ R \in SUBSET L /\ g \in L /\ g # i /\ i \in B
      /\ B \in SUBSET L
  BY RelinkedLive, NodeFacts DEF Inserts, Whole, Trunks, Ties, Gap, Branch
<1>2. /\ Get(t, i, "parent") = None /\ Get(t, i, "next") = None /\ Get(t, i, "prev") = None
      /\ \A j \in R : /\ Get(t, j, "parent") = None
                      /\ Get(t, j, "next") = None /\ Get(t, j, "prev") = None
  BY DEF Whole
<1>3. \A j \in L : IsLive(t, j) /\ IsLive(u, j) /\ (IsGroup(u, j) <=> IsGroup(t, j))
  BY <1>1 DEF Inserts, Relinked, LiveIn
<1>4. /\ IsGroup(t, g) /\ prev \in (L \ Q) \cup {None} /\ next \in (L \ Q) \cup {None}
      /\ prev = None => Get(t, g, "head") = next
      /\ next = None => Get(t, g, "tail") = prev
      /\ prev # None => Get(t, prev, "parent") = g /\ Get(t, prev, "next") = next
      /\ next # None => Get(t, next, "parent") = g /\ Get(t, next, "prev") = prev
  BY DEF Gap
<1> HIDE DEF L
<1>5. \A j \in L \cup {None} :
          /\ Get(u, j, "parent") = IF j = i THEN g ELSE Get(t, j, "parent")
          /\ Get(u, j, "next") = IF j = i THEN next
                                 ELSE IF prev # None /\ j = prev THEN i ELSE Get(t, j, "next")
          /\ Get(u, j, "prev") = IF j = i THEN prev
                                 ELSE IF next # None /\ j = next THEN i ELSE Get(t, j, "prev")
          /\ Get(u, j, "head") = IF prev = None /\ j = g THEN i ELSE Get(t, j, "head")
          /\ Get(u, j, "tail") = IF next = None /\ j = g THEN i ELSE Get(t, j, "tail")
  BY <1>1, <1>3, <1>4 DEF Inserts
<1>6. ASSUME NEW j \in L
      PROVE  /\ Get(u, j, "head") \in (L \ R) \cup {None}
             /\ Get(u, j, "head") # None =>
                   /\ IsGroup(u, j)
                   /\ Get(u, Get(u, j, "head"), "parent") = j
                   /\ Get(u, Get(u, j, "head"), "prev") = None
  <2> DEFINE h == Get(t, j, "head")
  <2>1. /\ h \in (L \ Q) \cup {None}
        /\ h # None => IsGroup(t, j) /\ Get(t, h, "parent") = j /\ Get(t, h, "prev") = None
    BY <1>1 DEF Ties
  <2>2. CASE prev = None /\ j = g
    <3>1. Get(u, j, "head") = i /\ Get(u, i, "parent") = g /\ Get(u, i, "prev") = None
      BY <1>1, <1>5, <2>2
    <3> QED
      BY <1>1, <1>3, <1>4, <2>2, <3>1
  <2>3. CASE ~(prev = None /\ j = g)
    <3>1. Get(u, j, "head") = h /\ h # i
      BY <1>1, <1>5, <2>1, <2>3
    <3>2. h # None => Get(u, h, "parent") = j /\ Get(u, h, "prev") = None
      BY <1>4, <1>5, <2>1, <2>3, <3>1
    <3> QED
      BY <1>3, <2>1, <3>1, <3>2
  <2> QED
    BY <2>2, <2>3
<1>7. ASSUME NEW j \in L
      PROVE  /\ Get(u, j, "tail") \in (L \ R) \cup {None}
             /\ Get(u, j, "tail") # None =>
                   /\ IsGroup(u, j)
                   /\ Get(u, Get(u, j, "tail"), "parent") = j
                   /\ Get(u, Get(u, j, "tail"), "next") = None
  <2> DEFINE h == Get(t, j, "tail")
  <2>1. /\ h \in (L \ Q) \cup {None}
        /\ h # None => IsGroup(t, j) /\ Get(t, h, "parent") = j /\ Get(t, h, "next") = None
    BY <1>1 DEF Ties
  <2>2. CASE next = None /\ j = g
    <3>1. Get(u, j, "tail") = i /\ Get(u, i, "parent") = g /\ Get(u, i, "next") = None
      BY <1>1, <1>5, <2>2
    <3> QED
      BY <1>1, <1>3, <1>4, <2>2, <3>1
  <2>3. CASE ~(next = None /\ j = g)
    <3>1. Get(u, j, "tail") = h /\ h # i
      BY <1>1, <1>5, <2>1, <2>3
    <3>2. h # None => Get(u, h, "parent") = j /\ Get(u, h, "next") = None
      BY <1>4, <1>5, <2>1, <2>3, <3>1
    <3> QED
      BY <1>3, <2>1, <3>1, <3>2
  <2> QED
    BY <2>2, <2>3
<1>8. ASSUME NEW j \in L \ R
      PROVE  /\ Get(u, j, "parent") \in L /\ IsGroup(u, Get(u, j, "parent"))
             /\ Get(u, j, "next") \in (L \ R) \cup {None}
             /\ Get(u, j, "next") # None =>
                   /\ Get(u, Get(u, j, "next"), "prev") = j
                   /\ Get(u, Get(u, j, "next"), "parent") = Get(u, j, "parent")
             /\ Get(u, j, "next") = None => Get(u, Get(u, j, "parent"), "tail") = j
  <2>1. CASE j = i
    <3>1. Get(u, j, "parent") = g /\ Get(u, j, "next") = next
      BY <1>5, <2>1
    <3>2. next # None => Get(u, next, "prev") = i /\ Get(u, next, "parent") = g
      BY <1>1, <1>4, <1>5
    <3>3. next = None => Get(u, g, "tail") = i
      BY <1>1, <1>5
    <3> QED
      BY <1>1, <1>3, <1>4, <2>1, <3>1, <3>2, <3>3
  <2>2. CASE j # i
    <3> DEFINE q == Get(t, j, "parent")
               n == Get(t, j, "next")
    <3>1. /\ j \in L \ Q /\ j # None /\ q \in L /\ IsGroup(t, q) /\ n \in (L \ Q) \cup {None}
          /\ n # None => Get(t, n, "prev") = j /\ Get(t, n, "parent") = q
          /\ n = None => Get(t, q, "tail") = j
      BY <1>1, <2>2 DEF Ties
    <3>2. Get(u, j, "parent") = q /\ IsGroup(u, q)
      BY <1>3, <1>5, <2>2, <3>1
    <3>3. CASE j = prev
      <4>1. Get(u, j, "next") = i /\ q = g
        BY <1>4, <1>5, <2>2, <3>1, <3>3
      <4>2. Get(u, i, "prev") = j /\ Get(u, i, "parent") = g
        BY <1>1, <1>5, <3>3
      <4> QED
        BY <1>1, <3>1, <3>2, <4>1, <4>2
    <3>4. CASE j # prev
      <4>1. Get(u, j, "next") = n
        BY <1>5, <2>2, <3>4
      <4>2. n # None => Get(u, n, "prev") = j /\ Get(u, n, "parent") = q
        BY <1>1, <1>4, <1>5, <3>1, <3>4
      <4>3. n = None => Get(u, q, "tail") = j
        BY <1>4, <1>5, <3>1, <3>4
      <4> QED
        BY <3>1, <3>2, <4>1, <4>2, <4>3
    <3> QED
      BY <3>3, <3>4
  <2> QED
    BY <2>1, <2>2
<1>9. ASSUME NEW j \in L \ R
      PROVE  /\ Get(u, j, "prev") \in (L \ R) \cup {None}
             /\ Get(u, j, "prev") # None =>
                   /\ Get(u, Get(u, j, "prev"), "next") = j
                   /\ Get(u, Get(u, j, "prev"), "parent") = Get(u, j, "parent")
             /\ Get(u, j, "prev") = None => Get(u, Get(u, j, "parent"), "head") = j
  <2>1. CASE j = i
    <3>1. Get(u, j, "parent") = g /\ Get(u, j, "prev") = prev
      BY <1>5, <2>1
    <3>2. prev # None => Get(u, prev, "next") = i /\ Get(u, prev, "parent") = g
      BY <1>1, <1>4, <1>5
    <3>3. prev = None => Get(u, g, "head") = i
      BY <1>1, <1>5
    <3> QED
      BY <1>1, <1>3, <1>4, <2>1, <3>1, <3>2, <3>3
  <2>2. CASE j # i
    <3> DEFINE q == Get(t, j, "parent")
               n == Get(t, j, "prev")
    <3>1. /\ j \in L \ Q /\ j # None /\ q \in L /\ IsGroup(t, q) /\ n \in (L \ Q) \cup {None}
          /\ n # None => Get(t, n, "next") = j /\ Get(t, n, "parent") = q
          /\ n = None => Get(t, q, "head") = j
      BY <1>1, <2>2 DEF Ties
    <3>2. Get(u, j, "parent") = q
      BY <1>5, <2>2, <3>1
    <3>3. CASE j = next
      <4>1. Get(u, j, "prev") = i /\ q = g
        BY <1>4, <1>5, <2>2, <3>1, <3>3
      <4>2. Get(u, i, "next") = j /\ Get(u, i, "parent") = g
        BY <1>1, <1>5, <3>3
      <4> QED
        BY <1>1, <3>1, <3>2, <4>1, <4>2
    <3>4. CASE j # next
      <4>1. Get(u, j, "prev") = n
        BY <1>5, <2>2, <3>4
      <4>2. n # None => Get(u, n, "next") = j /\ Get(u, n, "parent") = q
        BY <1>1, <1>4, <1>5, <3>1, <3>4
      <4>3. n = None => Get(u, q, "head") = j
        BY <1>4, <1>5, <3>1, <3>4
      <4> QED
        BY <3>1, <3>2, <4>1, <4>2, <4>3
    <3> QED
      BY <3>3, <3>4
  <2> QED
    BY <2>1, <2>2
<1>10. \A j \in R : /\ Get(u, j, "parent") = None
                    /\ Get(u, j, "next") = None /\ Get(u, j, "prev") = None
  BY <1>1, <1>2, <1>4, <1>5
<1>11. Ties(u, L, R)
  <2>1. \A j \in R : Get(u, j, "parent") \notin L
    BY <1>1, <1>10
  <2> QED
    BY <1>1, <1>3, <1>6, <1>7, <1>8, <1>9, <2>1 DEF Ties
<1>12. \A j \in L : Get(t, j, "parent") \in B => j \in B
  BY DEF Closed, L
<1>13. \A j \in B \ {i} : j \notin Q /\ Get(t, j, "parent") \in B
  BY <1>1, <1>2 DEF Branch, Trunks, Ties
<1>14. /\ prev \notin B /\ next \notin B
  BY <1>1, <1>2, <1>4, <1>13
<1>15. ASSUME NEW j \in L \ Q, Get(t, j, "prev") \in B PROVE j \in B
  <2> DEFINE n == Get(t, j, "prev")
  <2>1. n # None /\ Get(t, n, "parent") = Get(t, j, "parent") /\ Get(t, j, "parent") \in L
    BY <1>1, <1>15 DEF Ties
  <2>2. n # i
    BY <1>1, <1>2, <2>1
  <2> QED
    BY <1>12, <1>13, <1>15, <2>1, <2>2
<1>16. Grounded(u, L, R)
  <2> SUFFICES ASSUME NEW X \in SUBSET L, X # {}
               PROVE  \E m \in X : Get(u, m, "parent") \notin X /\ (m \in R \/ Get(u, m, "prev") \notin X)
    BY DEF Grounded
  <2>1. None \notin X
    BY <1>1
  <2>2. CASE X \subseteq B
    <3>1. PICK m \in X : Get(t, m, "parent") \notin X /\ (m \in Q \/ Get(t, m, "prev") \notin X)
      BY <1>1, Zenon DEF Trunks, Grounded
    <3>2. CASE m = i
      BY <1>1, <1>5, <1>14, <2>2, <3>2
    <3>3. CASE m # i
      <4>1. m \notin Q /\ m # next /\ m \in L
        BY <1>13, <1>14, <2>2, <3>3
      <4>2. Get(u, m, "parent") = Get(t, m, "parent") /\ Get(u, m, "prev") = Get(t, m, "prev")
        BY <1>5, <3>3, <4>1
      <4> QED
        BY <3>1, <4>1, <4>2
    <3> QED
      BY <3>2, <3>3
  <2>3. CASE ~(X \subseteq B)
    <3> DEFINE Y == X \ B
    <3>1. Y \in SUBSET L /\ Y # {}
      BY <2>3
    <3>2. PICK m \in Y : Get(t, m, "parent") \notin Y /\ (m \in Q \/ Get(t, m, "prev") \notin Y)
      <4> HIDE DEF Y
      <4> QED
        BY <1>1, <3>1, Zenon DEF Trunks, Grounded
    <3>3. m # i /\ m \in X /\ m \notin B /\ m \in L
      BY <1>1, <3>2
    <3>4. Get(t, m, "parent") \notin X
      BY <1>12, <3>2, <3>3
    <3>5. Get(u, m, "parent") \notin X
      BY <1>5, <3>3, <3>4
    <3>6. CASE m \in R
      BY <3>3, <3>5, <3>6
    <3>7. CASE m \notin R
      <4>1. Get(t, m, "prev") \notin X
        BY <1>15, <3>2, <3>3, <3>7
      <4>2. CASE m # next
        BY <1>5, <3>3, <3>5, <4>1, <4>2
      <4>3. CASE m = next /\ i \notin X
        BY <1>1, <1>5, <3>3, <3>5, <4>3
      <4>4. CASE m = next /\ i \in X
        <5>1. Get(u, i, "parent") = g /\ Get(u, i, "prev") = prev
          BY <1>1, <1>5
        <5>2. Get(t, m, "parent") = g /\ Get(t, m, "prev") = prev
          BY <1>1, <1>4, <3>3, <4>4
        <5> QED
          BY <3>4, <4>1, <4>4, <5>1, <5>2
      <4> QED
        BY <4>2, <4>3, <4>4
    <3> QED
      BY <3>6, <3>7
  <2> QED
    BY <2>2, <2>3
<1> QED
  BY <1>1, <1>10, <1>11, <1>16 DEF Whole, Trunks

(* The nodes of a set are gone, and with them what a group names of them.  *)
Drops(t, u, D) ==
    /\ LiveIn(u) = LiveIn(t) \ D
    /\ \A j \in LiveIn(t) \ D :
          /\ IsGroup(u, j) <=> IsGroup(t, j)
          /\ Get(u, j, "parent") = Get(t, j, "parent")
          /\ Get(u, j, "next") = Get(t, j, "next") /\ Get(u, j, "prev") = Get(t, j, "prev")
          /\ Get(u, j, "head") = IF Get(t, j, "head") \in D THEN None ELSE Get(t, j, "head")
          /\ Get(u, j, "tail") = IF Get(t, j, "tail") \in D THEN None ELSE Get(t, j, "tail")

(* What goes takes all that is below it and beside it along, or has no     *)
(* place: the rest stays whole.                                            *)
LEMMA DropWhole ==
    ASSUME NEW t, NEW u, NEW R, Whole(t, R), NEW D \in SUBSET LiveIn(t),
           Closed(t, LiveIn(t), D), Drops(t, u, D),
           \A j \in D \ R : \A k \in LiveIn(t) : Get(t, k, "parent") = Get(t, j, "parent") => k \in D
    PROVE  Whole(u, R \ D)
<1> DEFINE L == LiveIn(t)
           M == LiveIn(u)
           Q == R \ D
<1>1. /\ Ties(t, L, R) /\ Trunks(t, L, R) /\ None \notin L /\ M = L \ D /\ M \in SUBSET L
      /\ L \in SUBSET Slot /\ R \in SUBSET L /\ Q \in SUBSET M /\ M \ Q \subseteq L \ R
  BY NodeFacts DEF Whole, Trunks, Ties, Drops
<1>2. \A j \in L : Get(t, j, "parent") \in D => j \in D
  BY DEF Closed
<1>3. \A j \in M : IsLive(u, j)
  BY DEF LiveIn
<1>4. \A j \in M :
          /\ IsGroup(u, j) <=> IsGroup(t, j)
          /\ Get(u, j, "parent") = Get(t, j, "parent")
          /\ Get(u, j, "next") = Get(t, j, "next") /\ Get(u, j, "prev") = Get(t, j, "prev")
          /\ Get(u, j, "head") = IF Get(t, j, "head") \in D THEN None ELSE Get(t, j, "head")
          /\ Get(u, j, "tail") = IF Get(t, j, "tail") \in D THEN None ELSE Get(t, j, "tail")
  BY <1>1 DEF Drops
<1>5. \A j \in D \ R : \A k \in L : Get(t, k, "parent") = Get(t, j, "parent") => k \in D
  OBVIOUS
<1> HIDE DEF L, M, Q
<1>6. ASSUME NEW j \in M
      PROVE  /\ Get(u, j, "head") \in (M \ Q) \cup {None}
             /\ Get(u, j, "head") # None =>
                   /\ IsGroup(u, j)
                   /\ Get(u, Get(u, j, "head"), "parent") = j
                   /\ Get(u, Get(u, j, "head"), "prev") = None
  <2> DEFINE h == Get(t, j, "head")
  <2>1. /\ h \in (L \ R) \cup {None}
        /\ h # None => IsGroup(t, j) /\ Get(t, h, "parent") = j /\ Get(t, h, "prev") = None
    BY <1>1 DEF Ties
  <2>2. CASE h \in D
    BY <1>4, <2>2
  <2>3. CASE h \notin D
    <3>1. Get(u, j, "head") = h
      BY <1>4, <2>3
    <3>2. h # None => h \in M \ Q
      BY <1>1, <2>1, <2>3 DEF Q
    <3> QED
      BY <1>4, <2>1, <3>1, <3>2
  <2> QED
    BY <2>2, <2>3
<1>7. ASSUME NEW j \in M
      PROVE  /\ Get(u, j, "tail") \in (M \ Q) \cup {None}
             /\ Get(u, j, "tail") # None =>
                   /\ IsGroup(u, j)
                   /\ Get(u, Get(u, j, "tail"), "parent") = j
                   /\ Get(u, Get(u, j, "tail"), "next") = None
  <2> DEFINE h == Get(t, j, "tail")
  <2>1. /\ h \in (L \ R) \cup {None}
        /\ h # None => IsGroup(t, j) /\ Get(t, h, "parent") = j /\ Get(t, h, "next") = None
    BY <1>1 DEF Ties
  <2>2. CASE h \in D
    BY <1>4, <2>2
  <2>3. CASE h \notin D
    <3>1. Get(u, j, "tail") = h
      BY <1>4, <2>3
    <3>2. h # None => h \in M \ Q
      BY <1>1, <2>1, <2>3 DEF Q
    <3> QED
      BY <1>4, <2>1, <3>1, <3>2
  <2> QED
    BY <2>2, <2>3
<1>8. ASSUME NEW j \in M \ Q
      PROVE  /\ Get(t, j, "parent") \in M
             /\ Get(t, j, "next") \in (M \ Q) \cup {None}
             /\ Get(t, j, "prev") \in (M \ Q) \cup {None}
  <2> DEFINE n == Get(t, j, "next")
             p == Get(t, j, "prev")
  <2>1. /\ j \in L \ R /\ j \notin D /\ Get(t, j, "parent") \in L
        /\ n \in (L \ R) \cup {None} /\ p \in (L \ R) \cup {None}
        /\ n # None => Get(t, n, "parent") = Get(t, j, "parent")
        /\ p # None => Get(t, p, "parent") = Get(t, j, "parent")
    BY <1>1 DEF Ties
  <2>2. Get(t, j, "parent") \in M
    BY <1>1, <1>2, <2>1
  <2>3. n # None => n \in M \ Q
    BY <1>1, <1>5, <2>1 DEF Q
  <2>4. p # None => p \in M \ Q
    BY <1>1, <1>5, <2>1 DEF Q
  <2> QED
    BY <2>2, <2>3, <2>4
<1>9. ASSUME NEW j \in M \ Q
      PROVE  /\ Get(u, j, "parent") \in M /\ IsGroup(u, Get(u, j, "parent"))
             /\ Get(u, j, "next") \in (M \ Q) \cup {None}
             /\ Get(u, j, "prev") \in (M \ Q) \cup {None}
             /\ Get(u, j, "next") # None =>
                   /\ Get(u, Get(u, j, "next"), "prev") = j
                   /\ Get(u, Get(u, j, "next"), "parent") = Get(u, j, "parent")
             /\ Get(u, j, "prev") # None =>
                   /\ Get(u, Get(u, j, "prev"), "next") = j
                   /\ Get(u, Get(u, j, "prev"), "parent") = Get(u, j, "parent")
             /\ Get(u, j, "next") = None => Get(u, Get(u, j, "parent"), "tail") = j
             /\ Get(u, j, "prev") = None => Get(u, Get(u, j, "parent"), "head") = j
  <2>1. /\ Get(u, j, "parent") = Get(t, j, "parent") /\ Get(u, j, "next") = Get(t, j, "next")
        /\ Get(u, j, "prev") = Get(t, j, "prev") /\ j \notin D /\ j \in L \ R
    BY <1>1, <1>4
  <2>2. /\ IsGroup(t, Get(t, j, "parent"))
        /\ Get(t, j, "next") # None =>
              /\ Get(t, Get(t, j, "next"), "prev") = j
              /\ Get(t, Get(t, j, "next"), "parent") = Get(t, j, "parent")
        /\ Get(t, j, "prev") # None =>
              /\ Get(t, Get(t, j, "prev"), "next") = j
              /\ Get(t, Get(t, j, "prev"), "parent") = Get(t, j, "parent")
        /\ Get(t, j, "next") = None => Get(t, Get(t, j, "parent"), "tail") = j
        /\ Get(t, j, "prev") = None => Get(t, Get(t, j, "parent"), "head") = j
    BY <1>1, <2>1 DEF Ties
  <2> QED
    BY <1>4, <1>8, <2>1, <2>2
<1>10. \A j \in Q : /\ Get(u, j, "parent") = None
                    /\ Get(u, j, "next") = None /\ Get(u, j, "prev") = None
  BY <1>1, <1>4 DEF Whole, Q
<1>11. Ties(u, M, Q)
  <2>1. \A j \in Q : Get(u, j, "parent") \notin M
    BY <1>1, <1>10
  <2> QED
    BY <1>1, <1>3, <1>6, <1>7, <1>9, <2>1 DEF Ties
<1>12. Grounded(u, M, Q)
  <2> SUFFICES ASSUME NEW X \in SUBSET M, X # {}
               PROVE  \E m \in X : Get(u, m, "parent") \notin X /\ (m \in Q \/ Get(u, m, "prev") \notin X)
    BY DEF Grounded
  <2>1. X \in SUBSET L
    BY <1>1
  <2>2. PICK m \in X : Get(t, m, "parent") \notin X /\ (m \in R \/ Get(t, m, "prev") \notin X)
    BY <1>1, <2>1, Zenon DEF Trunks, Grounded
  <2> QED
    BY <1>1, <1>4, <2>2 DEF Q
<1> QED
  BY <1>10, <1>11, <1>12 DEF Whole, Trunks, M, Q

(* A node without a place is put in.                                       *)
Adds(t, u, i) ==
    /\ LiveIn(u) = LiveIn(t) \cup {i}
    /\ \A l \in Links : Get(u, i, l) = None
    /\ \A j \in LiveIn(t) : /\ IsGroup(u, j) <=> IsGroup(t, j)
                            /\ \A l \in Links : Get(u, j, l) = Get(t, j, l)

(* It has no place yet, and the rest stays whole. *)
LEMMA AddWhole ==
    ASSUME NEW t, NEW u, NEW R, Whole(t, R), NEW i \in Slot \ LiveIn(t), Adds(t, u, i)
    PROVE  Whole(u, R \cup {i})
<1> DEFINE L == LiveIn(t)
           M == LiveIn(u)
           Q == R \cup {i}
<1>1. /\ Ties(t, L, R) /\ Trunks(t, L, R) /\ None \notin M /\ M = L \cup {i} /\ i \notin L
      /\ L \in SUBSET Slot /\ R \in SUBSET L /\ Q \in SUBSET M /\ M \ Q = L \ R /\ M \in SUBSET Slot
  BY NodeFacts DEF Whole, Trunks, Ties, Adds
<1>2. \A j \in M : IsLive(u, j)
  BY DEF LiveIn
<1>3. /\ Get(u, i, "parent") = None /\ Get(u, i, "next") = None /\ Get(u, i, "prev") = None
      /\ Get(u, i, "head") = None /\ Get(u, i, "tail") = None
      /\ \A j \in L :
            /\ IsGroup(u, j) <=> IsGroup(t, j)
            /\ Get(u, j, "parent") = Get(t, j, "parent")
            /\ Get(u, j, "next") = Get(t, j, "next") /\ Get(u, j, "prev") = Get(t, j, "prev")
            /\ Get(u, j, "head") = Get(t, j, "head") /\ Get(u, j, "tail") = Get(t, j, "tail")
  BY DEF Adds, Links
<1> HIDE DEF L, M, Q
<1>4. ASSUME NEW j \in M
      PROVE  /\ Get(u, j, "head") \in (M \ Q) \cup {None} /\ Get(u, j, "tail") \in (M \ Q) \cup {None}
             /\ Get(u, j, "head") # None =>
                   /\ IsGroup(u, j)
                   /\ Get(u, Get(u, j, "head"), "parent") = j
                   /\ Get(u, Get(u, j, "head"), "prev") = None
             /\ Get(u, j, "tail") # None =>
                   /\ IsGroup(u, j)
                   /\ Get(u, Get(u, j, "tail"), "parent") = j
                   /\ Get(u, Get(u, j, "tail"), "next") = None
  <2>1. CASE j = i
    BY <1>3, <2>1
  <2>2. CASE j # i
    BY <1>1, <1>3, <2>2 DEF Ties
  <2> QED
    BY <2>1, <2>2
<1>5. ASSUME NEW j \in M \ Q
      PROVE  /\ Get(u, j, "parent") \in M /\ IsGroup(u, Get(u, j, "parent"))
             /\ Get(u, j, "next") \in (M \ Q) \cup {None}
             /\ Get(u, j, "prev") \in (M \ Q) \cup {None}
             /\ Get(u, j, "next") # None =>
                   /\ Get(u, Get(u, j, "next"), "prev") = j
                   /\ Get(u, Get(u, j, "next"), "parent") = Get(u, j, "parent")
             /\ Get(u, j, "prev") # None =>
                   /\ Get(u, Get(u, j, "prev"), "next") = j
                   /\ Get(u, Get(u, j, "prev"), "parent") = Get(u, j, "parent")
             /\ Get(u, j, "next") = None => Get(u, Get(u, j, "parent"), "tail") = j
             /\ Get(u, j, "prev") = None => Get(u, Get(u, j, "parent"), "head") = j
  BY <1>1, <1>3 DEF Ties
<1>6. \A j \in Q : /\ Get(u, j, "parent") = None
                   /\ Get(u, j, "next") = None /\ Get(u, j, "prev") = None
  BY <1>1, <1>3 DEF Whole, Q
<1>7. Ties(u, M, Q)
  <2>1. \A j \in Q : Get(u, j, "parent") \notin M
    BY <1>1, <1>6
  <2> QED
    BY <1>1, <1>2, <1>4, <1>5, <2>1 DEF Ties
<1>8. Grounded(u, M, Q)
  <2> SUFFICES ASSUME NEW X \in SUBSET M, X # {}
               PROVE  \E m \in X : Get(u, m, "parent") \notin X /\ (m \in Q \/ Get(u, m, "prev") \notin X)
    BY DEF Grounded
  <2>1. None \notin X
    BY <1>1
  <2>2. CASE i \in X
    BY <1>3, <2>1, <2>2 DEF Q
  <2>3. CASE i \notin X
    <3>1. X \in SUBSET L
      BY <1>1, <2>3
    <3>2. PICK m \in X : Get(t, m, "parent") \notin X /\ (m \in R \/ Get(t, m, "prev") \notin X)
      BY <1>1, <3>1, Zenon DEF Trunks, Grounded
    <3> QED
      BY <1>1, <1>3, <3>1, <3>2 DEF Q
  <2> QED
    BY <2>2, <2>3
<1> QED
  BY <1>6, <1>7, <1>8 DEF Whole, Trunks, M, Q

-----------------------------------------------------------------------------
(* The books beside the links: each slot is live, free or held for a node  *)
(* that is about to be put in, ids and live nodes answer to each other,    *)
(* and there is a free slot for every node still to be reported.           *)
Books(t, H) ==
    /\ H \in SUBSET (Slot \ LiveIn(t))
    /\ Lists(t.free, Slot \ (LiveIn(t) \cup H))
    /\ \A i \in LiveIn(t) : IdOf(t, i) \in DOMAIN t.ids /\ t.ids[IdOf(t, i)] = i
    /\ \A n \in DOMAIN t.ids : t.ids[n] \in LiveIn(t) /\ IdOf(t, t.ids[n]) = n
    /\ t.synthCount = Cardinality(Synths(t))
    /\ Len(t.sink) <= Len(t.free)

(* Links are not in the books. *)
LEMMA RelinkedBooks ==
    ASSUME NEW t, NEW u, Relinked(t, u), NEW H, Books(t, H)
    PROVE  Books(u, H)
<1>1. LiveIn(u) = LiveIn(t) /\ Synths(u) = Synths(t)
  BY RelinkedLive DEF Relinked, Synths
<1>2. /\ u.free = t.free /\ u.ids = t.ids /\ u.synthCount = t.synthCount /\ u.sink = t.sink
      /\ \A j : IdOf(u, j) = IdOf(t, j)
  BY DEF Relinked
<1> QED
  BY <1>1, <1>2 DEF Books

(* A tree that has lost the nodes of a set, the others being as they were. *)
Sheds(t, u, D) ==
    /\ u \in Trees
    /\ LiveIn(u) = LiveIn(t) \ D
    /\ \A j \in LiveIn(u) : u.slots[j] = t.slots[j]

(* A tree has lost nothing of itself. *)
LEMMA ShedsSelf == \A t \in Trees : Sheds(t, t, {})
  BY DEF Sheds

(* What is lost in two steps. *)
LEMMA ShedsTrans ==
    ASSUME NEW t, NEW u, NEW w, NEW D, NEW E, Sheds(t, u, D), Sheds(u, w, E)
    PROVE  Sheds(t, w, D \cup E)
  BY DEF Sheds

(* What is left of it reads the same. *)
LEMMA ShedsLinks ==
    ASSUME NEW t, NEW u, NEW D, Sheds(t, u, D)
    PROVE  \A j \in LiveIn(u) :
              /\ IsLive(u, j) /\ IsLive(t, j) /\ j \in LiveIn(t)
              /\ IsGroup(u, j) <=> IsGroup(t, j)
              /\ IsSynth(u, j) <=> IsSynth(t, j)
              /\ IdOf(u, j) = IdOf(t, j)
              /\ \A l : Get(u, j, l) = Get(t, j, l)
<1> SUFFICES ASSUME NEW j \in LiveIn(u)
             PROVE  /\ IsLive(u, j) /\ IsLive(t, j) /\ j \in LiveIn(t)
                    /\ IsGroup(u, j) <=> IsGroup(t, j)
                    /\ IsSynth(u, j) <=> IsSynth(t, j)
                    /\ IdOf(u, j) = IdOf(t, j)
                    /\ \A l : Get(u, j, l) = Get(t, j, l)
  OBVIOUS
<1>1. IsLive(u, j) /\ IsLive(t, j) /\ j \in LiveIn(t) /\ u.slots[j] = t.slots[j]
  BY DEF Sheds, LiveIn
<1> QED
  BY <1>1 DEF IsGroup, IsSynth, IdOf, Get

(* A branch none of which is lost. *)
LEMMA BranchStays ==
    ASSUME NEW t, NEW u, NEW D, Sheds(t, u, D), NEW i, NEW B, Branch(t, B, i), B \cap D = {}
    PROVE  Branch(u, B, i)
<1>1. B \subseteq LiveIn(u)
  BY DEF Branch, Trunks, Ties, Sheds, LiveIn
<1>2. \A j \in B : /\ IsLive(u, j)
                   /\ IsGroup(u, j) <=> IsGroup(t, j)
                   /\ Get(u, j, "parent") = Get(t, j, "parent")
                   /\ Get(u, j, "next") = Get(t, j, "next") /\ Get(u, j, "prev") = Get(t, j, "prev")
                   /\ Get(u, j, "head") = Get(t, j, "head") /\ Get(u, j, "tail") = Get(t, j, "tail")
  BY <1>1, ShedsLinks
<1>3. i \in B /\ Ties(t, B, {i}) /\ Grounded(t, B, {i})
  BY DEF Branch, Trunks
<1>4. Ties(u, B, {i})
  BY <1>2, <1>3 DEF Ties
<1>5. Grounded(u, B, {i})
  <2> SUFFICES ASSUME NEW X \in SUBSET B, X # {}
               PROVE  \E m \in X : Get(u, m, "parent") \notin X /\ (m \in {i} \/ Get(u, m, "prev") \notin X)
    BY DEF Grounded
  <2>1. PICK m \in X : Get(t, m, "parent") \notin X /\ (m \in {i} \/ Get(t, m, "prev") \notin X)
    BY <1>3, Zenon DEF Grounded
  <2> QED
    BY <1>2, <2>1
<1> QED
  BY <1>3, <1>4, <1>5 DEF Branch, Trunks

(* One node is removed and reported. *)
LEMMA Remove1Books ==
    ASSUME NEW t \in Trees, NEW i \in LiveIn(t), NEW report \in Info, report.id = IdOf(t, i),
           NEW H, Books(t, H)
    PROVE  /\ Sheds(t, Remove1(t, i, report), {i})
           /\ Books(Remove1(t, i, report), H)
<1> DEFINE u == Remove1(t, i, report)
           L == LiveIn(t)
           M == LiveIn(u)
<1>1. u \in Trees
  BY LeftSelf, Remove1Left DEF Left, LiveIn
<1>2. /\ u.slots = [t.slots EXCEPT ![i] = Free]
      /\ u.free = Append(t.free, i)
      /\ u.ids = [n \in DOMAIN t.ids \ {report.id} |-> t.ids[n]]
      /\ u.synthCount = (IF IsSynth(t, i) /\ t.synthCount > 0 THEN t.synthCount - 1 ELSE t.synthCount)
      /\ u.sink = Append(t.sink, report)
  BY DEF Remove1
<1> HIDE DEF u
<1>3. /\ i \in Slot /\ \A j \in Slot : u.slots[j] = IF j = i THEN Free ELSE t.slots[j]
      /\ t.sink \in Seq(Info) /\ t.free \in Seq(Slot) /\ t.synthCount \in Nat
  BY <1>2 DEF Trees, LiveIn
<1>4. M = L \ {i} /\ \A j \in M : u.slots[j] = t.slots[j]
  BY <1>3 DEF LiveIn, IsLive
<1>5. Sheds(t, u, {i})
  BY <1>1, <1>4 DEF Sheds
<1>6. \A j \in M : IdOf(u, j) = IdOf(t, j) /\ (IsSynth(u, j) <=> IsSynth(t, j))
  BY <1>5, ShedsLinks
<1> HIDE DEF L, M
<1>7. Lists(u.free, Slot \ (M \cup H)) /\ H \in SUBSET (Slot \ M)
  <2> DEFINE P == Slot \ (L \cup H)
             s == t.free
  <2>1. s \in Seq(P) /\ (\A x \in P : \E k \in DOMAIN s : s[k] = x)
        /\ (\A a, b \in DOMAIN s : s[a] = s[b] => a = b)
    BY DEF Books, Lists, L
  <2>2. i \in L /\ i \notin P /\ Slot \ (M \cup H) = P \cup {i} /\ H \in SUBSET (Slot \ M)
    BY <1>3, <1>4 DEF Books, L
  <2> HIDE DEF P, s
  <2> DEFINE n == Len(s)
             w == Append(s, i)
  <2>3. /\ n \in Nat /\ DOMAIN s = 1..n /\ w \in Seq(P \cup {i}) /\ DOMAIN w = 1..(n + 1)
        /\ w[n + 1] = i /\ \A k \in 1..n : w[k] = s[k] /\ s[k] \in P
    BY <2>1
  <2> HIDE DEF n, w
  <2>4. \A x \in P \cup {i} : \E k \in 1..(n + 1) : w[k] = x
    <3> SUFFICES ASSUME NEW x \in P \cup {i} PROVE \E k \in 1..(n + 1) : w[k] = x
      OBVIOUS
    <3>1. CASE x = i
      BY <2>3, <3>1
    <3>2. CASE x \in P
      <4>1. PICK k \in 1..n : s[k] = x
        BY <2>1, <2>3, <3>2
      <4> QED
        BY <2>3, <4>1
    <3> QED
      BY <3>1, <3>2
  <2>5. \A a, b \in 1..(n + 1) : w[a] = w[b] => a = b
    <3> SUFFICES ASSUME NEW a \in 1..(n + 1), NEW b \in 1..(n + 1), w[a] = w[b] PROVE a = b
      OBVIOUS
    <3>1. \A k \in 1..(n + 1) : k = n + 1 \/ k \in 1..n
      BY <2>3
    <3>2. a \in 1..n /\ b \in 1..n => s[a] = s[b]
      BY <2>3
    <3> QED
      BY <2>1, <2>2, <2>3, <3>1, <3>2
  <2>6. Lists(w, P \cup {i})
    BY <2>3, <2>4, <2>5 DEF Lists
  <2> QED
    BY <1>2, <2>2, <2>6 DEF w, s
<1>8. /\ \A j \in M : IdOf(u, j) \in DOMAIN u.ids /\ u.ids[IdOf(u, j)] = j
      /\ \A n \in DOMAIN u.ids : u.ids[n] \in M /\ IdOf(u, u.ids[n]) = n
  <2>1. /\ \A j \in L : IdOf(t, j) \in DOMAIN t.ids /\ t.ids[IdOf(t, j)] = j
        /\ \A n \in DOMAIN t.ids : t.ids[n] \in L /\ IdOf(t, t.ids[n]) = n
    BY DEF Books, L
  <2>2. DOMAIN u.ids = DOMAIN t.ids \ {IdOf(t, i)} /\ \A n \in DOMAIN u.ids : u.ids[n] = t.ids[n]
    BY <1>2
  <2>3. ASSUME NEW j \in M PROVE IdOf(u, j) \in DOMAIN u.ids /\ u.ids[IdOf(u, j)] = j
    <3>1. j \in L /\ j # i /\ IdOf(u, j) = IdOf(t, j)
      BY <1>4, <1>6
    <3>2. IdOf(t, j) # IdOf(t, i)
      BY <2>1, <3>1 DEF L
    <3> QED
      BY <2>1, <2>2, <3>1, <3>2
  <2>4. ASSUME NEW n \in DOMAIN u.ids PROVE u.ids[n] \in M /\ IdOf(u, u.ids[n]) = n
    <3>1. n \in DOMAIN t.ids /\ n # IdOf(t, i) /\ u.ids[n] = t.ids[n]
      BY <2>2
    <3>2. t.ids[n] \in M
      BY <1>4, <2>1, <3>1
    <3> QED
      BY <1>6, <2>1, <3>1, <3>2
  <2> QED
    BY <2>3, <2>4
<1>9. u.synthCount = Cardinality(Synths(u))
  <2>1. Synths(u) = Synths(t) \ {i}
    <3>1. \A j \in Slot : IsSynth(u, j) <=> IsSynth(t, j) /\ j # i
      <4>1. \A j \in Slot : IsLive(u, j) <=> IsLive(t, j) /\ j # i
        BY <1>3 DEF IsLive
      <4> QED
        BY <1>3, <4>1 DEF IsSynth
    <3> QED
      BY <3>1 DEF Synths
  <2>2. /\ Synths(t) \in SUBSET Slot /\ IsFiniteSet(Synths(t))
        /\ Cardinality(Synths(t)) \in Nat /\ t.synthCount = Cardinality(Synths(t))
    BY SlotCount DEF Synths, Books
  <2>3. Cardinality(Synths(t) \ {i}) = IF i \in Synths(t) THEN Cardinality(Synths(t)) - 1
                                       ELSE Cardinality(Synths(t))
    BY <2>2, FS_RemoveElement
  <2>4. i \in Synths(t) <=> IsSynth(t, i)
    BY <1>3 DEF Synths
  <2>5. i \in Synths(t) => Cardinality(Synths(t)) # 0
    BY <2>2, FS_EmptySet
  <2> QED
    BY <1>2, <2>1, <2>2, <2>3, <2>4, <2>5
<1>10. Len(u.sink) <= Len(u.free)
  <2>1. Len(u.sink) = Len(t.sink) + 1 /\ Len(u.free) = Len(t.free) + 1
    BY <1>2, <1>3
  <2>2. Len(t.sink) <= Len(t.free) /\ Len(t.sink) \in Nat /\ Len(t.free) \in Nat
    BY <1>3 DEF Books
  <2> QED
    BY <2>1, <2>2
<1>11. Books(u, H)
  BY <1>7, <1>8, <1>9, <1>10 DEF Books, M
<1> QED
  BY <1>5, <1>11 DEF u

(* A branch is destroyed: its nodes are lost, and the books are kept.      *)
LEMMA DestroyBooks ==
    ASSUME NEW t \in Trees, NEW i, NEW B, Branch(t, B, i), NEW H, Books(t, H)
    PROVE  Sheds(t, Destroy(t, i), B) /\ Books(Destroy(t, i), H)
<1> DEFINE seq == PostOrder(t, i)
           n == Len(seq)
           first(k) == {seq[c] : c \in 1..k}
<1>1. Lists(seq, B)
  BY PostOrderList
<1>2. i \in Slot /\ B \subseteq LiveIn(t)
  BY DEF Branch, Trunks, Ties, LiveIn
<1>3. PICK run : Removes(run, t, t, seq) /\ Destroy(t, i) = run[Len(seq)]
  BY <1>2, LeftSelf, DestroyRuns
<1>4. n \in Nat /\ DOMAIN seq = 1..n /\ (\A k \in 1..n : seq[k] \in B)
      /\ (\A x \in B : \E k \in 1..n : seq[k] = x)
      /\ \A a, b \in 1..n : seq[a] = seq[b] => a = b
  BY <1>1 DEF Lists
<1> HIDE DEF seq
<1> DEFINE T == {k \in Nat : k <= n => Sheds(t, run[k], first(k)) /\ Books(run[k], H)}
<1>5. 0 \in T
  <2>1. first(0) = {}
    OBVIOUS
  <2> HIDE DEF first
  <2> QED
    BY <1>3, <2>1, ShedsSelf DEF Removes
<1>6. ASSUME NEW k \in Nat, k \in T PROVE k + 1 \in T
  <2> SUFFICES ASSUME k + 1 <= n PROVE Sheds(t, run[k + 1], first(k + 1)) /\ Books(run[k + 1], H)
    OBVIOUS
  <2> DEFINE u == run[k]
             j == seq[k + 1]
             r == Report(u, j)
  <2>1. k + 1 \in 1..n /\ (k + 1) - 1 = k /\ k \in 0..n
    BY <1>4
  <2>2. Sheds(t, u, first(k)) /\ Books(u, H)
    BY <1>4, <1>6
  <2>3. u \in Trees /\ run[k + 1] = Remove1(u, j, r)
    BY <1>3, <2>1 DEF n, Left, Removes
  <2>4. j \in LiveIn(t) /\ j \notin first(k) /\ first(k + 1) = first(k) \cup {j}
    <3>1. j \notin first(k)
      BY <1>4, <2>1
    <3>2. 1..(k + 1) = 1..k \cup {k + 1}
      BY <2>1
    <3>3. first(k + 1) = first(k) \cup {j}
      BY <3>2
    <3> QED
      BY <1>2, <1>4, <2>1, <3>1, <3>3
  <2>5. r \in Info /\ r.id = IdOf(u, j)
    <3>1. r \in Info
      BY <2>3, IdOfName
    <3> QED
      BY <3>1 DEF Report
  <2> HIDE DEF u, j, r, first
  <2>6. j \in LiveIn(u)
    BY <2>2, <2>4 DEF Sheds
  <2>7. Sheds(u, Remove1(u, j, r), {j}) /\ Books(Remove1(u, j, r), H)
    BY <2>2, <2>3, <2>5, <2>6, Remove1Books
  <2> QED
    BY <2>2, <2>3, <2>4, <2>7, ShedsTrans
<1>7. Nat \subseteq T
  <2> HIDE DEF T
  <2> QED
    BY <1>5, <1>6, Induct
<1>8. Sheds(t, run[n], first(n)) /\ Books(run[n], H)
  <2>1. n \in T
    <3> HIDE DEF T
    <3> QED
      BY <1>4, <1>7
  <2>2. n <= n
    BY <1>4, <1>7
  <2> QED
    BY <2>1, <2>2, Zenon
<1>9. first(n) = B
  BY <1>4
<1> HIDE DEF first
<1> QED
  BY <1>3, <1>8, <1>9 DEF n, Removes

-----------------------------------------------------------------------------
(* A tree that is whole and whose books balance.                           *)
Sound(t, R, H) ==
    /\ t \in Trees /\ 0 \in R
    /\ Whole(t, R) /\ Books(t, H)
    /\ IsGroup(t, 0) /\ IdOf(t, 0) = Root

(* Each of its nodes has its branch. *)
LEMMA SoundBranch ==
    ASSUME NEW t, NEW R, NEW H, Sound(t, R, H), NEW i \in LiveIn(t)
    PROVE  \E B \in SUBSET LiveIn(t) : Branch(t, B, i) /\ Closed(t, LiveIn(t), B) /\ B \cap R \subseteq {i}
  BY BranchExists DEF Sound, Whole

(* Its parts, for use one by one. *)
LEMMA SoundParts ==
    ASSUME NEW t, NEW R, NEW H, Sound(t, R, H)
    PROVE  /\ t \in Trees /\ Whole(t, R) /\ Books(t, H)
           /\ Ties(t, LiveIn(t), R) /\ Trunks(t, LiveIn(t), R) /\ None \notin LiveIn(t)
           /\ LiveIn(t) \in SUBSET Slot /\ R \in SUBSET LiveIn(t) /\ 0 \in R
  BY NodeFacts DEF Sound, Whole, Trunks, Ties, LiveIn

(* A node leaves its chain. *)
LEMMA UnlinkSound ==
    ASSUME NEW t, NEW R, NEW H, Sound(t, R, H), NEW i \in LiveIn(t) \ R
    PROVE  /\ Sound(Unlink(t, i), R \cup {i}, H)
           /\ Unlinks(t, Unlink(t, i), i) /\ LiveIn(Unlink(t, i)) = LiveIn(t)
<1> DEFINE u == Unlink(t, i)
<1>1. t \in Trees /\ IsLive(t, i)
  BY DEF Sound, LiveIn
<1>2. Unlinks(t, u, i)
  BY <1>1, UnlinkLinks
<1> HIDE DEF u
<1>3. Whole(u, R \cup {i})
  BY <1>2, UnlinkWhole DEF Sound
<1>4. Relinked(t, u)
  BY <1>2 DEF Unlinks
<1>5. Books(u, H) /\ LiveIn(u) = LiveIn(t)
  BY <1>4, RelinkedBooks, RelinkedLive DEF Sound
<1>6. u \in Trees /\ IsGroup(u, 0) /\ IdOf(u, 0) = Root
  BY <1>4 DEF Relinked, Sound
<1>7. Sound(u, R \cup {i}, H)
  BY <1>3, <1>5, <1>6 DEF Sound
<1> QED
  BY <1>2, <1>5, <1>7 DEF u

(* The branch of a node without a place is destroyed. *)
LEMMA DestroySound ==
    ASSUME NEW t, NEW R, NEW H, NEW i, Sound(t, R \cup {i}, H), i \notin R, 0 \in R,
           NEW B, Branch(t, B, i), Closed(t, LiveIn(t), B), B \cap R = {}
    PROVE  Sound(Destroy(t, i), R, H) /\ Sheds(t, Destroy(t, i), B)
<1> DEFINE u == Destroy(t, i)
           L == LiveIn(t)
           Q == R \cup {i}
<1>1. /\ t \in Trees /\ Ties(t, L, Q) /\ None \notin L /\ i \in B /\ B \in SUBSET L /\ Q \in SUBSET L
      /\ Get(t, i, "parent") = None
  BY SoundParts DEF Branch, Trunks, Ties, LiveIn, Sound, Whole
<1>2. Sheds(t, u, B) /\ Books(u, H)
  BY <1>1, DestroyBooks DEF Sound
<1> HIDE DEF u
<1>3. \A j \in B \ {i} : Get(t, j, "parent") \in B
  BY DEF Branch, Trunks, Ties
<1>4. \A j \in L \ B : Get(t, j, "head") \notin B /\ Get(t, j, "tail") \notin B
  <2> SUFFICES ASSUME NEW j \in L \ B PROVE Get(t, j, "head") \notin B /\ Get(t, j, "tail") \notin B
    OBVIOUS
  <2>1. /\ Get(t, j, "head") \in (L \ Q) \cup {None} /\ Get(t, j, "tail") \in (L \ Q) \cup {None}
        /\ Get(t, j, "head") # None => Get(t, Get(t, j, "head"), "parent") = j
        /\ Get(t, j, "tail") # None => Get(t, Get(t, j, "tail"), "parent") = j
    BY <1>1 DEF Ties
  <2> QED
    BY <1>1, <1>3, <2>1
<1>5. Drops(t, u, B)
  <2>1. LiveIn(u) = L \ B
    BY <1>2 DEF Sheds
  <2> QED
    BY <1>2, <1>4, <2>1, ShedsLinks DEF Drops
<1>6. \A j \in B \ Q : \A k \in L : Get(t, k, "parent") = Get(t, j, "parent") => k \in B
  BY <1>3 DEF Closed
<1>7. Whole(u, Q \ B) /\ Q \ B = R
  <2>1. Whole(u, Q \ B)
    BY <1>1, <1>5, <1>6, DropWhole DEF Sound
  <2> QED
    BY <1>1, <2>1
<1>8. 0 \in LiveIn(u)
  BY <1>1, <1>2 DEF Sheds
<1>9. IsGroup(u, 0) /\ IdOf(u, 0) = Root
  BY <1>2, <1>8, ShedsLinks DEF Sound
<1>10. Sound(u, R, H)
  BY <1>2, <1>7, <1>9 DEF Sound, Sheds
<1> QED
  BY <1>2, <1>10 DEF u

(* A node that has a place is freed, with its branch. *)
LEMMA FreeAtSound ==
    ASSUME NEW t, NEW R, NEW H, Sound(t, R, H), NEW i \in LiveIn(t) \ R
    PROVE  /\ Sound(FreeAt(t, i), R, H)
           /\ LiveIn(FreeAt(t, i)) \subseteq LiveIn(t)
           /\ \A j \in LiveIn(t) : j # i /\ Get(t, j, "parent") = Get(t, i, "parent")
                                   => j \in LiveIn(FreeAt(t, i))
<1> DEFINE L == LiveIn(t)
           Q == R \cup {i}
           p == Get(t, i, "parent")
           a == Get(t, i, "prev")
           b == Get(t, i, "next")
           v == Destroy(t, i)
           u == RepairParent(v, p, a, b, i)
           w == Unlink(t, i)
<1>0. FreeAt(t, i) = u
  BY DEF FreeAt
<1>1. /\ t \in Trees /\ Ties(t, L, R) /\ Trunks(t, L, R) /\ None \notin L /\ i \in L /\ L \in SUBSET Slot /\ R \in SUBSET L
      /\ 0 \in R
  BY SoundParts
<1>2. PICK B \in SUBSET L : Branch(t, B, i) /\ Closed(t, L, B) /\ B \cap R \subseteq {i}
  BY SoundBranch
<1>3. i \in B /\ (\A j \in B \ {i} : Get(t, j, "parent") \in B) /\ p \notin B /\ B \cap R = {}
  BY <1>2 DEF Branch, Trunks, Ties
<1>4. Sheds(t, v, B) /\ Books(v, H)
  BY <1>1, <1>2, DestroyBooks DEF Sound
<1>5. Sound(w, Q, H) /\ Unlinks(t, w, i) /\ LiveIn(w) = L
  BY UnlinkSound
<1> HIDE DEF v, w
<1>6. \A j \in L : Get(t, j, "parent") \in B => j \in B
  BY <1>2 DEF Closed
<1>7. /\ p \in L \ B /\ a \in (L \ B) \cup {None} /\ b \in (L \ B) \cup {None}
  <2>1. /\ p \in L /\ a \in L \cup {None} /\ b \in L \cup {None}
        /\ a # None => Get(t, a, "parent") = p
        /\ b # None => Get(t, b, "parent") = p
        /\ a # i /\ b # i
    BY <1>1, NextToNoSelf DEF Ties
  <2> QED
    BY <1>1, <1>3, <1>6, <2>1
<1>8. \A j \in L \ B : /\ j \in LiveIn(v) /\ IsLive(v, j) /\ IsLive(t, j) /\ (IsGroup(v, j) <=> IsGroup(t, j))
                       /\ IdOf(v, j) = IdOf(t, j)
                       /\ \A l : Get(v, j, l) = Get(t, j, l)
  <2>1. LiveIn(v) = L \ B
    BY <1>4 DEF Sheds
  <2> QED
    BY <1>4, <2>1, ShedsLinks
<1>9. v \in Trees /\ p \in Link /\ a \in Link /\ b \in Link
  BY <1>1, <1>4, GetLink DEF Sheds, Links
<1> HIDE DEF p, a, b
<1>10. /\ Relinked(v, u)
       /\ \A j : /\ Get(u, j, "parent") = Get(v, j, "parent")
                 /\ Get(u, j, "next") = IF j = a /\ IsLive(v, a) THEN b ELSE Get(v, j, "next")
                 /\ Get(u, j, "prev") = IF j = b /\ IsLive(v, b) THEN a ELSE Get(v, j, "prev")
                 /\ Get(u, j, "head") = IF j = p /\ IsGroup(v, p) /\ Get(v, p, "head") = i
                                        THEN b ELSE Get(v, j, "head")
                 /\ Get(u, j, "tail") = IF j = p /\ IsGroup(v, p) /\ Get(v, p, "tail") = i
                                        THEN a ELSE Get(v, j, "tail")
  <2>1. Repairs(v, u, p, a, b, i)
    BY <1>9, RepairLinks
  <2> QED
    BY <2>1 DEF Repairs
<1> HIDE DEF u
<1>11. u \in Trees /\ Books(u, H) /\ LiveIn(u) = LiveIn(v) /\ LiveIn(u) = L \ B
  BY <1>4, <1>10, RelinkedBooks, RelinkedLive DEF Relinked, Sheds
<1>12. \A j : /\ IsGroup(w, j) <=> IsGroup(t, j)
              /\ Get(w, j, "parent") = IF j = i THEN None ELSE Get(t, j, "parent")
              /\ Get(w, j, "next") = IF j = i THEN None
                                     ELSE IF j = a /\ IsLive(t, j) THEN b ELSE Get(t, j, "next")
              /\ Get(w, j, "prev") = IF j = i THEN None
                                     ELSE IF j = b /\ IsLive(t, j) THEN a ELSE Get(t, j, "prev")
              /\ Get(w, j, "head") = IF j = p /\ IsGroup(t, j) /\ Get(t, j, "head") = i THEN b ELSE Get(t, j, "head")
              /\ Get(w, j, "tail") = IF j = p /\ IsGroup(t, j) /\ Get(t, j, "tail") = i THEN a ELSE Get(t, j, "tail")
  BY <1>5 DEF Unlinks, Relinked, p, a, b
<1>13. \A j \in L \ B : /\ IsGroup(u, j) <=> IsGroup(w, j)
                        /\ Get(u, j, "parent") = Get(w, j, "parent")
                        /\ Get(u, j, "next") = Get(w, j, "next") /\ Get(u, j, "prev") = Get(w, j, "prev")
                        /\ Get(u, j, "head") = Get(w, j, "head") /\ Get(u, j, "tail") = Get(w, j, "tail")
  <2>1. \A j : IsGroup(u, j) <=> IsGroup(v, j)
    BY <1>10 DEF Relinked
  <2> SUFFICES ASSUME NEW j \in L \ B
               PROVE  /\ IsGroup(u, j) <=> IsGroup(w, j)
                      /\ Get(u, j, "parent") = Get(w, j, "parent")
                      /\ Get(u, j, "next") = Get(w, j, "next") /\ Get(u, j, "prev") = Get(w, j, "prev")
                      /\ Get(u, j, "head") = Get(w, j, "head") /\ Get(u, j, "tail") = Get(w, j, "tail")
    OBVIOUS
  <2>2. j # i
    BY <1>3
  <2> QED
    BY <1>8, <1>10, <1>12, <2>1, <2>2
<1>14. Ties(w, L, Q)
  BY <1>5, SoundParts
<1>15. /\ \A j \in B \ {i} : Get(w, j, "parent") \in B
       /\ \A j \in L : Get(w, j, "parent") \in B => j \in B
       /\ Get(w, i, "parent") = None
  BY <1>1, <1>3, <1>6, <1>12
<1>16. \A j \in L \ B : Get(w, j, "head") \notin B /\ Get(w, j, "tail") \notin B
  <2> SUFFICES ASSUME NEW j \in L \ B PROVE Get(w, j, "head") \notin B /\ Get(w, j, "tail") \notin B
    OBVIOUS
  <2>1. /\ Get(w, j, "head") \in (L \ Q) \cup {None} /\ Get(w, j, "tail") \in (L \ Q) \cup {None}
        /\ Get(w, j, "head") # None => Get(w, Get(w, j, "head"), "parent") = j
        /\ Get(w, j, "tail") # None => Get(w, Get(w, j, "tail"), "parent") = j
    BY <1>14 DEF Ties
  <2> QED
    BY <1>1, <1>15, <2>1
<1>17. Drops(w, u, B)
  BY <1>5, <1>11, <1>13, <1>16 DEF Drops
<1>18. Closed(w, L, B)
  BY <1>15 DEF Closed
<1>19. \A j \in B \ Q : \A k \in L : Get(w, k, "parent") = Get(w, j, "parent") => k \in B
  BY <1>15
<1>20. Whole(u, Q \ B) /\ Q \ B = R
  <2>1. Whole(w, Q)
    BY <1>5 DEF Sound
  <2>2. Whole(u, Q \ B)
    BY <1>5, <1>17, <1>18, <1>19, <2>1, DropWhole
  <2> QED
    BY <1>1, <1>3, <2>2
<1>21. 0 \in L \ B
  BY <1>1, <1>3
<1>22. IsGroup(u, 0) /\ IdOf(u, 0) = Root
  BY <1>8, <1>10, <1>21 DEF Sound, Relinked
<1>23. Sound(u, R, H)
  BY <1>1, <1>11, <1>20, <1>22 DEF Sound
<1>24. \A j \in L : j # i /\ Get(t, j, "parent") = p => j \in LiveIn(u)
  BY <1>3, <1>11
<1> QED
  BY <1>0, <1>11, <1>23, <1>24 DEF p

(* A group is emptied. *)
LEMMA FreeAllAtSound ==
    ASSUME NEW t, NEW R, NEW H, Sound(t, R, H), NEW g \in LiveIn(t)
    PROVE  /\ Sound(FreeAllAt(t, g), R, H)
           /\ LiveIn(FreeAllAt(t, g)) \subseteq LiveIn(t)
           /\ \A j \in LiveIn(t) : g \notin R /\ Get(t, j, "parent") = Get(t, g, "parent")
                                   => j \in LiveIn(FreeAllAt(t, g))
<1> DEFINE L == LiveIn(t)
           kids == Children(t, g)
           n == Len(kids)
           K == {j \in L : Get(t, j, "parent") = g}
           br == [j \in K |-> CHOOSE C \in SUBSET L : Branch(t, C, j) /\ Closed(t, L, C) /\ C \cap R \subseteq {j}]
           first(k) == UNION {br[kids[c]] : c \in 1..k}
<1>1. /\ t \in Trees /\ Ties(t, L, R) /\ Trunks(t, L, R) /\ None \notin L /\ L \in SUBSET Slot /\ R \in SUBSET L
      /\ 0 \in R /\ g \in Slot
  BY SoundParts
<1>2. PICK B \in SUBSET L : Branch(t, B, g) /\ Closed(t, L, B) /\ B \cap R \subseteq {g}
  BY SoundBranch
<1>3. g \in B /\ (\A j \in B \ {g} : Get(t, j, "parent") \in B) /\ Get(t, g, "parent") \notin B
  BY <1>2 DEF Branch, Trunks, Ties
<1>4. \A j \in L : Get(t, j, "parent") \in B => j \in B
  BY <1>2 DEF Closed
<1>5. ASSUME NEW j \in K
      PROVE  /\ br[j] \in SUBSET L /\ Branch(t, br[j], j) /\ Closed(t, L, br[j])
             /\ j \in br[j] /\ g \notin br[j]
  <2>1. \E C \in SUBSET L : Branch(t, C, j) /\ Closed(t, L, C) /\ C \cap R \subseteq {j}
    BY SoundBranch
  <2>2. br[j] \in SUBSET L /\ Branch(t, br[j], j) /\ Closed(t, L, br[j])
    BY <2>1
  <2> HIDE DEF br
  <2>3. j \in br[j] /\ g \notin br[j]
    BY <2>2 DEF Branch, Trunks, Ties
  <2> QED
    BY <2>2, <2>3
<1>6. Lists(kids, K) /\ kids \in Seq(Slot)
  BY <1>1, ChildrenList, ChildrenIs
<1>7. PICK run : Destroys(run, t, t, kids)
  BY <1>1, <1>6, LeftSelf, DestroyAllRuns
<1>8. n \in Nat /\ DOMAIN kids = 1..n /\ (\A k \in 1..n : kids[k] \in K)
      /\ (\A x \in K : \E k \in 1..n : kids[k] = x)
      /\ \A c, d \in 1..n : kids[c] = kids[d] => c = d
  BY <1>6 DEF Lists
<1>9. \A j \in K : j \in L /\ Get(t, j, "parent") = g
  OBVIOUS
<1> HIDE DEF kids, K, br, L
<1>10. ASSUME NEW c \in K, NEW d \in K, c # d PROVE br[c] \cap br[d] = {}
  <2> DEFINE X == br[c] \cap br[d]
  <2> SUFFICES ASSUME X # {} PROVE FALSE
    OBVIOUS
  <2>1. X \in SUBSET L
    BY <1>5
  <2>2. PICK m \in X : Get(t, m, "parent") \notin X
    <3> HIDE DEF X
    <3> QED
      BY <1>1, <2>1 DEF Trunks, Grounded
  <2>3. /\ \A j \in br[c] : j # c => Get(t, j, "parent") \in br[c]
        /\ \A j \in br[d] : j # d => Get(t, j, "parent") \in br[d]
    BY <1>5 DEF Branch, Trunks, Ties
  <2>4. m \in br[c] /\ m \in br[d] /\ (m = c \/ m = d)
    BY <2>2, <2>3
  <2> QED
    BY <1>5, <1>9, <1>10, <2>3, <2>4
<1>11. UNION {br[j] : j \in K} = B \ {g}
  <2> DEFINE X == {j \in B \ {g} : \A c \in K : j \notin br[c]}
             Y == {j \in L \ B : \E c \in K : j \in br[c]}
  <2>1. X = {}
    <3> SUFFICES ASSUME X # {} PROVE FALSE
      OBVIOUS
    <3>1. PICK m \in X : Get(t, m, "parent") \notin X
      <4>1. X \in SUBSET L
        BY <1>2
      <4> HIDE DEF X
      <4> QED
        BY <1>1, <4>1 DEF Trunks, Grounded
    <3>2. m \in B \ {g} /\ m \in L /\ Get(t, m, "parent") \in B
      BY <1>2, <1>3
    <3>3. CASE Get(t, m, "parent") = g
      <4>1. m \in K
        BY <3>2, <3>3 DEF K
      <4> QED
        BY <1>5, <4>1
    <3>4. CASE Get(t, m, "parent") # g
      <4>1. PICK c \in K : Get(t, m, "parent") \in br[c]
        BY <3>1, <3>2, <3>4
      <4>2. m \in br[c]
        BY <1>5, <3>2, <4>1 DEF Closed
      <4> QED
        BY <4>2
    <3> QED
      BY <3>3, <3>4
  <2>2. Y = {}
    <3> SUFFICES ASSUME Y # {} PROVE FALSE
      OBVIOUS
    <3>1. PICK m \in Y : Get(t, m, "parent") \notin Y
      <4>1. Y \in SUBSET L
        OBVIOUS
      <4> HIDE DEF Y
      <4> QED
        BY <1>1, <4>1 DEF Trunks, Grounded
    <3>2. PICK c \in K : m \in br[c]
      BY <3>1
    <3>3. m # c
      BY <1>3, <1>4, <1>9, <3>1
    <3>4. Get(t, m, "parent") \in br[c]
      BY <1>5, <3>2, <3>3 DEF Branch, Trunks, Ties
    <3>5. Get(t, m, "parent") \in L \ B
      BY <1>4, <1>5, <3>1, <3>4
    <3> QED
      BY <3>1, <3>4, <3>5
  <2>3. \A c \in K : br[c] \subseteq B
    BY <1>5, <2>2
  <2> QED
    BY <1>5, <2>1, <2>3
<1> DEFINE T == {k \in Nat : k <= n => Sheds(t, run[k], first(k)) /\ Books(run[k], H)}
<1>12. 0 \in T
  <2>1. first(0) = {}
    OBVIOUS
  <2> HIDE DEF first
  <2> QED
    BY <1>1, <1>7, <2>1, ShedsSelf DEF Sound, Destroys
<1>13. ASSUME NEW k \in Nat, k \in T PROVE k + 1 \in T
  <2> SUFFICES ASSUME k + 1 <= n PROVE Sheds(t, run[k + 1], first(k + 1)) /\ Books(run[k + 1], H)
    OBVIOUS
  <2> DEFINE u == run[k]
             j == kids[k + 1]
             C == br[j]
  <2>1. k + 1 \in 1..n /\ (k + 1) - 1 = k /\ k \in 0..n
    BY <1>8
  <2>2. Sheds(t, u, first(k)) /\ Books(u, H)
    BY <1>8, <1>13
  <2>3. u \in Trees /\ run[k + 1] = Destroy(u, j)
    BY <1>7, <2>1 DEF n, Left, Destroys
  <2>4. first(k) \cap C = {} /\ first(k + 1) = first(k) \cup C
    <3>1. \A c \in 1..k : c \in 1..n /\ c # k + 1
      BY <2>1
    <3>2. \A c \in 1..k : br[kids[c]] \cap C = {}
      <4> SUFFICES ASSUME NEW c \in 1..k PROVE br[kids[c]] \cap C = {}
        OBVIOUS
      <4>1. kids[c] \in K /\ j \in K /\ kids[c] # j
        BY <1>8, <2>1, <3>1
      <4> QED
        BY <1>10, <4>1
    <3>3. 1..(k + 1) = 1..k \cup {k + 1}
      BY <2>1
    <3>4. first(k + 1) = first(k) \cup C
      BY <3>3
    <3> QED
      BY <3>2, <3>4
  <2>5. Branch(t, C, j)
    BY <1>5, <1>8, <2>1
  <2> HIDE DEF u, j, C, first
  <2>6. Branch(u, C, j)
    BY <2>2, <2>4, <2>5, BranchStays
  <2>7. Sheds(u, Destroy(u, j), C) /\ Books(Destroy(u, j), H)
    BY <2>2, <2>3, <2>6, DestroyBooks
  <2> QED
    BY <2>2, <2>3, <2>4, <2>7, ShedsTrans
<1>14. Nat \subseteq T
  <2> HIDE DEF T
  <2> QED
    BY <1>12, <1>13, Induct
<1>15. Sheds(t, run[n], first(n)) /\ Books(run[n], H)
  <2>1. n \in T
    <3> HIDE DEF T
    <3> QED
      BY <1>8, <1>14
  <2>2. n <= n
    BY <1>8, <1>14
  <2> QED
    BY <2>1, <2>2, Zenon
<1>16. first(n) = B \ {g}
  <2>1. \A c \in 1..n : kids[c] \in K
    BY <1>8
  <2>2. \A j \in K : \E c \in 1..n : kids[c] = j
    BY <1>8
  <2>3. UNION {br[kids[c]] : c \in 1..n} = UNION {br[j] : j \in K}
    BY <2>1, <2>2
  <2> QED
    BY <1>11, <2>3
<1> DEFINE D == B \ {g}
           v == FoldLeft(Destroy, t, kids)
           w == PutGroup(v, g, "head", None)
           u == PutGroup(w, g, "tail", None)
<1>17. Sheds(t, v, D) /\ Books(v, H) /\ v \in Trees
  BY <1>7, <1>15, <1>16 DEF n, Sheds, Destroys
<1>18. FreeAllAt(t, g) = u
  BY DEF FreeAllAt, kids
<1> HIDE DEF v
<1>19. "head" \in Links /\ "tail" \in Links /\ None \in Link
  BY DEF Links, Link
<1>20. Writes(v, w, g, "head", None, IsGroup(v, g)) /\ w \in Trees
  <2>1. Writes(v, w, g, "head", None, IsGroup(v, g))
    BY <1>17, <1>19, PutGroupLinks, Zenon
  <2> QED
    BY <2>1 DEF Writes, Relinked
<1> HIDE DEF w
<1>21. Writes(w, u, g, "tail", None, IsGroup(w, g))
  BY <1>19, <1>20, PutGroupLinks, Zenon
<1> HIDE DEF u
<1>22. Relinked(v, u) /\ (IsGroup(w, g) <=> IsGroup(v, g))
  <2>1. Relinked(v, w) /\ Relinked(w, u)
    BY <1>20, <1>21 DEF Writes
  <2> QED
    BY <2>1, RelinkedTrans DEF Relinked
<1>23. LiveIn(u) = L \ D /\ LiveIn(v) = L \ D /\ Books(u, H) /\ u \in Trees
  BY <1>17, <1>22, RelinkedLive, RelinkedBooks DEF Sheds, Relinked, L
<1>24. \A j \in L \ D : /\ IsGroup(v, j) <=> IsGroup(t, j)
                        /\ IdOf(v, j) = IdOf(t, j)
                        /\ \A l : Get(v, j, l) = Get(t, j, l)
  BY <1>17, <1>23, ShedsLinks
<1>25. \A j : /\ Get(u, j, "parent") = Get(v, j, "parent")
              /\ Get(u, j, "next") = Get(v, j, "next") /\ Get(u, j, "prev") = Get(v, j, "prev")
              /\ Get(u, j, "head") = IF j = g /\ IsGroup(v, g) THEN None ELSE Get(v, j, "head")
              /\ Get(u, j, "tail") = IF j = g /\ IsGroup(v, g) THEN None ELSE Get(v, j, "tail")
              /\ IsGroup(u, j) <=> IsGroup(v, j)
              /\ IdOf(u, j) = IdOf(v, j)
  <2>1. \A j : /\ Get(u, j, "parent") = Get(w, j, "parent") /\ Get(w, j, "parent") = Get(v, j, "parent")
               /\ Get(u, j, "next") = Get(w, j, "next") /\ Get(w, j, "next") = Get(v, j, "next")
               /\ Get(u, j, "prev") = Get(w, j, "prev") /\ Get(w, j, "prev") = Get(v, j, "prev")
               /\ Get(u, j, "head") = Get(w, j, "head")
               /\ Get(w, j, "head") = IF j = g /\ IsGroup(v, g) THEN None ELSE Get(v, j, "head")
               /\ Get(u, j, "tail") = IF j = g /\ IsGroup(w, g) THEN None ELSE Get(w, j, "tail")
               /\ Get(w, j, "tail") = Get(v, j, "tail")
    BY <1>20, <1>21 DEF Writes, Links
  <2>2. \A j : (IsGroup(u, j) <=> IsGroup(v, j)) /\ IdOf(u, j) = IdOf(v, j)
    BY <1>22 DEF Relinked
  <2> QED
    BY <1>22, <2>1, <2>2
<1>26. ASSUME NEW j \in L \ D
       PROVE  /\ Get(u, j, "head") = IF Get(t, j, "head") \in D THEN None ELSE Get(t, j, "head")
              /\ Get(u, j, "tail") = IF Get(t, j, "tail") \in D THEN None ELSE Get(t, j, "tail")
  <2>1. /\ Get(t, j, "head") \in L \cup {None} /\ Get(t, j, "tail") \in L \cup {None}
        /\ Get(t, j, "head") # None => Get(t, Get(t, j, "head"), "parent") = j /\ IsGroup(t, j)
        /\ Get(t, j, "tail") # None => Get(t, Get(t, j, "tail"), "parent") = j /\ IsGroup(t, j)
    BY <1>1 DEF Ties
  <2>2. CASE j = g
    <3>1. /\ Get(t, j, "head") # None => Get(t, j, "head") \in B /\ Get(t, j, "head") # g
          /\ Get(t, j, "tail") # None => Get(t, j, "tail") \in B /\ Get(t, j, "tail") # g
      BY <1>3, <1>4, <2>1, <2>2
    <3>2. Get(t, g, "head") # None \/ Get(t, g, "tail") # None => IsGroup(v, g)
      BY <1>24, <2>1, <2>2
    <3> QED
      BY <1>1, <1>24, <1>25, <2>2, <3>1, <3>2
  <2>3. CASE j # g
    <3>1. Get(t, j, "head") \notin D /\ Get(t, j, "tail") \notin D
      BY <1>1, <1>3, <2>1, <2>3
    <3> QED
      BY <1>24, <1>25, <2>3, <3>1
  <2> QED
    BY <2>2, <2>3
<1>27. Drops(t, u, D)
  BY <1>23, <1>24, <1>25, <1>26 DEF Drops, L
<1>28. Whole(u, R \ D) /\ R \ D = R
  <2>1. D \in SUBSET L /\ R \ D = R
    BY <1>2
  <2>2. Closed(t, L, D)
    BY <1>3, <1>4 DEF Closed
  <2>3. \A j \in D \ R : \A k \in L : Get(t, k, "parent") = Get(t, j, "parent") => k \in D
    BY <1>3, <1>4
  <2>4. Whole(u, R \ D)
    BY <1>27, <2>1, <2>2, <2>3, DropWhole DEF Sound, L
  <2> QED
    BY <2>1, <2>4
<1>29. IsGroup(u, 0) /\ IdOf(u, 0) = Root
  <2>1. 0 \in L \ D
    BY <1>1, <1>2
  <2> QED
    BY <1>24, <1>25, <2>1 DEF Sound
<1>30. Sound(u, R, H)
  BY <1>1, <1>23, <1>28, <1>29 DEF Sound
<1>31. \A j \in L : g \notin R /\ Get(t, j, "parent") = Get(t, g, "parent") => j \in LiveIn(u)
  BY <1>3, <1>23
<1> QED
  BY <1>18, <1>23, <1>30, <1>31 DEF L

-----------------------------------------------------------------------------
(* The synths below a group.                                               *)

(* The members of a listing that are in a set. *)
LEMMA ThoseList ==
    ASSUME NEW S, NEW s, Lists(s, S), NEW set
    PROVE  Lists(Those(s, set), S \cap set)
<1> DEFINE n == Len(s)
           upto(k) == {s[j] : j \in 1..k}
<1>1. s \in Seq(S) /\ n \in Nat /\ DOMAIN s = 1..n
  BY DEF Lists
<1>2. PICK run : Sieves(run, s, S, set)
  BY <1>1, ThoseRuns
<1>3. \A x : Lists(<<x>>, {x})
  <2> SUFFICES ASSUME NEW x PROVE Lists(<<x>>, {x})
    OBVIOUS
  <2>1. <<x>> \in Seq({x}) /\ DOMAIN <<x>> = {1} /\ <<x>>[1] = x
    OBVIOUS
  <2> QED
    BY <2>1 DEF Lists
<1> DEFINE T == {k \in Nat : k <= n => Lists(run[k], upto(k) \cap set)}
<1>4. 0 \in T
  <2>1. Lists(<<>>, {})
    BY DEF Lists
  <2>2. upto(0) \cap set = {}
    OBVIOUS
  <2> HIDE DEF upto
  <2> QED
    BY <1>2, <2>1, <2>2 DEF Sieves
<1>5. ASSUME NEW k \in Nat, k \in T PROVE k + 1 \in T
  <2> SUFFICES ASSUME k + 1 <= n PROVE Lists(run[k + 1], upto(k + 1) \cap set)
    OBVIOUS
  <2>1. k + 1 \in 1..n /\ (k + 1) - 1 = k /\ s[k + 1] \in S
    BY <1>1
  <2>2. Lists(run[k], upto(k) \cap set)
    BY <1>1, <1>5
  <2>3. upto(k + 1) = upto(k) \cup {s[k + 1]}
    <3>1. 1..(k + 1) = 1..k \cup {k + 1}
      OBVIOUS
    <3> QED
      BY <3>1
  <2>4. s[k + 1] \notin upto(k)
    <3> SUFFICES ASSUME NEW j \in 1..k, s[j] = s[k + 1] PROVE FALSE
      OBVIOUS
    <3>1. j \in DOMAIN s /\ k + 1 \in DOMAIN s /\ j # k + 1
      BY <1>1, <2>1
    <3> QED
      BY <3>1 DEF Lists
  <2> HIDE DEF upto
  <2>5. CASE s[k + 1] \in set
    <3> DEFINE P == upto(k) \cap set
               Q == {s[k + 1]}
    <3>1. run[k + 1] = run[k] \o <<s[k + 1]>>
      BY <1>2, <2>1, <2>5 DEF Sieves
    <3>2. P \cap Q = {} /\ upto(k + 1) \cap set = P \cup Q /\ Lists(<<s[k + 1]>>, Q)
      BY <1>3, <2>3, <2>4, <2>5
    <3> HIDE DEF P, Q
    <3>3. Lists(run[k] \o <<s[k + 1]>>, P \cup Q)
      <4>1. P \in SUBSET (P \cup Q) /\ Q \in SUBSET (P \cup Q) /\ Lists(run[k], P)
        BY <2>2 DEF P
      <4> QED
        BY <3>2, <4>1, ListsTwo
    <3> QED
      BY <3>1, <3>2, <3>3
  <2>6. CASE s[k + 1] \notin set
    <3>1. run[k] \in Seq(upto(k) \cap set)
      BY <2>2 DEF Lists
    <3>2. run[k + 1] = run[k] \o <<>> /\ run[k] \o <<>> = run[k]
      BY <1>2, <2>1, <2>6, <3>1, ConcatEmptySeq DEF Sieves
    <3>3. upto(k + 1) \cap set = upto(k) \cap set
      BY <2>3, <2>6
    <3> QED
      BY <2>2, <3>2, <3>3
  <2> QED
    BY <2>5, <2>6
<1>6. Nat \subseteq T
  <2> HIDE DEF T
  <2> QED
    BY <1>4, <1>5, Induct
<1>7. Lists(run[n], upto(n) \cap set)
  <2>1. n \in T
    <3> HIDE DEF T
    <3> QED
      BY <1>1, <1>6
  <2>2. n <= n
    BY <1>1, <1>6
  <2> QED
    BY <2>1, <2>2, Zenon
<1>8. upto(n) = S
  <2>1. \A x \in S : \E k \in 1..n : s[k] = x
    BY <1>1 DEF Lists
  <2>2. \A k \in 1..n : s[k] \in S
    BY <1>1
  <2> QED
    BY <2>1, <2>2
<1> HIDE DEF upto
<1> QED
  BY <1>2, <1>7, <1>8 DEF Sieves

(* A synth that is freed by itself. *)
LEMMA FreeSynthSound ==
    ASSUME NEW t, NEW R, NEW H, Sound(t, R, H), NEW i \in LiveIn(t) \ R, IsSynth(t, i),
           NEW report \in Info, report.id = IdOf(t, i)
    PROVE  LET u == Remove1(Unlink(t, i), i, report)
           IN /\ Sound(u, R, H)
              /\ LiveIn(u) = LiveIn(t) \ {i}
              /\ \A j \in LiveIn(u) : /\ IsSynth(u, j) <=> IsSynth(t, j)
                                      /\ IdOf(u, j) = IdOf(t, j)
<1> DEFINE w == Unlink(t, i)
           u == Remove1(w, i, report)
           L == LiveIn(t)
           Q == R \cup {i}
<1>1. /\ t \in Trees /\ None \notin L /\ i \in L /\ L \in SUBSET Slot /\ R \in SUBSET L /\ 0 \in R
  BY SoundParts
<1>2. Sound(w, Q, H) /\ Unlinks(t, w, i) /\ LiveIn(w) = L
  BY UnlinkSound
<1>3. Relinked(t, w)
  BY <1>2 DEF Unlinks
<1> HIDE DEF w
<1>4. /\ w \in Trees /\ Books(w, H) /\ Ties(w, L, Q) /\ Whole(w, Q) /\ IsSynth(w, i)
      /\ report.id = IdOf(w, i) /\ \A j \in Q : Get(w, j, "parent") = None
  BY <1>2, <1>3, SoundParts DEF Relinked, Whole
<1>5. Sheds(w, u, {i}) /\ Books(u, H)
  BY <1>1, <1>2, <1>4, Remove1Books
<1> HIDE DEF u
<1>6. LiveIn(u) = L \ {i} /\ u \in Trees
  BY <1>2, <1>5 DEF Sheds
<1>7. \A j \in L \ {i} : Get(w, j, "head") # i /\ Get(w, j, "tail") # i
  BY <1>1, <1>4 DEF Ties
<1>8. Drops(w, u, {i})
  BY <1>2, <1>5, <1>6, <1>7, ShedsLinks DEF Drops
<1>9. Closed(w, L, {i})
  <2> SUFFICES ASSUME NEW j \in L, Get(w, j, "parent") = i PROVE FALSE
    BY DEF Closed
  <2>1. j \notin Q
    BY <1>1, <1>4
  <2>2. IsGroup(w, i)
    BY <1>4, <2>1 DEF Ties
  <2> QED
    BY <1>4, <2>2 DEF IsGroup, IsSynth
<1>10. Whole(u, Q \ {i}) /\ Q \ {i} = R
  <2>1. {i} \in SUBSET L /\ {i} \ Q = {} /\ Q \ {i} = R
    BY <1>1
  <2>2. Whole(u, Q \ {i})
    <3>1. \A j \in {i} \ Q : \A k \in L : Get(w, k, "parent") = Get(w, j, "parent") => k \in {i}
      BY <2>1
    <3> QED
      BY <1>2, <1>4, <1>8, <1>9, <2>1, <3>1, DropWhole
  <2> QED
    BY <2>1, <2>2
<1>11. \A j \in LiveIn(u) : /\ IsSynth(u, j) <=> IsSynth(t, j)
                            /\ IsGroup(u, j) <=> IsGroup(t, j)
                            /\ IdOf(u, j) = IdOf(t, j)
  <2>1. \A j \in LiveIn(u) : /\ IsSynth(u, j) <=> IsSynth(w, j)
                             /\ IsGroup(u, j) <=> IsGroup(w, j)
                             /\ IdOf(u, j) = IdOf(w, j)
    BY <1>5, ShedsLinks
  <2> QED
    BY <1>3, <2>1 DEF Relinked
<1>12. 0 \in LiveIn(u)
  BY <1>1, <1>6
<1>13. Sound(u, R, H)
  BY <1>1, <1>5, <1>6, <1>10, <1>11, <1>12 DEF Sound
<1> QED
  BY <1>6, <1>11, <1>13 DEF u, w

(* The synths below a group are freed. *)
LEMMA DeepFreeSound ==
    ASSUME NEW t, NEW R, NEW H, Sound(t, R, H), NEW g \in LiveIn(t), IsGroup(t, g),
           \A j \in R : IsGroup(t, j)
    PROVE  /\ Sound(DeepFreeGroup(t, g), R, H)
           /\ LiveIn(DeepFreeGroup(t, g)) \subseteq LiveIn(t)
           /\ \A j \in LiveIn(t) : g \notin R /\ Get(t, j, "parent") = Get(t, g, "parent")
                                   => j \in LiveIn(DeepFreeGroup(t, g))
<1> DEFINE L == LiveIn(t)
           seq == Those(PostOrder(t, g), Synths(t))
           n == Len(seq)
           first(k) == {seq[c] : c \in 1..k}
<1>1. t \in Trees /\ L \in SUBSET Slot /\ g \in Slot /\ R \in SUBSET L
  BY SoundParts
<1>2. PICK B \in SUBSET L : Branch(t, B, g) /\ Closed(t, L, B) /\ B \cap R \subseteq {g}
  BY SoundBranch
<1>3. g \in B /\ Get(t, g, "parent") \notin B
  BY <1>2 DEF Branch, Trunks, Ties
<1>4. Lists(seq, B \cap Synths(t))
  BY <1>1, <1>2, PostOrderList, ThoseList
<1>5. PICK run : Silences(run, t, t, seq) /\ DeepFreeGroup(t, g) = run[Len(seq)]
  BY <1>1, LeftSelf, DeepFreeRuns
<1> HIDE DEF seq
<1>6. n \in Nat /\ DOMAIN seq = 1..n
      /\ (\A k \in 1..n : seq[k] \in B \cap Synths(t))
      /\ \A c, d \in 1..n : seq[c] = seq[d] => c = d
  BY <1>4 DEF Lists
<1>7. \A j \in B \cap Synths(t) : j \in L \ R /\ IsSynth(t, j) /\ j # g
  BY <1>2 DEF Synths, IsSynth, IsGroup
<1> DEFINE Good(u, k) == /\ Sound(u, R, H) /\ LiveIn(u) = L \ first(k)
                         /\ \A j \in LiveIn(u) : IsSynth(u, j) <=> IsSynth(t, j)
           T == {k \in Nat : k <= n => Good(run[k], k)}
<1>8. 0 \in T
  <2>1. first(0) = {}
    OBVIOUS
  <2> HIDE DEF first
  <2> QED
    BY <1>5, <2>1 DEF Silences
<1>9. ASSUME NEW k \in Nat, k \in T PROVE k + 1 \in T
  <2> SUFFICES ASSUME k + 1 <= n PROVE Good(run[k + 1], k + 1)
    OBVIOUS
  <2> DEFINE u == run[k]
             j == seq[k + 1]
             w == Remove1(Unlink(u, j), j, Report(u, j))
  <2>1. k + 1 \in 1..n /\ (k + 1) - 1 = k /\ k \in 0..n
    BY <1>6
  <2>2. Sound(u, R, H) /\ LiveIn(u) = L \ first(k) /\ \A x \in LiveIn(u) : IsSynth(u, x) <=> IsSynth(t, x)
    BY <1>6, <1>9
  <2>3. run[k + 1] = w
    BY <1>5, <2>1 DEF Silences
  <2>4. j \notin first(k) /\ first(k + 1) = first(k) \cup {j}
    <3>1. \A c \in 1..k : c \in 1..n /\ c # k + 1
      BY <2>1
    <3>2. 1..(k + 1) = 1..k \cup {k + 1}
      OBVIOUS
    <3> QED
      BY <1>6, <2>1, <3>1, <3>2
  <2>5. j \in L \ R /\ IsSynth(t, j)
    BY <1>6, <1>7, <2>1
  <2> HIDE DEF u, j, first
  <2>6. j \in LiveIn(u) \ R /\ IsSynth(u, j) /\ Report(u, j) \in Info /\ Report(u, j).id = IdOf(u, j)
    BY <2>2, <2>4, <2>5, IdOfName DEF Report, Sound
  <2>7. /\ Sound(w, R, H) /\ LiveIn(w) = LiveIn(u) \ {j}
        /\ \A x \in LiveIn(w) : IsSynth(w, x) <=> IsSynth(u, x)
    BY <2>2, <2>6, FreeSynthSound
  <2> HIDE DEF w
  <2> QED
    BY <2>2, <2>3, <2>4, <2>7
<1>10. Nat \subseteq T
  <2> HIDE DEF T
  <2> QED
    BY <1>8, <1>9, Induct
<1>11. Good(run[n], n)
  <2>1. n \in T
    <3> HIDE DEF T
    <3> QED
      BY <1>6, <1>10
  <2>2. n <= n
    BY <1>6, <1>10
  <2> QED
    BY <2>1, <2>2, Zenon
<1>12. \A j \in first(n) : j \in B /\ j # g
  BY <1>6, <1>7
<1>13. ASSUME NEW j \in L, g \notin R, Get(t, j, "parent") = Get(t, g, "parent") PROVE j \notin first(n)
  <2> SUFFICES ASSUME j \in first(n) PROVE FALSE
    OBVIOUS
  <2>1. j \in B \ {g}
    BY <1>12
  <2>2. Get(t, j, "parent") \in B
    BY <1>2, <2>1 DEF Branch, Trunks, Ties
  <2> QED
    BY <1>3, <1>13, <2>2
<1> HIDE DEF first
<1> QED
  BY <1>5, <1>11, <1>13 DEF Silences

-----------------------------------------------------------------------------
(* The done actions keep the tree sound.                                   *)

(* A tree that reads the same, but for who is paused. *)
LEMMA SameSound ==
    ASSUME NEW t, NEW u, Relinked(t, u), \A j : \A l \in Links : Get(u, j, l) = Get(t, j, l),
           NEW R, NEW H, Sound(t, R, H)
    PROVE  Sound(u, R, H) /\ LiveIn(u) = LiveIn(t)
<1>1. LiveIn(u) = LiveIn(t) /\ Books(u, H)
  BY RelinkedBooks, RelinkedLive DEF Sound
<1>2. Drops(t, u, {})
  BY <1>1 DEF Drops, Relinked, Links
<1>3. Closed(t, LiveIn(t), {}) /\ R \ {} = R /\ {} \in SUBSET LiveIn(t) /\ Whole(t, R)
  BY DEF Closed, Sound
<1>4. Whole(u, R)
  BY <1>2, <1>3, DropWhole
<1> QED
  BY <1>1, <1>4 DEF Sound, Relinked

(* A node that is paused or resumed. *)
LEMMA PausedLinks ==
    ASSUME NEW t \in Trees, NEW i, NEW v \in BOOLEAN
    PROVE  /\ Relinked(t, Put(t, i, "paused", v))
           /\ \A j : \A l \in Links : Get(Put(t, i, "paused", v), j, l) = Get(t, j, l)
<1> DEFINE u == Put(t, i, "paused", v)
<1>1. CASE ~IsLive(t, i)
  <2>1. u = t
    BY <1>1 DEF Put
  <2> HIDE DEF u
  <2>2. Relinked(t, u) /\ \A j : \A l \in Links : Get(u, j, l) = Get(t, j, l)
    BY <2>1, RelinkedSelf
  <2> QED
    BY <2>2 DEF u
<1>2. CASE IsLive(t, i)
  <2> DEFINE node == [t.slots[i] EXCEPT !.paused = v]
  <2>1. i \in Slot /\ t.slots[i] \in Node /\ t.slots \in [Slot -> Node \cup {Free}]
    BY <1>2, LiveIs DEF Trees
  <2>2. node \in Node /\ node.kind = t.slots[i].kind /\ node.id = t.slots[i].id
        /\ \A l \in Links : node[l] = t.slots[i][l]
    BY <2>1 DEF Node, Links
  <2>3. u = [t EXCEPT !.slots = [t.slots EXCEPT ![i] = node]]
    BY <1>2 DEF Put
  <2>4. u \in Trees
    BY LeftSelf, PutLeft DEF Left
  <2> HIDE DEF u, node
  <2>5. /\ u.slots = [t.slots EXCEPT ![i] = node]
        /\ u.free = t.free /\ u.ids = t.ids /\ u.synthCount = t.synthCount /\ u.sink = t.sink
    BY <2>3 DEF Trees
  <2>6. node # Free
    BY <2>2, NodeFacts
  <2>7. \A j \in Slot : u.slots[j] = IF j = i THEN node ELSE t.slots[j]
    BY <2>1, <2>5
  <2>8. \A j : IsLive(u, j) <=> IsLive(t, j)
    BY <1>2, <2>6, <2>7 DEF IsLive
  <2>9. \A j : /\ IsGroup(u, j) <=> IsGroup(t, j)
               /\ IsSynth(u, j) <=> IsSynth(t, j)
               /\ IdOf(u, j) = IdOf(t, j)
    BY <2>2, <2>7, <2>8 DEF IsLive, IsGroup, IsSynth, IdOf
  <2>10. \A j : \A l \in Links : Get(u, j, l) = Get(t, j, l)
    BY <2>2, <2>7, <2>8 DEF IsLive, Get
  <2> QED
    BY <2>4, <2>5, <2>8, <2>9, <2>10 DEF Relinked, u
<1> QED
  BY <1>1, <1>2

(* A node that is paused keeps its links. *)
LEMMA PauseSound ==
    ASSUME NEW t, NEW R, NEW H, Sound(t, R, H), NEW i
    PROVE  Sound(Pause(t, i), R, H) /\ LiveIn(Pause(t, i)) = LiveIn(t)
<1> DEFINE u == Pause(t, i)
<1>1. Relinked(t, u) /\ \A j : \A l \in Links : Get(u, j, l) = Get(t, j, l)
  BY PausedLinks DEF Pause, Sound
<1> HIDE DEF u
<1>2. Sound(u, R, H) /\ LiveIn(u) = LiveIn(t)
  BY <1>1, SameSound
<1> QED
  BY <1>2 DEF u

(* What a done action does to a neighbour, if there is one, leaves its     *)
(* synth alone.                                                            *)
LEMMA FreeIfSound ==
    ASSUME NEW t, NEW R, NEW H, Sound(t, R, H), \A j \in R : IsGroup(t, j),
           NEW i \in LiveIn(t) \ R, NEW link \in {"prev", "next"}
    PROVE  /\ Sound(FreeIf(t, Get(t, i, link)), R, H) /\ i \in LiveIn(FreeIf(t, Get(t, i, link)))
           /\ Sound(FreeAllIf(t, Get(t, i, link)), R, H) /\ i \in LiveIn(FreeAllIf(t, Get(t, i, link)))
           /\ Sound(DeepFreeIf(t, Get(t, i, link)), R, H) /\ i \in LiveIn(DeepFreeIf(t, Get(t, i, link)))
           /\ LiveIn(FreeIf(t, Get(t, i, link))) \subseteq LiveIn(t)
<1> DEFINE L == LiveIn(t)
           j == Get(t, i, link)
<1>1. Ties(t, L, R) /\ Trunks(t, L, R) /\ None \notin L
  BY SoundParts
<1>2. j \in (L \ R) \cup {None} /\ (j # None => j # i /\ Get(t, j, "parent") = Get(t, i, "parent"))
  BY <1>1, NextToNoSelf DEF Ties
<1> HIDE DEF j
<1>3. CASE j = None
  <2>1. FreeIf(t, j) = t /\ ~IsGroup(t, j)
    BY <1>3, NodeFacts DEF FreeIf, IsGroup, IsLive
  <2>2. FreeAllIf(t, j) = t /\ DeepFreeIf(t, j) = t
    BY <2>1 DEF FreeAllIf, DeepFreeIf
  <2> QED
    BY <2>1, <2>2 DEF j
<1>4. CASE j # None
  <2>1. j \in L \ R /\ j # i /\ Get(t, i, "parent") = Get(t, j, "parent")
    BY <1>2, <1>4
  <2>2. FreeIf(t, j) = FreeAt(t, j)
    BY <1>4 DEF FreeIf
  <2>3. Sound(FreeIf(t, j), R, H) /\ i \in LiveIn(FreeIf(t, j)) /\ LiveIn(FreeIf(t, j)) \subseteq L
    BY <2>1, <2>2, FreeAtSound
  <2>4. Sound(FreeAllAt(t, j), R, H) /\ i \in LiveIn(FreeAllAt(t, j))
    BY <2>1, FreeAllAtSound
  <2>5. IsGroup(t, j) => Sound(DeepFreeGroup(t, j), R, H) /\ i \in LiveIn(DeepFreeGroup(t, j))
    BY <2>1, DeepFreeSound
  <2>6. /\ Sound(FreeAllIf(t, j), R, H) /\ i \in LiveIn(FreeAllIf(t, j))
        /\ Sound(DeepFreeIf(t, j), R, H) /\ i \in LiveIn(DeepFreeIf(t, j))
    BY <2>3, <2>4, <2>5 DEF FreeAllIf, DeepFreeIf
  <2> QED
    BY <2>3, <2>6 DEF j
<1> QED
  BY <1>3, <1>4

(* One neighbour after another. *)
LEMMA FreeChainSound ==
    ASSUME NEW t, NEW H, Sound(t, {0}, H), NEW i \in LiveIn(t) \ {0}, NEW link \in {"prev", "next"}
    PROVE  Sound(FreeChain(t, i, link), {0}, H) /\ i \in LiveIn(FreeChain(t, i, link))
<1>1. t \in Trees /\ t \in Left(t) /\ link \in Links /\ MaxNodes \in Nat
  BY SoundParts, LeftSelf, SizeAssumption DEF Links
<1>2. PICK freed : Frees(freed, t, t, i, link)
  BY <1>1, FreeChainRuns
<1> DEFINE T == {k \in Nat : k <= MaxNodes => Sound(freed[k], {0}, H) /\ i \in LiveIn(freed[k])}
<1>3. 0 \in T
  BY <1>2 DEF Frees
<1>4. ASSUME NEW k \in Nat, k \in T PROVE k + 1 \in T
  <2> SUFFICES ASSUME k + 1 <= MaxNodes PROVE Sound(freed[k + 1], {0}, H) /\ i \in LiveIn(freed[k + 1])
    OBVIOUS
  <2> DEFINE u == freed[k]
  <2>1. k + 1 \in 1..MaxNodes /\ (k + 1) - 1 = k /\ k <= MaxNodes
    BY <1>1
  <2>2. Sound(u, {0}, H) /\ i \in LiveIn(u) \ {0}
    BY <1>4, <2>1
  <2>3. freed[k + 1] = FreeIf(u, Get(u, i, link))
    BY <1>2, <2>1 DEF Frees
  <2> HIDE DEF u
  <2>4. \A j \in {0} : IsGroup(u, j)
    BY <2>2 DEF Sound
  <2> QED
    BY <2>2, <2>3, <2>4, FreeIfSound
<1>5. Nat \subseteq T
  <2> HIDE DEF T
  <2> QED
    BY <1>3, <1>4, Induct
<1>6. Sound(freed[MaxNodes], {0}, H) /\ i \in LiveIn(freed[MaxNodes])
  <2>1. MaxNodes \in T /\ MaxNodes <= MaxNodes
    BY <1>1, <1>5
  <2> QED
    BY <2>1, Zenon
<1> QED
  BY <1>2, <1>6 DEF Frees

(* Every done action. *)
LEMMA PerformedSound ==
    ASSUME NEW t, NEW H, Sound(t, {0}, H), NEW i \in LiveIn(t) \ {0}, NEW action \in DoneActions
    PROVE  Sound(Performed(t, i, action), {0}, H)
<1> DEFINE prev == Get(t, i, "prev")
           next == Get(t, i, "next")
           parent == Get(t, i, "parent")
           L == LiveIn(t)
<1>1. \A u : Sound(u, {0}, H) /\ i \in LiveIn(u) => Sound(FreeAt(u, i), {0}, H)
  BY FreeAtSound
<1>2. parent \in L
  BY SoundParts DEF Ties
<1>3. \A j \in {0} : IsGroup(t, j)
  BY DEF Sound
<1>4. /\ Sound(Pause(t, i), {0}, H)
      /\ Sound(Pause(t, prev), {0}, H) /\ i \in LiveIn(Pause(t, prev))
      /\ Sound(Pause(t, next), {0}, H) /\ i \in LiveIn(Pause(t, next))
  BY PauseSound
<1>5. /\ Sound(FreeIf(t, prev), {0}, H) /\ i \in LiveIn(FreeIf(t, prev))
      /\ Sound(FreeAllIf(t, prev), {0}, H) /\ i \in LiveIn(FreeAllIf(t, prev))
      /\ Sound(DeepFreeIf(t, prev), {0}, H) /\ i \in LiveIn(DeepFreeIf(t, prev))
  BY <1>3, FreeIfSound
<1>6. /\ Sound(FreeIf(t, next), {0}, H) /\ i \in LiveIn(FreeIf(t, next))
      /\ Sound(FreeAllIf(t, next), {0}, H) /\ i \in LiveIn(FreeAllIf(t, next))
      /\ Sound(DeepFreeIf(t, next), {0}, H) /\ i \in LiveIn(DeepFreeIf(t, next))
  BY <1>3, FreeIfSound
<1>7. /\ Sound(FreeChain(t, i, "prev"), {0}, H) /\ i \in LiveIn(FreeChain(t, i, "prev"))
      /\ Sound(FreeChain(t, i, "next"), {0}, H) /\ i \in LiveIn(FreeChain(t, i, "next"))
  BY FreeChainSound
<1>8. Sound(FreeAllAt(t, parent), {0}, H)
  BY <1>2, FreeAllAtSound
<1>9. parent \notin {None, 0} => Sound(FreeAt(t, parent), {0}, H)
  BY <1>2, FreeAtSound
<1> HIDE DEF prev, next, parent, L
<1>10. \A x \in DoneActions : x = action => Sound(Performed(t, i, x), {0}, H)
  <2>1. /\ Sound(FreeAt(t, i), {0}, H)
        /\ Sound(FreeAt(FreeIf(t, prev), i), {0}, H) /\ Sound(FreeAt(FreeIf(t, next), i), {0}, H)
        /\ Sound(FreeAt(FreeAllIf(t, prev), i), {0}, H) /\ Sound(FreeAt(FreeAllIf(t, next), i), {0}, H)
        /\ Sound(FreeAt(DeepFreeIf(t, prev), i), {0}, H) /\ Sound(FreeAt(DeepFreeIf(t, next), i), {0}, H)
        /\ Sound(FreeAt(FreeChain(t, i, "prev"), i), {0}, H) /\ Sound(FreeAt(FreeChain(t, i, "next"), i), {0}, H)
        /\ Sound(FreeAt(Pause(t, prev), i), {0}, H) /\ Sound(FreeAt(Pause(t, next), i), {0}, H)
    BY <1>1, <1>4, <1>5, <1>6, <1>7
  <2> QED
    BY <1>4, <1>8, <1>9, <2>1, Zenon DEF Performed, DoneActions, prev, next, parent
<1> QED
  BY <1>10

-----------------------------------------------------------------------------
(* The places of a tree.                                                   *)

(* A group has a first child if it has a last one. *)
LEMMA EndsAgree ==
    ASSUME NEW t, NEW S, NEW R, Trunks(t, S, R), NEW g \in S
    PROVE  (Get(t, g, "head") = None) <=> (Get(t, g, "tail") = None)
<1> DEFINE K == {j \in S : Get(t, j, "parent") = g}
           h == Get(t, g, "head")
           l == Get(t, g, "tail")
<1>1. Ties(t, S, R) /\ S \in SUBSET Slot /\ None \notin S /\ K \in SUBSET S
  BY NodeFacts DEF Trunks, Ties
<1>2. \A j \in K : j \in S \ R /\ Get(t, j, "parent") = g
  BY <1>1 DEF Ties
<1>3. /\ h # None => h \in K /\ Get(t, h, "prev") = None
      /\ l # None => l \in K
  BY <1>1 DEF Ties
<1>4. ASSUME h = None, l # None PROVE FALSE
  <2>1. \A j \in K : Get(t, j, "prev") \in K
    BY <1>1, <1>2, <1>4 DEF Ties
  <2>2. K # {}
    BY <1>3, <1>4
  <2> HIDE DEF K
  <2>3. PICK m \in K : Get(t, m, "parent") \notin K /\ (m \in R \/ Get(t, m, "prev") \notin K)
    BY <1>1, <2>2, Zenon DEF Trunks, Grounded
  <2> QED
    BY <1>2, <2>1, <2>3
<1>5. ASSUME h # None, l = None PROVE FALSE
  <2> DEFINE f == [j \in K |-> Get(t, j, "next")]
             D == K \ {h}
  <2>1. \A j \in K : /\ Get(t, j, "next") \in K
                     /\ Get(t, Get(t, j, "next"), "prev") = j
    BY <1>1, <1>2, <1>5 DEF Ties
  <2>2. f \in [K -> D]
    BY <1>1, <1>2, <1>3, <1>5, <2>1
  <2>3. IsFiniteSet(K) /\ h \in K
    BY <1>1, <1>3, <1>5, SlotCount, FS_Subset
  <2> HIDE DEF h, K, f
  <2>4. IsFiniteSet(D) /\ Cardinality(D) < Cardinality(K)
    <3>1. IsFiniteSet(K \ {h}) /\ Cardinality(K \ {h}) = Cardinality(K) - 1
      BY <2>3, FS_RemoveElement, Zenon
    <3>2. Cardinality(K) \in Nat
      BY <2>3, FS_CardinalityType
    <3> QED
      BY <3>1, <3>2
  <2> HIDE DEF D
  <2>5. \E x, y \in K : x # y /\ f[x] = f[y]
    BY <2>2, <2>3, <2>4, FS_PigeonHole
  <2>6. \A x \in K : f[x] = Get(t, x, "next")
    BY DEF f
  <2> QED
    BY <2>1, <2>5, <2>6
<1> QED
  BY <1>4, <1>5

(* The places a command may name. *)
LEMMA GapsFound ==
    ASSUME NEW t, NEW R, Whole(t, R), NEW at \in LiveIn(t)
    PROVE  /\ IsGroup(t, at) => /\ Gap(t, R, at, None, Get(t, at, "head"))
                                /\ Gap(t, R, at, Get(t, at, "tail"), None)
           /\ at \notin R =>
                 /\ Gap(t, R, Get(t, at, "parent"), Get(t, at, "prev"), at)
                 /\ Gap(t, R, Get(t, at, "parent"), at, Get(t, at, "next"))
<1> DEFINE L == LiveIn(t)
<1>1. Ties(t, L, R) /\ Trunks(t, L, R) /\ None \notin L
  BY NodeFacts DEF Whole, Trunks, LiveIn
<1>2. (Get(t, at, "head") = None) <=> (Get(t, at, "tail") = None)
  BY <1>1, EndsAgree
<1>3. IsGroup(t, at) => /\ Gap(t, R, at, None, Get(t, at, "head"))
                        /\ Gap(t, R, at, Get(t, at, "tail"), None)
  BY <1>1, <1>2 DEF Ties, Gap
<1>4. at \notin R => /\ Gap(t, R, Get(t, at, "parent"), Get(t, at, "prev"), at)
                     /\ Gap(t, R, Get(t, at, "parent"), at, Get(t, at, "next"))
  BY <1>1 DEF Ties, Gap
<1> QED
  BY <1>3, <1>4

(* The place that a node has left. *)
LEMMA UnlinkGap ==
    ASSUME NEW t, NEW u, NEW R, Whole(t, R), NEW i \in LiveIn(t) \ R, Unlinks(t, u, i)
    PROVE  Gap(u, R \cup {i}, Get(t, i, "parent"), Get(t, i, "prev"), Get(t, i, "next"))
<1> DEFINE L == LiveIn(t)
           p == Get(t, i, "parent")
           a == Get(t, i, "prev")
           b == Get(t, i, "next")
<1>1. LiveIn(u) = L /\ Ties(t, L, R) /\ Trunks(t, L, R) /\ None \notin L /\ i \in L
  BY RelinkedLive, NodeFacts DEF Unlinks, Whole, Trunks, Ties
<1>2. p # i /\ a # i /\ b # i
  BY <1>1, NextToNoSelf
<1>3. \A j \in L : IsLive(t, j) /\ (IsGroup(u, j) <=> IsGroup(t, j))
  BY <1>1 DEF Unlinks, Relinked, LiveIn
<1>4. /\ p \in L /\ IsGroup(t, p) /\ a \in (L \ R) \cup {None} /\ b \in (L \ R) \cup {None}
      /\ b # None => Get(t, b, "prev") = i /\ Get(t, b, "parent") = p
      /\ a # None => Get(t, a, "next") = i /\ Get(t, a, "parent") = p
      /\ b = None => Get(t, p, "tail") = i
      /\ a = None => Get(t, p, "head") = i
  BY <1>1 DEF Ties
<1>5. \A j :
          /\ Get(u, j, "parent") = IF j = i THEN None ELSE Get(t, j, "parent")
          /\ Get(u, j, "next") = IF j = i THEN None
                                 ELSE IF j = a /\ IsLive(t, j) THEN b ELSE Get(t, j, "next")
          /\ Get(u, j, "prev") = IF j = i THEN None
                                 ELSE IF j = b /\ IsLive(t, j) THEN a ELSE Get(t, j, "prev")
          /\ Get(u, j, "head") = IF j = p /\ IsGroup(t, j) /\ Get(t, j, "head") = i THEN b ELSE Get(t, j, "head")
          /\ Get(u, j, "tail") = IF j = p /\ IsGroup(t, j) /\ Get(t, j, "tail") = i THEN a ELSE Get(t, j, "tail")
  BY DEF Unlinks
<1> HIDE DEF p, a, b, L
<1>6. /\ a = None => Get(u, p, "head") = b
      /\ b = None => Get(u, p, "tail") = a
      /\ a # None => Get(u, a, "parent") = p /\ Get(u, a, "next") = b
      /\ b # None => Get(u, b, "parent") = p /\ Get(u, b, "prev") = a
  BY <1>2, <1>3, <1>4, <1>5
<1>7. Gap(u, R \cup {i}, p, a, b)
  BY <1>1, <1>2, <1>3, <1>4, <1>6 DEF Gap
<1> QED
  BY <1>7 DEF p, a, b

(* A node without a place takes one. *)
LEMMA InsertSound ==
    ASSUME NEW t, NEW R, NEW H, NEW i, i \notin R, 0 \in R, Sound(t, R \cup {i}, H),
           NEW B \in SUBSET LiveIn(t), Branch(t, B, i), Closed(t, LiveIn(t), B),
           NEW g, g \notin B, NEW prev, NEW next, Gap(t, R \cup {i}, g, prev, next)
    PROVE  Sound(Insert(t, i, g, prev, next), R, H)
<1> DEFINE u == Insert(t, i, g, prev, next)
           L == LiveIn(t)
<1>1. t \in Trees /\ None \notin L /\ L \in SUBSET Slot /\ i \in L /\ Whole(t, R \cup {i}) /\ Books(t, H)
  BY SoundParts
<1>2. /\ g \in L /\ prev \in L \cup {None} /\ next \in L \cup {None} /\ prev # i /\ next # i
  BY <1>1 DEF Gap
<1>3. i \in Slot /\ IsLive(t, i) /\ g \in Slot /\ prev \in Link /\ next \in Link
  BY <1>1, <1>2 DEF LiveIn, Link
<1>4. Inserts(t, u, i, g, prev, next)
  BY <1>1, <1>2, <1>3, InsertLinks
<1> HIDE DEF u
<1>5. Relinked(t, u)
  BY <1>4 DEF Inserts
<1>6. Whole(u, R)
  BY <1>1, <1>4, InsertWhole
<1>7. Books(u, H)
  BY <1>1, <1>5, RelinkedBooks
<1>8. Sound(u, R, H)
  BY <1>5, <1>6, <1>7 DEF Sound, Relinked
<1> QED
  BY <1>8 DEF u

(* It takes the place that a command names. *)
LEMMA LinkAtSound ==
    ASSUME NEW t, NEW H, NEW i, i # 0, Sound(t, {0} \cup {i}, H),
           NEW B \in SUBSET LiveIn(t), Branch(t, B, i), Closed(t, LiveIn(t), B),
           NEW target, NEW where \in Wheres, Resolves(t, target, where),
           DestGroup(t, target, where) \notin B
    PROVE  Sound(LinkAt(t, i, target, where), {0}, H)
<1> DEFINE at == t.ids[target]
           g == DestGroup(t, target, where)
           L == LiveIn(t)
           Q == {0} \cup {i}
<1>1. Whole(t, Q) /\ Books(t, H) /\ target \in DOMAIN t.ids
  BY SoundParts DEF Resolves
<1>2. at \in L
  BY <1>1 DEF Books
<1>3. /\ where \in {"head", "tail"} => g = at /\ IsGroup(t, at)
      /\ where \in {"before", "after"} => g = Get(t, at, "parent") /\ at \notin Q
  BY <1>1 DEF DestGroup, Resolves, Whole, Wheres
<1> HIDE DEF at, g, Q
<1>4. /\ where = "head" => Gap(t, Q, g, None, Get(t, g, "head"))
      /\ where = "tail" => Gap(t, Q, g, Get(t, g, "tail"), None)
      /\ where = "before" => Gap(t, Q, g, Get(t, at, "prev"), at)
      /\ where = "after" => Gap(t, Q, g, at, Get(t, at, "next"))
  BY <1>1, <1>2, <1>3, GapsFound
<1>5. ASSUME NEW prev, NEW next, Gap(t, Q, g, prev, next)
      PROVE  Sound(Insert(t, i, g, prev, next), {0}, H)
  <2>1. i \notin {0} /\ 0 \in {0} /\ g \notin B
    BY DEF g
  <2> QED
    BY <1>5, <2>1, InsertSound DEF Q
<1>6. /\ where = "head" => Sound(Insert(t, i, g, None, Get(t, g, "head")), {0}, H)
      /\ where = "tail" => Sound(Insert(t, i, g, Get(t, g, "tail"), None), {0}, H)
      /\ where = "before" => Sound(Insert(t, i, g, Get(t, at, "prev"), at), {0}, H)
      /\ where = "after" => Sound(Insert(t, i, g, at, Get(t, at, "next")), {0}, H)
  BY <1>4, <1>5
<1> QED
  BY <1>6, Zenon DEF LinkAt, Wheres, at, g

-----------------------------------------------------------------------------
(* A slot is popped and taken.                                             *)

(* Trees with the same slots read the same. *)
LEMMA SameSlots ==
    ASSUME NEW t, NEW u, u.slots = t.slots
    PROVE  /\ LiveIn(u) = LiveIn(t) /\ Synths(u) = Synths(t)
           /\ \A j : /\ IsLive(u, j) <=> IsLive(t, j)
                     /\ IsGroup(u, j) <=> IsGroup(t, j)
                     /\ IsSynth(u, j) <=> IsSynth(t, j)
                     /\ IdOf(u, j) = IdOf(t, j)
                     /\ \A l : Get(u, j, l) = Get(t, j, l)
           /\ \A R : Whole(t, R) => Whole(u, R)
<1>1. /\ \A j : /\ IsLive(u, j) <=> IsLive(t, j)
                /\ IsGroup(u, j) <=> IsGroup(t, j)
                /\ IsSynth(u, j) <=> IsSynth(t, j)
                /\ IdOf(u, j) = IdOf(t, j)
                /\ \A l : Get(u, j, l) = Get(t, j, l)
  BY DEF IsLive, IsGroup, IsSynth, IdOf, Get
<1>2. LiveIn(u) = LiveIn(t) /\ Synths(u) = Synths(t)
  BY <1>1 DEF LiveIn, Synths
<1>3. ASSUME NEW R, Whole(t, R) PROVE Whole(u, R)
  <2>1. Drops(t, u, {})
    BY <1>1, <1>2 DEF Drops
  <2>2. Closed(t, LiveIn(t), {}) /\ R \ {} = R /\ {} \in SUBSET LiveIn(t)
    BY DEF Closed
  <2> QED
    BY <1>3, <2>1, <2>2, DropWhole
<1> QED
  BY <1>1, <1>2, <1>3

(* The last slot of the free list is taken off it. *)
LEMMA PopSound ==
    ASSUME NEW t, NEW R, Sound(t, R, {}), t.free # <<>>, t.sink = <<>>
    PROVE  /\ Sound(Popped(t), R, {Last(t.free)}) /\ Last(t.free) \in Slot \ LiveIn(t)
           /\ Popped(t).slots = t.slots /\ Popped(t).ids = t.ids
<1> DEFINE u == Popped(t)
           i == Last(t.free)
           L == LiveIn(t)
           S == Slot \ L
           n == Len(t.free)
<1>1. t \in Trees /\ Whole(t, R) /\ Books(t, {}) /\ L \in SUBSET Slot /\ R \in SUBSET L /\ 0 \in R
  BY SoundParts
<1>2. Lists(t.free, S)
  <2>1. Slot \ (L \cup {}) = S
    OBVIOUS
  <2> QED
    BY <1>1, <2>1 DEF Books
<1>3. /\ t.free \in Seq(S) /\ n \in Nat /\ n >= 1 /\ DOMAIN t.free = 1..n /\ i = t.free[n]
      /\ \A k \in 1..n : t.free[k] \in S
      /\ \A x \in S : \E k \in 1..n : t.free[k] = x
      /\ \A c, d \in 1..n : t.free[c] = t.free[d] => c = d
  BY <1>2 DEF Lists, Last
<1>4. u \in Trees /\ u.ids = t.ids
  BY <1>1, PoppedTree
<1>5. u.slots = t.slots /\ u.free = Front(t.free) /\ u.synthCount = t.synthCount /\ u.sink = <<>>
  BY <1>1 DEF Popped, Trees
<1> HIDE DEF u
<1>6. u.free = [k \in 1..(n - 1) |-> t.free[k]]
  BY <1>3, <1>5 DEF Front
<1>7. Lists(u.free, S \ {i})
  <2>1. \A k \in 1..(n - 1) : k \in 1..n /\ k # n
    BY <1>3
  <2>2. \A k \in 1..n : k # n => k \in 1..(n - 1)
    BY <1>3
  <2>3. n \in 1..n /\ n - 1 \in Nat
    BY <1>3
  <2>4. \A k \in 1..(n - 1) : u.free[k] = t.free[k] /\ u.free[k] \in S \ {i}
    BY <1>3, <1>6, <2>1, <2>3
  <2>5. DOMAIN u.free = 1..(n - 1) /\ u.free \in Seq(S \ {i})
    <3> DEFINE m == n - 1
               f == u.free
               D == S \ {i}
    <3>1. m \in Nat /\ f = [k \in 1..m |-> f[k]] /\ \A k \in 1..m : f[k] \in D
      BY <1>6, <2>3, <2>4
    <3> HIDE DEF m, f, D
    <3>2. f \in Seq(D) /\ DOMAIN f = 1..m
      BY <3>1
    <3> QED
      BY <3>2 DEF m, f, D
  <2>6. \A x \in S \ {i} : \E k \in 1..(n - 1) : u.free[k] = x
    BY <1>3, <2>2, <2>4
  <2>7. \A c, d \in 1..(n - 1) : u.free[c] = u.free[d] => c = d
    BY <1>3, <2>1, <2>4
  <2> QED
    BY <2>5, <2>6, <2>7 DEF Lists
<1>8. i \in S
  BY <1>3
<1>9. /\ LiveIn(u) = L /\ Synths(u) = Synths(t) /\ Whole(u, R)
      /\ \A j : (IsGroup(u, j) <=> IsGroup(t, j)) /\ IdOf(u, j) = IdOf(t, j)
  BY <1>1, <1>5, SameSlots
<1>10. Books(u, {i})
  <2>1. Slot \ (L \cup {i}) = S \ {i}
    OBVIOUS
  <2>2. Len(u.sink) <= Len(u.free)
    <3>1. Len(u.free) \in Nat /\ Len(<<>>) = 0
      BY <1>7 DEF Lists
    <3> QED
      BY <1>5, <3>1
  <2> QED
    BY <1>1, <1>4, <1>5, <1>7, <1>8, <1>9, <2>1, <2>2 DEF Books
<1>11. Sound(u, R, {i})
  BY <1>1, <1>4, <1>9, <1>10 DEF Sound
<1> QED
  BY <1>4, <1>5, <1>8, <1>11 DEF u

(* A new node is written into it. *)
Occupies(t, u, R, i) ==
    /\ Sound(u, R \cup {i}, {}) /\ i \notin LiveIn(t) /\ LiveIn(u) = LiveIn(t) \cup {i}
    /\ \A j \in LiveIn(t) : /\ IsGroup(u, j) <=> IsGroup(t, j)
                            /\ \A l \in Links : Get(u, j, l) = Get(t, j, l)
    /\ \A l \in Links : Get(u, i, l) = None
    /\ \A n \in DOMAIN t.ids : n \in DOMAIN u.ids /\ u.ids[n] = t.ids[n]
    /\ Branch(u, {i}, i) /\ Closed(u, LiveIn(u), {i})

(* Occupy writes it, a branch and a trunk of its own. *)
LEMMA OccupySound ==
    ASSUME NEW t, NEW R, NEW i, Sound(t, R, {i}), NEW id \in NodeId \ DOMAIN t.ids, NEW kind \in Kinds
    PROVE  Occupies(t, Occupy(t, i, id, kind), R, i)
<1> DEFINE u == Occupy(t, i, id, kind)
           L == LiveIn(t)
           node == NewNode(id, kind)
           Q == R \cup {i}
<1>1. /\ t \in Trees /\ Whole(t, R) /\ Books(t, {i}) /\ L \in SUBSET Slot /\ R \in SUBSET L /\ 0 \in R
      /\ None \notin Slot /\ Ties(t, L, R)
  BY SoundParts, NodeFacts
<1>2. i \in Slot \ L
  BY <1>1 DEF Books
<1>3. u \in Trees /\ DOMAIN u.ids = DOMAIN t.ids \cup {id}
  BY <1>1, <1>2, OccupyTree
<1>4. /\ u.slots = [t.slots EXCEPT ![i] = node]
      /\ u.free = t.free /\ u.sink = t.sink
      /\ u.ids = [n \in DOMAIN t.ids \cup {id} |-> IF n = id THEN i ELSE t.ids[n]]
      /\ u.synthCount = (IF kind = "synth" THEN t.synthCount + 1 ELSE t.synthCount)
  BY <1>1 DEF Occupy, Trees
<1>5. /\ node.kind = kind /\ node.id = id /\ node # Free
      /\ \A l \in Links : node[l] = None
  BY DEF NewNode, Free, Links
<1> HIDE DEF u, node
<1>6. \A j \in Slot : u.slots[j] = IF j = i THEN node ELSE t.slots[j]
  BY <1>1, <1>2, <1>4 DEF Trees
<1>7. \A j : IsLive(u, j) <=> IsLive(t, j) \/ j = i
  BY <1>2, <1>5, <1>6 DEF IsLive
<1>8. LiveIn(u) = L \cup {i}
  BY <1>2, <1>7 DEF LiveIn
<1>9. \A j \in L : j # i /\ IsLive(t, j) /\ IsLive(u, j) /\ u.slots[j] = t.slots[j]
  BY <1>1, <1>2, <1>6, <1>7 DEF LiveIn
<1>10. \A j \in L : /\ IsGroup(u, j) <=> IsGroup(t, j)
                    /\ IsSynth(u, j) <=> IsSynth(t, j)
                    /\ IdOf(u, j) = IdOf(t, j)
                    /\ \A l : Get(u, j, l) = Get(t, j, l)
  BY <1>9 DEF IsGroup, IsSynth, IdOf, Get
<1>11. /\ IsLive(u, i) /\ IdOf(u, i) = id /\ (IsSynth(u, i) <=> kind = "synth")
       /\ \A l \in Links : Get(u, i, l) = None
  BY <1>2, <1>5, <1>6, <1>7 DEF IsLive, IdOf, IsSynth, Get
<1>12. Adds(t, u, i)
  BY <1>8, <1>10, <1>11 DEF Adds
<1>13. Whole(u, Q)
  BY <1>1, <1>2, <1>12, AddWhole
<1>14. Synths(u) = IF kind = "synth" THEN Synths(t) \cup {i} ELSE Synths(t)
  <2>1. \A j : IsSynth(u, j) => j \in L \cup {i}
    BY <1>8 DEF IsSynth, IsLive, LiveIn
  <2>2. \A j : IsSynth(t, j) => j \in L
    BY DEF IsSynth, IsLive, LiveIn
  <2>3. \A j : IsSynth(u, j) <=> IsSynth(t, j) \/ (j = i /\ kind = "synth")
    BY <1>2, <1>10, <1>11, <2>1, <2>2
  <2> QED
    BY <1>2, <2>3 DEF Synths
<1>15. u.synthCount = Cardinality(Synths(u))
  <2>1. t.synthCount = Cardinality(Synths(t)) /\ IsFiniteSet(Synths(t)) /\ i \notin Synths(t)
    <3>1. Synths(t) \in SUBSET Slot /\ i \notin Synths(t)
      BY <1>2 DEF Synths, IsSynth, LiveIn
    <3> QED
      BY <1>1, <3>1, SlotCount DEF Books
  <2>2. Cardinality(Synths(t) \cup {i}) = Cardinality(Synths(t)) + 1
    BY <2>1, FS_AddElement
  <2> QED
    BY <1>4, <1>14, <2>1, <2>2
<1>16. \A n \in DOMAIN t.ids : n # id /\ n \in DOMAIN u.ids /\ u.ids[n] = t.ids[n]
  BY <1>3, <1>4
<1>17. id \in DOMAIN u.ids /\ u.ids[id] = i
  BY <1>3, <1>4
<1>18. Books(u, {})
  <2>1. {} \in SUBSET (Slot \ LiveIn(u)) /\ Lists(u.free, Slot \ (LiveIn(u) \cup {}))
    <3>1. Slot \ (LiveIn(u) \cup {}) = Slot \ (L \cup {i})
      BY <1>8
    <3> QED
      BY <1>1, <1>4, <3>1 DEF Books
  <2>2. \A j \in LiveIn(u) : IdOf(u, j) \in DOMAIN u.ids /\ u.ids[IdOf(u, j)] = j
    BY <1>1, <1>8, <1>10, <1>11, <1>16, <1>17 DEF Books
  <2>3. \A n \in DOMAIN u.ids : u.ids[n] \in LiveIn(u) /\ IdOf(u, u.ids[n]) = n
    BY <1>1, <1>3, <1>8, <1>10, <1>11, <1>16, <1>17 DEF Books
  <2>4. Len(u.sink) <= Len(u.free)
    BY <1>1, <1>4 DEF Books
  <2> QED
    BY <1>15, <2>1, <2>2, <2>3, <2>4 DEF Books
<1>19. Sound(u, Q, {})
  BY <1>1, <1>3, <1>10, <1>13, <1>18 DEF Sound
<1>20. Branch(u, {i}, i)
  <2>1. /\ Get(u, i, "head") = None /\ Get(u, i, "tail") = None /\ Get(u, i, "parent") = None
        /\ None # i
    BY <1>1, <1>2, <1>11 DEF Links
  <2>2. Ties(u, {i}, {i})
    BY <1>2, <1>11, <2>1 DEF Ties
  <2>3. Grounded(u, {i}, {i})
    <3> SUFFICES ASSUME NEW X \in SUBSET {i}, X # {}
                 PROVE  \E m \in X : Get(u, m, "parent") \notin X /\ (m \in {i} \/ Get(u, m, "prev") \notin X)
      BY DEF Grounded
    <3>1. i \in X /\ None \notin X
      BY <2>1
    <3> QED
      BY <2>1, <3>1
  <2> QED
    BY <2>2, <2>3 DEF Branch, Trunks
<1>21. Closed(u, LiveIn(u), {i})
  <2> SUFFICES ASSUME NEW j \in L, Get(u, j, "parent") = i PROVE FALSE
    BY <1>8 DEF Closed
  <2>1. Get(t, j, "parent") = i
    BY <1>10
  <2>2. Get(t, j, "parent") \in L \cup {None}
    BY <1>1 DEF Ties, Whole
  <2> QED
    BY <1>1, <1>2, <2>1, <2>2
<1>22. Occupies(t, u, R, i)
  BY <1>2, <1>8, <1>10, <1>11, <1>16, <1>19, <1>20, <1>21 DEF Occupies
<1> QED
  BY <1>22 DEF u

-----------------------------------------------------------------------------
(* What is within what.                                                    *)

(* The line of parents of a node.                                          *)
Ascends(up, t, i) ==
    /\ up \in [0..MaxNodes -> Link]
    /\ up[0] = i /\ \A k \in 1..MaxNodes : up[k] = Get(t, up[k - 1], "parent")
    /\ \A top : IsWithin(t, i, top) <=> \E k \in 0..MaxNodes : up[k] = top
LEMMA WithinRuns ==
    ASSUME NEW t \in Trees, NEW i \in Link
    PROVE  \E up : Ascends(up, t, i)
<1> DEFINE n == MaxNodes
           step == [p \in (1..n) \X Link |-> Get(t, p[2], "parent")]
           body(g) == [k \in 0..n |-> IF k = 0 THEN i ELSE Get(t, g[k - 1], "parent")]
           up == CHOOSE g : g = body(g)
<1>1. n \in Nat /\ \A v : Get(t, v, "parent") \in Link
  BY SizeAssumption, GetLink DEF Links
<1>2. step \in [(1..n) \X Link -> Link]
  BY <1>1
<1> HIDE DEF n
<1>3. PICK g \in [0..n -> Link] : Recurs(g, n, step, i)
  <2> HIDE DEF step
  <2> QED
    BY <1>1, <1>2, RecursionExists
<1>4. g = body(g)
  <2>1. \A k \in 0..n : k # 0 => k \in 1..n /\ k - 1 \in 0..n
    BY <1>1
  <2>2. \A k \in 0..n : g[k] = IF k = 0 THEN i ELSE Get(t, g[k - 1], "parent")
    <3> SUFFICES ASSUME NEW k \in 0..n PROVE g[k] = IF k = 0 THEN i ELSE Get(t, g[k - 1], "parent")
      OBVIOUS
    <3>1. g[k] = IF k = 0 THEN i ELSE step[<<k, g[k - 1]>>]
      BY <1>3 DEF Recurs
    <3>2. k # 0 => <<k, g[k - 1]>> \in (1..n) \X Link
      BY <1>3, <2>1
    <3> QED
      BY <3>1, <3>2
  <2> HIDE DEF step
  <2> QED
    BY <1>3, <2>2
<1>5. up = body(up)
  <2> HIDE DEF body
  <2> QED
    BY <1>4
<1> HIDE DEF up
<1>6. up[0] = i /\ \A k \in 1..n : up[k] = Get(t, up[k - 1], "parent")
  <2>1. 0 \in 0..n /\ \A k \in 1..n : k \in 0..n /\ k # 0
    BY <1>1
  <2>2. \A k \in 0..n : up[k] = IF k = 0 THEN i ELSE Get(t, up[k - 1], "parent")
    BY <1>5
  <2> QED
    BY <2>1, <2>2
<1>7. \A k \in 0..n : up[k] \in Link
  <2>1. \A k \in 1..n : up[k - 1] \in Link => up[k] \in Link
    BY <1>1, <1>6
  <2> QED
    BY <1>1, <1>6, <2>1, RecursionStays
<1>8. up \in [0..MaxNodes -> Link]
  <2>1. up = [k \in 0..n |-> up[k]]
    BY <1>5
  <2> QED
    BY <1>7, <2>1 DEF n
<1>9. \A top : IsWithin(t, i, top) <=> \E k \in 0..MaxNodes : up[k] = top
  BY DEF IsWithin, up, n
<1> QED
  BY <1>6, <1>8, <1>9 DEF n, Ascends

(* What is in the branch of a node is within it. *)
LEMMA BranchWithin ==
    ASSUME NEW t \in Trees, NEW u, NEW B, NEW i, Branch(u, B, i), NEW j \in B,
           \A x \in B \ {i} : Get(t, x, "parent") = Get(u, x, "parent")
    PROVE  IsWithin(t, j, i)
<1>1. Ties(u, B, {i}) /\ Grounded(u, B, {i}) /\ i \in B /\ B \in SUBSET Slot
  BY DEF Branch, Trunks, Ties
<1>2. PICK up : Ascends(up, t, j)
  <2>1. j \in Link
    BY <1>1 DEF Link
  <2> QED
    BY <2>1, WithinRuns
<1>3. MaxNodes \in Nat
  BY SizeAssumption
<1> SUFFICES ASSUME \A k \in 0..MaxNodes : up[k] # i PROVE FALSE
  BY <1>2 DEF Ascends
<1>4. \A x \in B \ {i} : Get(t, x, "parent") \in B
  BY <1>1 DEF Ties
<1>5. \A k \in 0..MaxNodes : up[k] \in B
  <2>1. \A k \in 1..MaxNodes : up[k - 1] \in B => up[k] \in B
    <3> SUFFICES ASSUME NEW k \in 1..MaxNodes, up[k - 1] \in B PROVE up[k] \in B
      OBVIOUS
    <3>1. k - 1 \in 0..MaxNodes
      BY <1>3
    <3> QED
      BY <1>2, <1>4, <3>1 DEF Ascends
  <2> QED
    BY <1>2, <1>3, <2>1, RecursionStays DEF Ascends
<1>6. \E x, y \in 0..MaxNodes : x # y /\ up[x] = up[y]
  <2> DEFINE I == 0..MaxNodes
  <2>1. IsFiniteSet(I) /\ Cardinality(I) = MaxNodes + 1
    BY <1>3, FS_Interval
  <2>2. IsFiniteSet(B) /\ Cardinality(B) \in Nat /\ Cardinality(B) <= MaxNodes
    BY <1>1, SlotCount
  <2>3. Cardinality(B) < Cardinality(I) /\ up \in [I -> B]
    BY <1>2, <1>3, <1>5, <2>1, <2>2 DEF Ascends
  <2> HIDE DEF I
  <2>4. \E x, y \in I : x # y /\ up[x] = up[y]
    BY <2>1, <2>2, <2>3, FS_PigeonHole
  <2> QED
    BY <2>4 DEF I
<1>7. \E x, y \in 0..MaxNodes : x < y /\ up[x] = up[y]
  BY <1>3, <1>6
<1>8. PICK x \in 0..MaxNodes : \E y \in 0..MaxNodes : x < y /\ up[x] = up[y]
  BY <1>7
<1>9. PICK y \in 0..MaxNodes : x < y /\ up[x] = up[y]
  BY <1>8
<1> DEFINE X == {up[k] : k \in x..(y - 1)}
<1>10. ASSUME NEW m \in X PROVE m \in B /\ Get(u, m, "parent") \in X
  <2>1. PICK k \in x..(y - 1) : m = up[k]
    OBVIOUS
  <2>2. k \in 0..MaxNodes /\ k + 1 \in 1..MaxNodes /\ (k + 1) - 1 = k
    BY <1>3, <1>9
  <2>3. m \in B \ {i} /\ up[k + 1] = Get(t, m, "parent")
    BY <1>2, <1>5, <2>1, <2>2 DEF Ascends
  <2>4. CASE k + 1 = y
    <3>1. x \in x..(y - 1)
      BY <1>9
    <3> QED
      BY <1>9, <2>3, <2>4, <3>1
  <2>5. CASE k + 1 # y
    <3>1. k + 1 \in x..(y - 1)
      BY <1>9, <2>2, <2>5
    <3> QED
      BY <2>3, <3>1
  <2> QED
    BY <2>4, <2>5
<1>11. X # {} /\ X \in SUBSET B
  <2>1. x \in x..(y - 1)
    BY <1>9
  <2> QED
    BY <1>10, <2>1
<1> HIDE DEF X
<1>12. PICK m \in X : Get(u, m, "parent") \notin X
  BY <1>1, <1>11 DEF Grounded
<1> QED
  BY <1>10, <1>12

(* What is within a node is in its branch. *)
LEMMA WithinBranch ==
    ASSUME NEW t \in Trees, NEW B \in SUBSET LiveIn(t), NEW i \in B, Closed(t, LiveIn(t), B),
           NEW j \in Link, IsWithin(t, j, i)
    PROVE  j \in B
<1>1. PICK up : Ascends(up, t, j)
  BY WithinRuns
<1>2. PICK k \in 0..MaxNodes : up[k] = i
  BY <1>1 DEF Ascends
<1>3. MaxNodes \in Nat /\ None \notin B
  BY SizeAssumption, NodeFacts DEF LiveIn
<1> DEFINE T == {n \in Nat : n <= MaxNodes /\ up[n] \in B => j \in B}
<1>4. 0 \in T
  BY <1>1 DEF Ascends
<1>5. ASSUME NEW n \in Nat, n \in T PROVE n + 1 \in T
  <2> SUFFICES ASSUME n + 1 <= MaxNodes, up[n + 1] \in B PROVE j \in B
    OBVIOUS
  <2>1. n + 1 \in 1..MaxNodes /\ (n + 1) - 1 = n /\ n <= MaxNodes
    BY <1>3
  <2>2. up[n + 1] = Get(t, up[n], "parent")
    BY <1>1, <2>1 DEF Ascends
  <2>3. up[n] \in LiveIn(t)
    BY <1>3, <2>2 DEF Get, LiveIn, IsLive
  <2>4. up[n] \in B
    BY <2>2, <2>3 DEF Closed
  <2> QED
    BY <1>5, <2>1, <2>4
<1>6. Nat \subseteq T
  <2> HIDE DEF T
  <2> QED
    BY <1>4, <1>5, Induct
<1>7. k \in T /\ k <= MaxNodes /\ up[k] \in B
  BY <1>2, <1>6
<1> QED
  BY <1>7

-----------------------------------------------------------------------------
(* The new tree is sound. *)
LEMMA InitSound == Init => Sound(tree, {0}, {})
<1> SUFFICES ASSUME Init PROVE Sound(tree, {0}, {})
  OBVIOUS
<1> DEFINE root == NewNode(Root, "group")
           free == [k \in 1..(MaxNodes - 1) |-> MaxNodes - k]
<1>1. /\ tree \in Trees /\ tree.slots = [i \in Slot |-> IF i = 0 THEN root ELSE Free]
      /\ tree.free = free /\ tree.ids = [n \in {Root} |-> 0]
      /\ tree.synthCount = 0 /\ tree.sink = <<>>
  BY InitTree DEF Init, TreeInv
<1>2. root.kind = "group" /\ root.id = Root /\ root # Free /\ \A l \in Links : root[l] = None
  BY DEF NewNode, Free, Links
<1>3. 0 \in Slot /\ None \notin Slot
  BY NodeFacts
<1> HIDE DEF root
<1>4. /\ \A j : IsLive(tree, j) <=> j = 0
      /\ \A j : IsGroup(tree, j) <=> j = 0
      /\ \A j : ~IsSynth(tree, j)
      /\ IdOf(tree, 0) = Root
      /\ \A l \in Links : Get(tree, 0, l) = None
  BY <1>1, <1>2, <1>3 DEF IsLive, IsGroup, IsSynth, IdOf, Get
<1>5. LiveIn(tree) = {0} /\ Synths(tree) = {}
  BY <1>3, <1>4 DEF LiveIn, Synths
<1>6. Whole(tree, {0})
  <2>1. /\ Get(tree, 0, "head") = None /\ Get(tree, 0, "tail") = None /\ Get(tree, 0, "parent") = None
        /\ Get(tree, 0, "next") = None /\ Get(tree, 0, "prev") = None /\ None # 0
    BY <1>3, <1>4 DEF Links
  <2>2. Ties(tree, {0}, {0})
    BY <1>3, <1>4, <2>1 DEF Ties
  <2>3. Grounded(tree, {0}, {0})
    <3> SUFFICES ASSUME NEW X \in SUBSET {0}, X # {}
                 PROVE  \E m \in X : Get(tree, m, "parent") \notin X /\ (m \in {0} \/ Get(tree, m, "prev") \notin X)
      BY DEF Grounded
    <3>1. 0 \in X /\ None \notin X
      BY <2>1
    <3> QED
      BY <2>1, <3>1
  <2> QED
    BY <1>5, <2>1, <2>2, <2>3 DEF Whole, Trunks
<1>7. Lists(free, Slot \ {0})
  <2>1. MaxNodes \in Nat /\ MaxNodes >= 1 /\ MaxNodes - 1 \in Nat
    BY SizeAssumption
  <2>2. \A k \in 1..(MaxNodes - 1) : free[k] = MaxNodes - k /\ free[k] \in Slot \ {0}
    BY <2>1 DEF Slot
  <2>3. free \in Seq(Slot \ {0}) /\ DOMAIN free = 1..(MaxNodes - 1)
    <3> DEFINE m == MaxNodes - 1
               D == Slot \ {0}
    <3>1. m \in Nat /\ free = [k \in 1..m |-> free[k]] /\ \A k \in 1..m : free[k] \in D
      BY <2>1, <2>2
    <3> HIDE DEF m, D, free
    <3>2. free \in Seq(D) /\ DOMAIN free = 1..m
      BY <3>1
    <3> QED
      BY <3>2 DEF m, D
  <2>4. \A x \in Slot \ {0} : \E k \in 1..(MaxNodes - 1) : free[k] = x
    <3> SUFFICES ASSUME NEW x \in Slot \ {0} PROVE \E k \in 1..(MaxNodes - 1) : free[k] = x
      OBVIOUS
    <3>1. MaxNodes - x \in 1..(MaxNodes - 1) /\ MaxNodes - (MaxNodes - x) = x
      BY <2>1 DEF Slot
    <3>2. free[MaxNodes - x] = MaxNodes - (MaxNodes - x)
      BY <2>2, <3>1
    <3> QED
      BY <3>1, <3>2
  <2>5. \A c, d \in 1..(MaxNodes - 1) : free[c] = free[d] => c = d
    <3> SUFFICES ASSUME NEW c \in 1..(MaxNodes - 1), NEW d \in 1..(MaxNodes - 1), free[c] = free[d] PROVE c = d
      OBVIOUS
    <3>1. MaxNodes - c = MaxNodes - d
      <4>1. free[c] = MaxNodes - c /\ free[d] = MaxNodes - d
        BY <2>2
      <4> HIDE DEF free
      <4> QED
        BY <4>1
    <3> QED
      BY <2>1, <3>1
  <2> QED
    BY <2>3, <2>4, <2>5 DEF Lists
<1> HIDE DEF free
<1>8. Books(tree, {})
  <2>1. Slot \ (LiveIn(tree) \cup {}) = Slot \ {0}
    BY <1>5
  <2>2. Cardinality({}) = 0 /\ Len(<<>>) = 0 /\ Len(free) \in Nat
    BY <1>7, FS_EmptySet DEF Lists
  <2>3. Root \in DOMAIN tree.ids /\ \A n \in DOMAIN tree.ids : n = Root /\ tree.ids[n] = 0
    BY <1>1
  <2>4. tree.synthCount = Cardinality(Synths(tree)) /\ Len(tree.sink) <= Len(tree.free)
    BY <1>1, <1>5, <2>2
  <2>5. Lists(tree.free, Slot \ (LiveIn(tree) \cup {}))
    BY <1>1, <1>7, <2>1
  <2> QED
    BY <1>4, <1>5, <2>3, <2>4, <2>5 DEF Books
<1> QED
  BY <1>1, <1>4, <1>6, <1>8 DEF Sound

(* Each step keeps it sound: a node is added, *)
LEMMA AddSound ==
    ASSUME Sound(tree, {0}, {}), NEW id \in NodeId, NEW target \in NodeId, NEW kind \in Kinds,
           NEW where \in Wheres, AddNode(id, kind, target, where)
    PROVE  Sound(tree', {0}, {})
<1> DEFINE t == tree
           i == Last(t.free)
           p == Popped(t)
           u == Occupy(p, i, id, kind)
           L == LiveIn(t)
<1>1. /\ t.sink = <<>> /\ t.free # <<>> /\ id \notin DOMAIN t.ids /\ Resolves(t, target, where)
      /\ tree' = LinkAt(u, i, target, where)
  BY DEF AddNode, CanAdd, Accept
<1>2. Sound(p, {0}, {i}) /\ i \in Slot \ L /\ p.slots = t.slots /\ p.ids = t.ids
  BY <1>1, PopSound
<1>3. LiveIn(p) = L /\ \A j : (IsGroup(p, j) <=> IsGroup(t, j)) /\ \A l : Get(p, j, l) = Get(t, j, l)
  BY <1>2, SameSlots
<1>4. /\ None \notin L /\ L \in SUBSET Slot /\ 0 \in L /\ Books(t, {}) /\ Ties(t, L, {0})
  BY SoundParts
<1> HIDE DEF t, i, p, L
<1>5. /\ Sound(u, {0} \cup {i}, {}) /\ LiveIn(u) = L \cup {i}
      /\ \A j \in L : /\ IsGroup(u, j) <=> IsGroup(p, j)
                      /\ \A l \in Links : Get(u, j, l) = Get(p, j, l)
      /\ \A n \in DOMAIN p.ids : n \in DOMAIN u.ids /\ u.ids[n] = p.ids[n]
      /\ Branch(u, {i}, i) /\ Closed(u, LiveIn(u), {i})
  <2>1. id \in NodeId \ DOMAIN p.ids
    BY <1>1, <1>2
  <2>2. Occupies(p, u, {0}, i)
    BY <1>2, <2>1, OccupySound
  <2> QED
    BY <1>2, <1>3, <2>2 DEF Occupies
<1> HIDE DEF u
<1> DEFINE at == t.ids[target]
<1>6. target \in DOMAIN t.ids /\ at \in L /\ target \in DOMAIN u.ids /\ u.ids[target] = at
  BY <1>1, <1>2, <1>4, <1>5 DEF Resolves, Books, L
<1>7. (IsGroup(u, at) <=> IsGroup(t, at)) /\ Get(u, at, "parent") = Get(t, at, "parent")
  BY <1>3, <1>5, <1>6 DEF Links
<1>8. Resolves(u, target, where) /\ DestGroup(u, target, where) = DestGroup(t, target, where)
  BY <1>1, <1>6, <1>7 DEF Resolves, DestGroup
<1>9. DestGroup(t, target, where) \in L
  <2>1. Get(t, at, "parent") # None => Get(t, at, "parent") \in L
    BY <1>3, <1>4, <1>6, SoundParts DEF Ties, L, Whole, t
  <2> QED
    BY <1>1, <1>6, <2>1 DEF Resolves, DestGroup, Wheres
<1>10. i # 0 /\ DestGroup(u, target, where) \notin {i} /\ {i} \in SUBSET LiveIn(u)
  BY <1>2, <1>4, <1>5, <1>8, <1>9
<1>11. Sound(LinkAt(u, i, target, where), {0}, {})
  BY <1>5, <1>8, <1>10, LinkAtSound
<1> QED
  BY <1>1, <1>11

(* moved, *)
LEMMA MoveSound ==
    ASSUME Sound(tree, {0}, {}), NEW id \in NodeId, NEW target \in NodeId, NEW where \in Wheres,
           MoveNode(id, target, where)
    PROVE  Sound(tree', {0}, {})
<1> DEFINE t == tree
           i == t.ids[id]
           u == Unlink(t, i)
           L == LiveIn(t)
           at == t.ids[target]
           g == DestGroup(t, target, where)
<1>1. /\ id \in DOMAIN t.ids /\ i # 0 /\ Resolves(t, target, where)
      /\ where \in {"before", "after"} => target # id
      /\ ~IsWithin(t, g, i)
      /\ tree' = LinkAt(u, i, target, where)
  BY DEF MoveNode, CanMove
<1>2. /\ t \in Trees /\ None \notin L /\ L \in SUBSET Slot /\ 0 \in L /\ Books(t, {}) /\ Ties(t, L, {0})
  BY SoundParts
<1>3. i \in L \ {0} /\ target \in DOMAIN t.ids /\ at \in L
  BY <1>1, <1>2 DEF Resolves, Books
<1>4. Sound(u, {0} \cup {i}, {}) /\ Unlinks(t, u, i) /\ LiveIn(u) = L
  BY <1>3, UnlinkSound
<1> HIDE DEF u
<1>5. /\ \A j : Get(u, j, "parent") = IF j = i THEN None ELSE Get(t, j, "parent")
      /\ \A j : IsGroup(u, j) <=> IsGroup(t, j)
      /\ u.ids = t.ids
  BY <1>4 DEF Unlinks, Relinked
<1>6. where \in {"before", "after"} => at # i
  BY <1>1, <1>2, <1>3 DEF Books
<1> HIDE DEF i, L, g
<1>7. Resolves(u, target, where) /\ DestGroup(u, target, where) = g
  BY <1>1, <1>3, <1>5, <1>6 DEF Resolves, DestGroup, g
<1>8. PICK B \in SUBSET L : Branch(u, B, i) /\ Closed(u, L, B)
  <2>1. i \in LiveIn(u)
    BY <1>3, <1>4
  <2> QED
    BY <1>4, <2>1, SoundBranch
<1>9. g \notin B
  <2> SUFFICES ASSUME g \in B PROVE FALSE
    OBVIOUS
  <2>1. \A x \in B \ {i} : Get(t, x, "parent") = Get(u, x, "parent")
    BY <1>5
  <2> QED
    BY <1>1, <1>2, <1>8, <2>1, BranchWithin
<1>10. Sound(LinkAt(u, i, target, where), {0}, {})
  <2>1. i # 0 /\ DestGroup(u, target, where) \notin B /\ B \in SUBSET LiveIn(u) /\ Closed(u, LiveIn(u), B)
    BY <1>1, <1>4, <1>7, <1>8, <1>9
  <2> QED
    BY <1>4, <1>7, <1>8, <2>1, LinkAtSound
<1> QED
  BY <1>1, <1>10

(* freed, or what is below it, *)
LEMMA FreeSound ==
    ASSUME Sound(tree, {0}, {}), NEW id \in NodeId, FreeNode(id) \/ FreeAll(id) \/ DeepFree(id)
    PROVE  Sound(tree', {0}, {})
<1> DEFINE i == tree.ids[id]
           L == LiveIn(tree)
<1>1. Books(tree, {}) /\ IsGroup(tree, 0) /\ IdOf(tree, 0) = Root
  BY DEF Sound
<1>2. CASE FreeNode(id)
  <2>1. id \in DOMAIN tree.ids \ {Root} /\ tree' = FreeAt(tree, i)
    BY <1>2 DEF FreeNode, CanFree
  <2>2. i \in L \ {0}
    BY <1>1, <2>1 DEF Books
  <2> QED
    BY <2>1, <2>2, FreeAtSound
<1>3. CASE FreeAll(id)
  <2>1. id \in DOMAIN tree.ids /\ tree' = FreeAllAt(tree, i)
    BY <1>3 DEF FreeAll, CanEmpty
  <2>2. i \in L
    BY <1>1, <2>1 DEF Books
  <2> QED
    BY <2>1, <2>2, FreeAllAtSound
<1>4. CASE DeepFree(id)
  <2>1. id \in DOMAIN tree.ids /\ tree' = DeepFreeGroup(tree, i) /\ IsGroup(tree, i)
    BY <1>4 DEF DeepFree, CanEmpty
  <2>2. i \in L
    BY <1>1, <2>1 DEF Books
  <2>3. \A j \in {0} : IsGroup(tree, j)
    BY <1>1
  <2> HIDE DEF i
  <2> QED
    BY <2>1, <2>2, <2>3, DeepFreeSound
<1> QED
  BY <1>2, <1>3, <1>4

(* paused or resumed, *)
LEMMA RunSound ==
    ASSUME Sound(tree, {0}, {}), NEW id \in NodeId, NEW run \in BOOLEAN, SetRun(id, run)
    PROVE  Sound(tree', {0}, {})
<1> DEFINE i == tree.ids[id]
<1>1. id \in DOMAIN tree.ids /\ tree' = [tree EXCEPT !.slots[i].paused = ~run]
  BY DEF SetRun
<1>2. tree \in Trees /\ Books(tree, {})
  BY DEF Sound
<1>3. IsLive(tree, i)
  BY <1>1, <1>2 DEF Books, LiveIn
<1>4. PICK v \in BOOLEAN : tree' = Put(tree, i, "paused", v)
  <2>1. CASE run
    <3>1. tree' = [tree EXCEPT !.slots[i].paused = FALSE]
      BY <1>1, <2>1
    <3> QED
      BY <1>3, <3>1 DEF Put
  <2>2. CASE ~run
    <3>1. tree' = [tree EXCEPT !.slots[i].paused = TRUE]
      BY <1>1, <2>2
    <3> QED
      BY <1>3, <3>1 DEF Put
  <2> QED
    BY <2>1, <2>2
<1> DEFINE u == Put(tree, i, "paused", v)
<1>5. Relinked(tree, u) /\ \A j : \A l \in Links : Get(u, j, l) = Get(tree, j, l)
  BY <1>2, PausedLinks, Zenon
<1> HIDE DEF u
<1>6. Sound(u, {0}, {})
  BY <1>5, SameSound
<1> QED
  BY <1>4, <1>6 DEF u

(* the freed ones are reported, *)
LEMMA DrainSound ==
    ASSUME Sound(tree, {0}, {}), tree' \in Trees, DrainFreed
    PROVE  Sound(tree', {0}, {})
<1> DEFINE t == tree
           u == tree'
<1>1. t \in Trees /\ Whole(t, {0}) /\ Books(t, {}) /\ u = [t EXCEPT !.sink = <<>>]
  BY DEF Sound, DrainFreed
<1>2. u.slots = t.slots /\ u.free = t.free /\ u.ids = t.ids /\ u.synthCount = t.synthCount /\ u.sink = <<>>
  BY <1>1 DEF Trees
<1> HIDE DEF t, u
<1>3. /\ LiveIn(u) = LiveIn(t) /\ Synths(u) = Synths(t) /\ Whole(u, {0})
      /\ \A j : (IsGroup(u, j) <=> IsGroup(t, j)) /\ IdOf(u, j) = IdOf(t, j)
  BY <1>1, <1>2, SameSlots
<1>4. Len(u.sink) <= Len(u.free)
  <2>1. Len(u.free) \in Nat /\ Len(<<>>) = 0
    BY <1>1, <1>2 DEF Trees
  <2> QED
    BY <1>2, <2>1
<1>5. Books(u, {})
  BY <1>1, <1>2, <1>3, <1>4 DEF Books
<1>6. Sound(t, {0}, {}) /\ u \in Trees
  BY DEF t, u
<1>7. Sound(u, {0}, {})
  BY <1>3, <1>5, <1>6 DEF Sound
<1> QED
  BY <1>7 DEF u

(* a done action takes effect, *)
LEMMA ApplySound ==
    ASSUME TreeInv, Sound(tree, {0}, {}), ApplyDoneAction
    PROVE  Sound(tree', {0}, {})
<1>1. done # <<>> /\ done \in Seq(Request) /\ Head(done) \in Request
  BY DEF TreeInv, ApplyDoneAction
<1> DEFINE i == Head(done).slot
           action == Head(done).action
<1>2. action \in DoneActions
  BY <1>1 DEF Request
<1>3. tree' = IF IsSynth(tree, i) THEN Performed(tree, i, action) ELSE tree
  BY DEF ApplyDoneAction
<1> HIDE DEF i, action
<1>4. IsSynth(tree, i) => i \in LiveIn(tree) \ {0}
  <2>1. IsGroup(tree, 0)
    BY DEF Sound
  <2> QED
    BY <2>1 DEF IsSynth, IsGroup, IsLive, LiveIn
<1>5. IsSynth(tree, i) => Sound(Performed(tree, i, action), {0}, {})
  BY <1>2, <1>4, PerformedSound
<1> QED
  BY <1>3, <1>5

-----------------------------------------------------------------------------
(* What soundness says of the tree.                                        *)

(* A live slot reads as what is in it. *)
LEMMA LiveReads ==
    ASSUME NEW t, NEW i \in LiveIn(t)
    PROVE  /\ i \in Slot /\ IsLive(t, i) /\ t.slots[i] # Free
           /\ \A l : Get(t, i, l) = t.slots[i][l]
           /\ IdOf(t, i) = t.slots[i].id
  BY DEF LiveIn, IsLive, Get, IdOf

(* The types. *)
LEMMA SoundTypes ==
    ASSUME Sound(tree, {0}, {}), Len(done) <= MaxAsking
    PROVE  TypeOK
<1> DEFINE L == LiveIn(tree)
<1>1. /\ tree \in Trees /\ Books(tree, {}) /\ Ties(tree, L, {0}) /\ None \notin L
      /\ L \in SUBSET Slot /\ 0 \in L
  BY SoundParts
<1>2. Live = L
  BY DEF Live, LiveIn
<1>3. ASSUME NEW i \in L
      PROVE  /\ tree.slots[i].id \in NodeId /\ tree.slots[i].paused \in BOOLEAN
             /\ \A link \in {"parent", "prev", "next", "head", "tail"} :
                   tree.slots[i][link] \in Slot \cup {None}
             /\ IsSynth(tree, i) => tree.slots[i].head = None /\ tree.slots[i].tail = None
  <2>1. tree.slots[i] \in Node
    BY <1>1, LiveReads, LiveIs
  <2>2. /\ tree.slots[i].id \in NodeId /\ tree.slots[i].paused \in BOOLEAN
        /\ \A link \in {"parent", "prev", "next", "head", "tail"} :
              tree.slots[i][link] \in Slot \cup {None}
    BY <2>1 DEF Node, Link
  <2>3. /\ Get(tree, i, "head") # None => IsGroup(tree, i)
        /\ Get(tree, i, "tail") # None => IsGroup(tree, i)
    BY <1>1 DEF Ties
  <2>4. IsSynth(tree, i) => tree.slots[i].head = None /\ tree.slots[i].tail = None
    BY <2>3, LiveReads DEF IsSynth, IsGroup
  <2> QED
    BY <2>2, <2>4
<1>4. tree.free \in Seq(Slot) /\ DOMAIN tree.ids \subseteq NodeId
  BY <1>1 DEF Trees
<1>5. Len(tree.sink) < MaxNodes
  <2> DEFINE U == Slot \ (L \cup {})
             V == Slot \ {0}
  <2>1. Lists(tree.free, U) /\ Len(tree.sink) <= Len(tree.free)
    BY <1>1 DEF Books
  <2>2. U \subseteq V /\ IsFiniteSet(V) /\ Cardinality(V) = MaxNodes - 1
    BY <1>1, SlotCount
  <2> HIDE DEF U, V
  <2>3. Len(tree.free) = Cardinality(U) /\ Len(tree.free) \in Nat /\ Cardinality(U) <= Cardinality(V)
    BY <2>1, <2>2, ListsSize, FS_Subset
  <2>4. Len(tree.sink) \in Nat /\ MaxNodes \in Nat
    BY <1>1, SizeAssumption DEF Trees
  <2> QED
    BY <2>1, <2>2, <2>3, <2>4
<1> QED
  BY <1>2, <1>3, <1>4, <1>5 DEF TypeOK

(* The links. *)
LEMMA SoundLinks ==
    ASSUME Sound(tree, {0}, {})
    PROVE  LinksAgree
<1> DEFINE L == LiveIn(tree)
<1>1. /\ tree \in Trees /\ Whole(tree, {0}) /\ Ties(tree, L, {0}) /\ None \notin L /\ L \in SUBSET Slot
  BY SoundParts
<1>2. Live = L
  BY DEF Live, LiveIn
<1>3. \A j \in L : \A l : tree.slots[j][l] = Get(tree, j, l)
  BY LiveReads
<1>4. \A j \in L : tree.slots[j].parent = Get(tree, j, "parent") /\ tree.slots[j].prev = Get(tree, j, "prev")
                   /\ tree.slots[j].next = Get(tree, j, "next") /\ tree.slots[j].head = Get(tree, j, "head")
                   /\ tree.slots[j].tail = Get(tree, j, "tail")
  BY <1>3
<1> SUFFICES ASSUME NEW i \in L
             PROVE  LET n == tree.slots[i]
                    IN /\ (n.parent = None) = (i = 0)
                       /\ \A link \in {"parent", "prev", "next", "head", "tail"} :
                             n[link] \in L \cup {None}
                       /\ i # 0 => IsGroup(tree, n.parent)
                       /\ n.next # None => /\ tree.slots[n.next].prev = i
                                           /\ tree.slots[n.next].parent = n.parent
                       /\ n.prev # None => tree.slots[n.prev].next = i
                       /\ i # 0 /\ n.next = None => tree.slots[n.parent].tail = i
                       /\ i # 0 /\ n.prev = None => tree.slots[n.parent].head = i
                       /\ n.head # None => tree.slots[n.head].parent = i /\ tree.slots[n.head].prev = None
                       /\ n.tail # None => tree.slots[n.tail].parent = i /\ tree.slots[n.tail].next = None
  BY <1>2 DEF LinksAgree
<1> DEFINE p == Get(tree, i, "parent")
           a == Get(tree, i, "prev")
           b == Get(tree, i, "next")
           h == Get(tree, i, "head")
           l == Get(tree, i, "tail")
<1>5. h \in L \cup {None} /\ l \in L \cup {None}
      /\ (h # None => Get(tree, h, "parent") = i /\ Get(tree, h, "prev") = None)
      /\ (l # None => Get(tree, l, "parent") = i /\ Get(tree, l, "next") = None)
  BY <1>1 DEF Ties
<1>6. i = 0 => p = None /\ a = None /\ b = None
  BY <1>1 DEF Whole
<1>7. i # 0 => /\ p \in L /\ IsGroup(tree, p) /\ a \in L \cup {None} /\ b \in L \cup {None}
               /\ b # None => Get(tree, b, "prev") = i /\ Get(tree, b, "parent") = p
               /\ a # None => Get(tree, a, "next") = i
               /\ b = None => Get(tree, p, "tail") = i
               /\ a = None => Get(tree, p, "head") = i
  BY <1>1 DEF Ties
<1> HIDE DEF p, a, b, h, l, L
<1>8. /\ tree.slots[i].parent = p /\ tree.slots[i].prev = a /\ tree.slots[i].next = b
      /\ tree.slots[i].head = h /\ tree.slots[i].tail = l
  BY <1>4 DEF p, a, b, h, l
<1>9. \A link \in {"parent", "prev", "next", "head", "tail"} : tree.slots[i][link] \in L \cup {None}
  <2>1. p \in L \cup {None} /\ a \in L \cup {None} /\ b \in L \cup {None}
    BY <1>6, <1>7
  <2> QED
    BY <1>5, <1>8, <2>1
<1>10. (p = None) = (i = 0)
  BY <1>1, <1>6, <1>7
<1> QED
  BY <1>1, <1>4, <1>5, <1>6, <1>7, <1>8, <1>9, <1>10

(* The reach. *)
LEMMA SoundReach ==
    ASSUME Sound(tree, {0}, {})
    PROVE  AllReached
<1> DEFINE L == LiveIn(tree)
<1>1. tree \in Trees /\ Trunks(tree, L, {0}) /\ 0 \in L
  BY SoundParts
<1>2. Lists(PostOrder(tree, 0), L)
  BY <1>1, PostOrderList DEF Branch
<1>3. Live = L
  BY DEF Live, LiveIn
<1> QED
  BY <1>2, <1>3, ListsSize DEF AllReached

(* The books. *)
LEMMA SoundBooks ==
    ASSUME Sound(tree, {0}, {})
    PROVE  BooksBalance
<1> DEFINE L == LiveIn(tree)
<1>1. tree \in Trees /\ Books(tree, {}) /\ L \in SUBSET Slot
  BY SoundParts
<1>2. Live = L
  BY DEF Live, LiveIn
<1>3. \A i \in L : IdOf(tree, i) = tree.slots[i].id
  BY LiveReads
<1>4. ToSet(tree.free) = Slot \ L /\ Len(tree.free) = Cardinality(Slot \ L)
  <2>1. Lists(tree.free, Slot \ L)
    <3>1. Slot \ (L \cup {}) = Slot \ L
      OBVIOUS
    <3> QED
      BY <1>1, <3>1 DEF Books
  <2> HIDE DEF L
  <2> QED
    BY <2>1, ListsSize
<1>5. DOMAIN tree.ids = {tree.slots[i].id : i \in L}
  BY <1>1, <1>3 DEF Books
<1>6. \A n \in DOMAIN tree.ids : tree.ids[n] \in L /\ tree.slots[tree.ids[n]].id = n
  BY <1>1, <1>3 DEF Books
<1>7. tree.synthCount = Cardinality(Synths(tree))
  BY <1>1 DEF Books
<1> QED
  BY <1>2, <1>4, <1>5, <1>6, <1>7 DEF BooksBalance

-----------------------------------------------------------------------------
(* The forest that the tree stands for.                                    *)

(* Its groups and nodes. *)
LEMMA ForestNodes ==
    ASSUME Sound(tree, {0}, {})
    PROVE  /\ Forest!Nodes = DOMAIN tree.ids
           /\ Forest!Groups = {n \in DOMAIN tree.ids : IsGroup(tree, tree.ids[n])}
           /\ \A n \in DOMAIN tree.ids : tree.ids[n] \in LiveIn(tree) /\ (tree.ids[n] = 0 <=> n = Root)
           /\ \A n, m \in DOMAIN tree.ids : tree.ids[n] = tree.ids[m] => n = m
           /\ (Cardinality(Forest!Nodes) < MaxNodes) <=> tree.free # <<>>
<1> DEFINE L == LiveIn(tree)
           N == DOMAIN tree.ids
<1>1. /\ tree \in Trees /\ Books(tree, {}) /\ L \in SUBSET Slot /\ IdOf(tree, 0) = Root /\ 0 \in L
  BY SoundParts DEF Sound
<1>2. \A n \in N : tree.ids[n] \in L /\ IdOf(tree, tree.ids[n]) = n
  BY <1>1 DEF Books
<1>3. \A n \in N : IsGroup(tree, tree.ids[n]) \/ IsSynth(tree, tree.ids[n])
  <2> SUFFICES ASSUME NEW n \in N PROVE IsGroup(tree, tree.ids[n]) \/ IsSynth(tree, tree.ids[n])
    OBVIOUS
  <2> DEFINE i == tree.ids[n]
  <2>1. i \in L
    BY <1>2
  <2> HIDE DEF i
  <2>2. IsLive(tree, i) /\ tree.slots[i] \in Node
    BY <1>1, <2>1, LiveReads, LiveIs
  <2>3. IsGroup(tree, i) \/ IsSynth(tree, i)
    BY <2>2 DEF IsGroup, IsSynth, Node
  <2> QED
    BY <2>3 DEF i
<1>4. Forest!Groups = {n \in N : IsGroup(tree, tree.ids[n])}
  BY DEF Forest!Groups
<1>5. Forest!Nodes = N
  BY <1>3, <1>4 DEF Forest!Nodes
<1>6. \A n \in N : tree.ids[n] = 0 <=> n = Root
  <2>1. Root \in N /\ tree.ids[Root] = 0
    BY <1>1 DEF Books
  <2> QED
    BY <1>1, <1>2, <2>1
<1>7. \A n, m \in N : tree.ids[n] = tree.ids[m] => n = m
  BY <1>2
<1>8. IsFiniteSet(L) /\ Cardinality(L) \in Nat /\ IsFiniteSet(Slot) /\ Cardinality(Slot) = MaxNodes
  BY <1>1, SlotCount
<1>9. Cardinality(N) = Cardinality(L)
  <2> DEFINE f == [i \in L |-> IdOf(tree, i)]
  <2>1. \A i \in L : IdOf(tree, i) \in N /\ tree.ids[IdOf(tree, i)] = i
    BY <1>1 DEF Books
  <2>2. f \in [L -> N] /\ \A i \in L : f[i] = IdOf(tree, i)
    BY <2>1
  <2>3. \A n \in N : \E i \in L : f[i] = n
    BY <1>2, <2>2
  <2>4. \A i, j \in L : f[i] = f[j] => i = j
    BY <2>1, <2>2
  <2> HIDE DEF f, N, L
  <2>5. f \in Surjection(L, N) /\ f \in Injection(L, N)
    BY <2>2, <2>3, <2>4 DEF Surjection, Injection, IsInjective
  <2> QED
    BY <1>8, <2>5, FS_Surjection
<1>10. Len(tree.free) = MaxNodes - Cardinality(L)
  <2>1. Lists(tree.free, Slot \ L)
    <3>1. Slot \ (L \cup {}) = Slot \ L
      OBVIOUS
    <3> QED
      BY <1>1, <3>1 DEF Books
  <2> HIDE DEF L
  <2>2. Cardinality(Slot \ L) = MaxNodes - Cardinality(L)
    <3>1. Cardinality(Slot \ L) = Cardinality(Slot) - Cardinality(Slot \cap L)
      BY <1>8, FS_Difference
    <3>2. Slot \cap L = L
      BY <1>1
    <3> QED
      BY <1>8, <3>1, <3>2
  <2> QED
    BY <2>1, <2>2, ListsSize
<1>11. (Cardinality(N) < MaxNodes) <=> tree.free # <<>>
  <2>1. tree.free \in Seq(Slot) /\ MaxNodes \in Nat
    BY <1>1, SizeAssumption DEF Trees
  <2>2. tree.free = <<>> <=> Len(tree.free) = 0
    BY <2>1
  <2> QED
    BY <1>8, <1>9, <1>10, <2>1, <2>2
<1> QED
  BY <1>2, <1>4, <1>5, <1>6, <1>7, <1>11

-----------------------------------------------------------------------------
(* The lists of children that the chains of the tree stand for.            *)
ChildLists == [g \in {n \in DOMAIN tree.ids : IsGroup(tree, tree.ids[n])} |->
              IdsOf(Children(tree, tree.ids[g]))]

(* What the lists lead down to, list by list.                              *)
Descends(reach, n, N) ==
    /\ reach \in [0..MaxNodes -> SUBSET N] /\ reach[0] = {n}
    /\ \A k \in 1..MaxNodes :
          reach[k] = reach[k - 1] \cup UNION {ToSet(ChildLists[g]) : g \in reach[k - 1] \cap DOMAIN ChildLists}
    /\ Forest!Subtree(n) = {n} \cup reach[MaxNodes]
LEMMA BelowRuns ==
    ASSUME NEW N, NEW n \in N,
           \A g \in DOMAIN ChildLists : ToSet(ChildLists[g]) \subseteq N
    PROVE  \E reach : Descends(reach, n, N)
<1> DEFINE K == MaxNodes
           D == SUBSET N
           more(v) == v \cup UNION {Forest!ToSet(ChildLists[g]) : g \in v \cap DOMAIN ChildLists}
           step == [p \in (1..K) \X D |-> more(p[2])]
           body(f) == [k \in 0..K |-> IF k = 0 THEN {n} ELSE more(f[k - 1])]
           reach == CHOOSE f : f = body(f)
<1>0. \A s : Forest!ToSet(s) = ToSet(s)
  BY DEF ToSet, Forest!ToSet
<1>1. K \in Nat /\ {n} \in D
  BY SizeAssumption
<1>2. \A v \in D : more(v) \in D
  BY <1>0
<1>3. Forest!Subtree(n) = {n} \cup (reach[K] \ {n})
  BY DEF Forest!Subtree, Forest!Below, Forest!Groups, reach, K, ChildLists
<1> HIDE DEF K, D, more
<1>4. step \in [(1..K) \X D -> D]
  BY <1>2
<1>5. PICK f \in [0..K -> D] : Recurs(f, K, step, {n})
  <2> HIDE DEF step
  <2> QED
    BY <1>1, <1>4, RecursionExists
<1>6. f = body(f)
  <2>1. \A k \in 0..K : k # 0 => k \in 1..K /\ k - 1 \in 0..K
    BY <1>1
  <2>2. \A k \in 0..K : f[k] = IF k = 0 THEN {n} ELSE more(f[k - 1])
    <3> SUFFICES ASSUME NEW k \in 0..K PROVE f[k] = IF k = 0 THEN {n} ELSE more(f[k - 1])
      OBVIOUS
    <3>1. f[k] = IF k = 0 THEN {n} ELSE step[<<k, f[k - 1]>>]
      BY <1>5 DEF Recurs
    <3>2. k # 0 => <<k, f[k - 1]>> \in (1..K) \X D
      BY <1>5, <2>1
    <3> QED
      BY <3>1, <3>2
  <2> HIDE DEF step
  <2> QED
    BY <1>5, <2>2
<1>7. reach = body(reach)
  <2> HIDE DEF body
  <2> QED
    BY <1>6
<1> HIDE DEF reach
<1>8. reach[0] = {n} /\ \A k \in 1..K : reach[k] = more(reach[k - 1])
  <2>1. 0 \in 0..K /\ \A k \in 1..K : k \in 0..K /\ k # 0
    BY <1>1
  <2>2. \A k \in 0..K : reach[k] = IF k = 0 THEN {n} ELSE more(reach[k - 1])
    BY <1>7
  <2> QED
    BY <2>1, <2>2
<1>9. \A k \in 0..K : reach[k] \in D
  <2>1. \A k \in 1..K : reach[k - 1] \in D => reach[k] \in D
    BY <1>2, <1>8
  <2> QED
    BY <1>1, <1>8, <2>1, RecursionStays
<1>10. reach \in [0..MaxNodes -> SUBSET N]
  <2>1. reach = [k \in 0..K |-> reach[k]]
    BY <1>7
  <2> QED
    BY <1>9, <2>1 DEF K, D
<1>11. Forest!Subtree(n) = {n} \cup reach[MaxNodes]
  BY <1>3 DEF K
<1>12. \A k \in 1..MaxNodes :
          reach[k] = reach[k - 1] \cup UNION {ToSet(ChildLists[g]) : g \in reach[k - 1] \cap DOMAIN ChildLists}
  BY <1>0, <1>8 DEF K, more
<1> QED
  BY <1>8, <1>10, <1>11, <1>12 DEF Descends

(* Each list names the children, by their ids. *)
LEMMA ListsKids ==
    ASSUME Sound(tree, {0}, {})
    PROVE  /\ DOMAIN ChildLists = {n \in DOMAIN tree.ids : IsGroup(tree, tree.ids[n])}
           /\ \A g \in DOMAIN ChildLists :
                 ToSet(ChildLists[g]) = {IdOf(tree, j) : j \in {i \in LiveIn(tree) : Get(tree, i, "parent") = tree.ids[g]}}
<1> DEFINE L == LiveIn(tree)
<1>1. tree \in Trees /\ Trunks(tree, L, {0}) /\ Books(tree, {})
  BY SoundParts
<1>2. DOMAIN ChildLists = {n \in DOMAIN tree.ids : IsGroup(tree, tree.ids[n])}
  BY DEF ChildLists
<1> SUFFICES ASSUME NEW g \in DOMAIN ChildLists
             PROVE  ToSet(ChildLists[g]) = {IdOf(tree, j) : j \in {i \in L : Get(tree, i, "parent") = tree.ids[g]}}
  BY <1>2
<1> DEFINE top == tree.ids[g]
           kids == Children(tree, top)
           K == {i \in L : Get(tree, i, "parent") = top}
<1>3. top \in L
  BY <1>1, <1>2 DEF Books
<1>4. Lists(kids, K)
  BY <1>1, <1>3, ChildrenList
<1>5. ChildLists[g] = [k \in DOMAIN kids |-> tree.slots[kids[k]].id]
  BY <1>2 DEF ChildLists, IdsOf
<1> HIDE DEF kids
<1>6. \A k \in DOMAIN kids : kids[k] \in K /\ IdOf(tree, kids[k]) = tree.slots[kids[k]].id
  <2>1. \A k \in DOMAIN kids : kids[k] \in K
    <3> HIDE DEF K
    <3> QED
      BY <1>4 DEF Lists
  <2>2. \A j \in K : IdOf(tree, j) = tree.slots[j].id
    BY LiveReads
  <2> QED
    BY <2>1, <2>2
<1>7. \A j \in K : \E k \in DOMAIN kids : kids[k] = j
  BY <1>4 DEF Lists
<1> HIDE DEF K
<1>8. ToSet(ChildLists[g]) = {IdOf(tree, j) : j \in K}
  BY <1>5, <1>6, <1>7 DEF ToSet
<1> QED
  BY <1>8 DEF K, top

(* What is below a node in the forest is its branch in the tree. *)
LEMMA SubtreeIs ==
    ASSUME Sound(tree, {0}, {}), NEW n \in DOMAIN tree.ids, NEW B \in SUBSET LiveIn(tree),
           Branch(tree, B, tree.ids[n]), Closed(tree, LiveIn(tree), B)
    PROVE  Forest!Subtree(n) = {IdOf(tree, j) : j \in B}
<1> DEFINE L == LiveIn(tree)
           N == DOMAIN tree.ids
           i == tree.ids[n]
<1>1. /\ tree \in Trees /\ Ties(tree, L, {0}) /\ Books(tree, {}) /\ None \notin L /\ L \in SUBSET Slot
      /\ \A j \in {0} : Get(tree, j, "parent") = None
  BY SoundParts DEF Whole
<1>2. i \in B /\ IdOf(tree, i) = n
  BY <1>1 DEF Branch, Books
<1>3. /\ \A j \in L : IdOf(tree, j) \in N /\ tree.ids[IdOf(tree, j)] = j
      /\ \A m \in N : tree.ids[m] \in L
  BY <1>1 DEF Books
<1>4. /\ DOMAIN ChildLists = {m \in N : IsGroup(tree, tree.ids[m])}
      /\ \A g \in DOMAIN ChildLists : ToSet(ChildLists[g]) = {IdOf(tree, j) : j \in {x \in L : Get(tree, x, "parent") = tree.ids[g]}}
  BY ListsKids
<1>5. \A g \in DOMAIN ChildLists : ToSet(ChildLists[g]) \subseteq N
  BY <1>3, <1>4
<1>6. PICK reach : Descends(reach, n, N)
  BY <1>5, BelowRuns
<1>7. MaxNodes \in Nat
  BY SizeAssumption
<1> HIDE DEF i, L, N
<1>8. ASSUME NEW k \in 1..MaxNodes
      PROVE  \A m : m \in reach[k] <=> \/ m \in reach[k - 1]
                                       \/ \E x \in L : /\ m = IdOf(tree, x)
                                                       /\ \E g \in reach[k - 1] : /\ g \in DOMAIN ChildLists
                                                                                  /\ Get(tree, x, "parent") = tree.ids[g]
  <2>1. reach[k] = reach[k - 1] \cup UNION {ToSet(ChildLists[g]) : g \in reach[k - 1] \cap DOMAIN ChildLists}
    BY <1>6 DEF Descends
  <2>2. \A g \in DOMAIN ChildLists : \A m : m \in ToSet(ChildLists[g]) <=> \E x \in L : m = IdOf(tree, x) /\ Get(tree, x, "parent") = tree.ids[g]
    BY <1>4
  <2> QED
    BY <2>1, <2>2
<1>9. \A k \in 0..MaxNodes : reach[k] \in SUBSET {IdOf(tree, j) : j \in B}
  <2> DEFINE D == {IdOf(tree, j) : j \in B}
  <2>1. \A k \in 1..MaxNodes : reach[k - 1] \in SUBSET D => reach[k] \in SUBSET D
    <3> SUFFICES ASSUME NEW k \in 1..MaxNodes, reach[k - 1] \in SUBSET D, NEW m \in reach[k]
                 PROVE  m \in D
      OBVIOUS
    <3>1. CASE m \in reach[k - 1]
      BY <3>1
    <3>2. CASE \E x \in L : /\ m = IdOf(tree, x)
                            /\ \E g \in reach[k - 1] : /\ g \in DOMAIN ChildLists
                                                       /\ Get(tree, x, "parent") = tree.ids[g]
      <4>1. PICK x \in L : /\ m = IdOf(tree, x)
                           /\ \E g \in reach[k - 1] : /\ g \in DOMAIN ChildLists
                                                      /\ Get(tree, x, "parent") = tree.ids[g]
        BY <3>2
      <4>2. PICK g \in reach[k - 1] : Get(tree, x, "parent") = tree.ids[g]
        BY <4>1
      <4>3. PICK y \in B : g = IdOf(tree, y)
        BY <4>2
      <4>4. tree.ids[g] = y
        BY <1>3, <4>3 DEF L
      <4>5. x \in B
        BY <4>2, <4>4 DEF Closed, L
      <4> QED
        BY <4>1, <4>5
    <3> QED
      BY <1>8, <3>1, <3>2
  <2>2. reach[0] \in SUBSET D
    BY <1>2, <1>6 DEF Descends
  <2> HIDE DEF D
  <2>3. \A k \in 0..MaxNodes : reach[k] \in SUBSET D
    BY <1>7, <2>1, <2>2, RecursionStays
  <2> QED
    BY <2>3 DEF D
<1>10. \A k \in 1..MaxNodes : reach[k - 1] \subseteq reach[k]
  BY <1>8
<1>11. ASSUME NEW j \in B PROVE IdOf(tree, j) \in reach[MaxNodes]
  <2>1. j \in Link /\ j \in L
    BY <1>1 DEF Link, L
  <2>2. PICK up : Ascends(up, tree, j)
    BY <1>1, <2>1, WithinRuns
  <2>3. IsWithin(tree, j, i)
    BY <1>1, BranchWithin DEF i
  <2>4. PICK q \in 0..MaxNodes : up[q] = i
    BY <2>2, <2>3 DEF Ascends
  <2> DEFINE T == {m \in Nat : m <= q => up[q - m] \in L /\ IdOf(tree, up[q - m]) \in reach[m]}
  <2>5. 0 \in T
    <3>1. q - 0 = q
      BY <1>7
    <3> QED
      BY <1>2, <1>6, <2>4, <3>1 DEF L, Descends
  <2>6. ASSUME NEW m \in Nat, m \in T PROVE m + 1 \in T
    <3> SUFFICES ASSUME m + 1 <= q PROVE up[q - (m + 1)] \in L /\ IdOf(tree, up[q - (m + 1)]) \in reach[m + 1]
      OBVIOUS
    <3>1. /\ q - m \in 1..MaxNodes /\ (q - m) - 1 = q - (m + 1) /\ m <= q
          /\ m + 1 \in 1..MaxNodes /\ (m + 1) - 1 = m
      BY <1>7
    <3> DEFINE x == up[q - (m + 1)]
               y == up[q - m]
    <3>2. y = Get(tree, x, "parent")
      BY <2>2, <3>1 DEF Ascends
    <3>3. y \in L /\ IdOf(tree, y) \in reach[m]
      BY <2>6, <3>1
    <3> HIDE DEF x, y
    <3>4. x \in L
      BY <1>1, <3>2, <3>3 DEF Get, L, LiveIn, IsLive
    <3>5. x # 0
      BY <1>1, <3>2, <3>3
    <3>6. IsGroup(tree, y)
      BY <1>1, <3>2, <3>4, <3>5 DEF Ties, L
    <3>7. IdOf(tree, y) \in DOMAIN ChildLists /\ tree.ids[IdOf(tree, y)] = y
      BY <1>3, <1>4, <3>3, <3>6
    <3>8. IdOf(tree, x) \in reach[m + 1]
      BY <1>8, <3>1, <3>2, <3>3, <3>4, <3>7
    <3> QED
      BY <3>4, <3>8 DEF x
  <2>7. Nat \subseteq T
    <3> HIDE DEF T
    <3> QED
      BY <2>5, <2>6, Induct
  <2>8. IdOf(tree, j) \in reach[q]
    <3>1. q \in T /\ q <= q /\ q - q = 0
      BY <1>7, <2>7
    <3>2. up[q - q] \in L /\ IdOf(tree, up[q - q]) \in reach[q]
      BY <3>1, Zenon
    <3> QED
      BY <2>2, <3>1, <3>2 DEF Ascends
  <2> DEFINE U == {k \in Nat : q <= k /\ k <= MaxNodes => IdOf(tree, j) \in reach[k]}
  <2>9. 0 \in U
    BY <2>8
  <2>10. ASSUME NEW k \in Nat, k \in U PROVE k + 1 \in U
    <3> SUFFICES ASSUME q <= k + 1, k + 1 <= MaxNodes PROVE IdOf(tree, j) \in reach[k + 1]
      OBVIOUS
    <3>1. CASE q = k + 1
      BY <2>8, <3>1
    <3>2. CASE q # k + 1
      <4>1. q <= k /\ k <= MaxNodes /\ k + 1 \in 1..MaxNodes /\ (k + 1) - 1 = k
        BY <1>7, <3>2
      <4>2. IdOf(tree, j) \in reach[k]
        BY <2>10, <4>1
      <4> QED
        BY <1>10, <4>1, <4>2
    <3> QED
      BY <3>1, <3>2
  <2>11. Nat \subseteq U
    <3> HIDE DEF U
    <3> QED
      BY <2>9, <2>10, Induct
  <2>12. MaxNodes \in U /\ q <= MaxNodes /\ MaxNodes <= MaxNodes
    BY <1>7, <2>11
  <2> QED
    BY <2>12, Zenon
<1>12. MaxNodes \in 0..MaxNodes
  BY <1>7
<1> QED
  BY <1>2, <1>6, <1>9, <1>11, <1>12 DEF Descends

(* put in the place of another, whose branch goes. *)
LEMMA ReplaceSound ==
    ASSUME Sound(tree, {0}, {}), NEW id \in NodeId, NEW target \in NodeId, NEW kind \in Kinds,
           ReplaceNode(id, kind, target)
    PROVE  Sound(tree', {0}, {})
<1> DEFINE i == Last(tree.free)
           at == tree.ids[target]
           t == Popped(tree)
           w == Unlink(t, at)
           v == Destroy(w, at)
           u == Occupy(v, i, id, kind)
           p == Get(t, at, "parent")
           a == Get(t, at, "prev")
           b == Get(t, at, "next")
           L == LiveIn(t)
           Q == {0} \cup {at}
           R == {0} \cup {i}
<1>1. /\ tree.sink = <<>> /\ tree.free # <<>> /\ id \notin DOMAIN tree.ids
      /\ target \in DOMAIN tree.ids /\ at # 0
      /\ tree' = Insert(u, i, Get(tree, at, "parent"), Get(tree, at, "prev"), Get(tree, at, "next"))
  BY DEF ReplaceNode, CanReplace, Accept
<1>2. Sound(t, {0}, {i}) /\ t.slots = tree.slots /\ t.ids = tree.ids
  BY <1>1, PopSound
<1>3. LiveIn(tree) = L /\ \A l : Get(tree, at, l) = Get(t, at, l)
  BY <1>2, SameSlots
<1>4. tree' = Insert(u, i, p, a, b)
  BY <1>1, <1>3
<1>5. at \in L \ {0}
  BY <1>1, <1>3 DEF Sound, Books
<1> HIDE DEF i, at, t, L
<1>6. Whole(t, {0}) /\ Books(t, {i}) /\ L \in SUBSET Slot /\ Grounded(t, L, {0}) /\ t \in Trees
  BY <1>2, SoundParts DEF Trunks, L
<1>7. Sound(w, Q, {i}) /\ Unlinks(t, w, at) /\ LiveIn(w) = L /\ Gap(w, Q, p, a, b)
  BY <1>2, <1>5, <1>6, UnlinkSound, UnlinkGap DEF L
<1> HIDE DEF w
<1>8. PICK B \in SUBSET L : Branch(w, B, at) /\ Closed(w, L, B) /\ B \cap Q \subseteq {at}
  BY <1>5, <1>7, SoundBranch
<1>9. /\ at \in B /\ B \cap {0} = {}
      /\ \A j \in B \ {at} : Get(w, j, "parent") \in B
  BY <1>5, <1>8 DEF Branch, Trunks, Ties
<1>10. p \notin B
  <2> SUFFICES ASSUME p \in B PROVE FALSE
    OBVIOUS
  <2>1. \A j \in B : Get(t, j, "parent") \in B
    BY <1>7, <1>9 DEF Unlinks
  <2>2. B # {}
    BY <1>9
  <2>3. PICK m \in B : Get(t, m, "parent") \notin B /\ (m \in {0} \/ Get(t, m, "prev") \notin B)
    BY <1>6, <2>2, Zenon DEF Grounded
  <2> QED
    BY <2>1, <2>3
<1> HIDE DEF p, a, b
<1>11. /\ p \in L \ B /\ a \in (L \ (B \cup Q)) \cup {None} /\ b \in (L \ (B \cup Q)) \cup {None}
       /\ IsGroup(w, p)
  BY <1>7, <1>8, <1>9, <1>10 DEF Gap
<1>12. Sound(v, {0}, {i}) /\ Sheds(w, v, B)
  <2>1. at \notin {0} /\ 0 \in {0} /\ Closed(w, LiveIn(w), B)
    BY <1>5, <1>7, <1>8
  <2> QED
    BY <1>7, <1>8, <1>9, <2>1, DestroySound DEF Q
<1> HIDE DEF v
<1>13. LiveIn(v) = L \ B
  BY <1>7, <1>12 DEF Sheds
<1>14. \A j \in L \ B : /\ IsGroup(v, j) <=> IsGroup(w, j)
                        /\ IdOf(v, j) = IdOf(w, j)
                        /\ \A l : Get(v, j, l) = Get(w, j, l)
  BY <1>12, <1>13, ShedsLinks
<1>15. id \in NodeId \ DOMAIN v.ids
  <2> SUFFICES ASSUME id \in DOMAIN v.ids PROVE FALSE
    OBVIOUS
  <2>1. PICK j \in L \ B : IdOf(v, j) = id
    BY <1>12, <1>13 DEF Sound, Books
  <2>2. IdOf(t, j) = id
    BY <1>7, <1>14, <2>1 DEF Unlinks, Relinked
  <2>3. id \in DOMAIN t.ids
    BY <1>6, <2>2 DEF Books, L
  <2> QED
    BY <1>1, <1>2, <2>3
<1>16. /\ Sound(u, R, {}) /\ i \notin LiveIn(v) /\ LiveIn(u) = LiveIn(v) \cup {i}
       /\ \A j \in LiveIn(v) : /\ IsGroup(u, j) <=> IsGroup(v, j)
                               /\ \A l \in Links : Get(u, j, l) = Get(v, j, l)
       /\ Branch(u, {i}, i) /\ Closed(u, LiveIn(u), {i})
  <2>1. Occupies(v, u, {0}, i)
    BY <1>12, <1>15, OccupySound
  <2> QED
    BY <2>1 DEF Occupies
<1> HIDE DEF u
<1>17. /\ \A j \in L \ B : /\ IsGroup(u, j) <=> IsGroup(w, j)
                           /\ Get(u, j, "parent") = Get(w, j, "parent")
                           /\ Get(u, j, "prev") = Get(w, j, "prev") /\ Get(u, j, "next") = Get(w, j, "next")
                           /\ Get(u, j, "head") = Get(w, j, "head") /\ Get(u, j, "tail") = Get(w, j, "tail")
  BY <1>13, <1>14, <1>16 DEF Links
<1>18. i \notin L \ B /\ 0 \in L
  BY <1>2, <1>13, <1>16, SoundParts DEF L
<1>19. p # i /\ {i} \in SUBSET LiveIn(u) /\ i \notin {0} /\ 0 \in {0}
  <2>1. 0 \in L \ B
    BY <1>9, <1>18
  <2> QED
    BY <1>11, <1>16, <1>18, <2>1
<1>20. Gap(u, R, p, a, b)
  <2>1. p \in LiveIn(u) /\ IsGroup(u, p)
    BY <1>11, <1>13, <1>16, <1>17
  <2>2. a \in (LiveIn(u) \ R) \cup {None} /\ b \in (LiveIn(u) \ R) \cup {None}
    BY <1>11, <1>13, <1>16, <1>18
  <2> QED
    BY <1>7, <1>11, <1>17, <2>1, <2>2 DEF Gap
<1>21. Sound(Insert(u, i, p, a, b), {0}, {})
  <2>1. p \notin {i}
    BY <1>19
  <2> QED
    BY <1>16, <1>19, <1>20, <2>1, InsertSound DEF R
<1> QED
  BY <1>4, <1>21

-----------------------------------------------------------------------------
(* The guards.                                                             *)

(* A placement resolves if the forest has the place. *)
LEMMA PlacesAgree ==
    ASSUME Sound(tree, {0}, {}), NEW target \in NodeId, NEW where \in Wheres
    PROVE  Resolves(tree, target, where) <=> Forest!Legal(target, where)
<1> DEFINE N == DOMAIN tree.ids
           L == LiveIn(tree)
<1>1. /\ Forest!Nodes = N /\ Forest!Groups = {n \in N : IsGroup(tree, tree.ids[n])}
      /\ \A n \in N : tree.ids[n] \in L /\ (tree.ids[n] = 0 <=> n = Root)
  BY ForestNodes
<1>2. \A j \in L : Get(tree, j, "parent") = None <=> j = 0
  BY SoundParts DEF Whole, Ties
<1>3. CASE where \in {"head", "tail"}
  <2>1. Resolves(tree, target, where) <=> target \in N /\ IsGroup(tree, tree.ids[target])
    BY <1>3 DEF Resolves
  <2> QED
    BY <1>1, <1>3, <2>1 DEF Forest!Legal
<1>4. CASE where \in {"before", "after"}
  <2>1. Resolves(tree, target, where) <=> target \in N /\ Get(tree, tree.ids[target], "parent") # None
    BY <1>4 DEF Resolves
  <2>2. Forest!Legal(target, where) <=> target \in N \ {Root}
    BY <1>1, <1>4 DEF Forest!Legal
  <2> QED
    BY <1>1, <1>2, <2>1, <2>2
<1> QED
  BY <1>3, <1>4 DEF Wheres

(* The forest counts its nodes as the tree does. *)
LEMMA CountsAgree == \A S : Forest!Cardinality(S) = Cardinality(S)
  BY DEF Cardinality, Forest!Cardinality

(* The guard of a new node, *)
LEMMA AddAgrees ==
    ASSUME Sound(tree, {0}, {}), NEW id \in NodeId, NEW target \in NodeId, NEW where \in Wheres
    PROVE  CanAdd(id, target, where) <=> Forest!CanAdd(id, target, where)
<1>1. /\ Forest!Nodes = DOMAIN tree.ids
      /\ (Cardinality(Forest!Nodes) < MaxNodes) <=> tree.free # <<>>
  BY ForestNodes
<1>2. Resolves(tree, target, where) <=> Forest!Legal(target, where)
  BY PlacesAgree
<1> QED
  BY <1>1, <1>2, CountsAgree DEF CanAdd, Forest!CanAdd

(* of one that replaces another, *)
LEMMA ReplaceAgrees ==
    ASSUME Sound(tree, {0}, {}), NEW id \in NodeId, NEW target \in NodeId
    PROVE  CanReplace(id, target) <=> Forest!CanAdd(id, target, "replace")
<1>1. Forest!Legal(target, "replace") <=> target \in Forest!Nodes \ {Root}
  BY DEF Forest!Legal
<1>2. /\ Forest!Nodes = DOMAIN tree.ids
      /\ \A n \in DOMAIN tree.ids : tree.ids[n] = 0 <=> n = Root
      /\ (Cardinality(Forest!Nodes) < MaxNodes) <=> tree.free # <<>>
  BY ForestNodes
<1>3. target \in Forest!Nodes \ {Root} <=> target \in DOMAIN tree.ids /\ tree.ids[target] # 0
  BY <1>2
<1> QED
  BY <1>1, <1>2, <1>3, CountsAgree DEF CanReplace, Forest!CanAdd

(* of one that is freed, *)
LEMMA FreeAgrees ==
    ASSUME Sound(tree, {0}, {}), NEW id \in NodeId
    PROVE  CanFree(id) <=> Forest!CanFree(id)
  BY ForestNodes DEF CanFree, Forest!CanFree

(* and of one that is moved: it does not go below itself. *)
LEMMA MoveAgrees ==
    ASSUME Sound(tree, {0}, {}), NEW id \in NodeId, NEW target \in NodeId, NEW where \in Wheres
    PROVE  CanMove(id, target, where) <=> Forest!CanMove(id, target, where)
<1> DEFINE N == DOMAIN tree.ids
           L == LiveIn(tree)
           i == tree.ids[id]
           at == tree.ids[target]
           g == DestGroup(tree, target, where)
<1>1. Forest!Nodes = N /\ (id \in N => (i = 0 <=> id = Root))
  BY ForestNodes
<1>2. Resolves(tree, target, where) <=> Forest!Legal(target, where)
  BY PlacesAgree
<1>3. ASSUME id \in N, i # 0, Resolves(tree, target, where)
      PROVE  target \notin Forest!Subtree(id) <=> /\ where \in {"before", "after"} => target # id
                                                  /\ ~IsWithin(tree, g, i)
  <2>1. /\ tree \in Trees /\ Books(tree, {}) /\ Ties(tree, L, {0}) /\ None \notin L /\ L \in SUBSET Slot
    BY SoundParts
  <2>2. target \in N /\ at \in L /\ i \in L
    BY <1>3, <2>1 DEF Resolves, Books
  <2>3. PICK B \in SUBSET L : Branch(tree, B, i) /\ Closed(tree, L, B) /\ B \cap {0} \subseteq {i}
    BY <2>2, SoundBranch
  <2>4. Forest!Subtree(id) = {IdOf(tree, j) : j \in B}
    BY <1>3, <2>3, SubtreeIs
  <2>5. target \in Forest!Subtree(id) <=> at \in B
    BY <2>1, <2>2, <2>4 DEF Books
  <2>6. target = id <=> at = i
    BY <1>3, <2>1, <2>2 DEF Books
  <2>7. i \in B /\ (\A j \in B \ {i} : Get(tree, j, "parent") \in B)
    BY <2>3 DEF Branch, Trunks, Ties
  <2> HIDE DEF i
  <2>8. ASSUME NEW j \in L PROVE IsWithin(tree, j, i) <=> j \in B
    <3>1. j \in Link /\ \A x \in B \ {i} : Get(tree, x, "parent") = Get(tree, x, "parent")
      BY <2>1 DEF Link
    <3>2. j \in B => IsWithin(tree, j, i)
      BY <2>1, <2>3, <3>1, BranchWithin
    <3>3. IsWithin(tree, j, i) => j \in B
      BY <2>1, <2>3, <2>7, <3>1, WithinBranch
    <3> QED
      BY <3>2, <3>3
  <2>9. CASE where \in {"head", "tail"}
    <3>1. g = at
      BY <2>9 DEF DestGroup
    <3> QED
      BY <2>2, <2>5, <2>8, <2>9, <3>1
  <2>10. CASE where \in {"before", "after"}
    <3>1. g = Get(tree, at, "parent") /\ g # None
      BY <1>3, <2>10 DEF DestGroup, Resolves
    <3>2. g \in L
      BY <2>1, <2>2, <3>1, SoundParts DEF Ties, Whole
    <3>3. at \in B <=> at = i \/ g \in B
      BY <2>2, <2>3, <2>7, <3>1 DEF Closed
    <3> QED
      BY <2>5, <2>6, <2>8, <2>10, <3>2, <3>3
  <2> QED
    BY <2>9, <2>10 DEF Wheres
<1> QED
  BY <1>1, <1>2, <1>3 DEF CanMove, Forest!CanMove

(* The walk lists the synths that ask, each once. *)
LEMMA FewAsk ==
    ASSUME Sound(tree, {0}, {}), Process
    PROVE  Len(done') <= MaxAsking
<1> DEFINE L == LiveIn(tree)
           awake == {i \in Synths(tree) : ~tree.slots[i].paused}
           walk == PostOrder(tree, 0)
           P == L \cap awake
<1>1. PICK asking \in SUBSET ToSet(Processed(tree)) :
         /\ Cardinality(asking) <= MaxAsking
         /\ \E action \in [asking -> Actions] :
               LET order == Those(Processed(tree), asking)
               IN  done' = [k \in DOMAIN order |->
                              [slot |-> order[k], id |-> tree.slots[order[k]].id, action |-> action[order[k]]]]
  BY DEF Process
<1> DEFINE order == Those(Processed(tree), asking)
<1>2. Lists(walk, L)
  <2>1. tree \in Trees /\ Trunks(tree, L, {0}) /\ 0 \in L
    BY SoundParts
  <2> QED
    BY <2>1, PostOrderList DEF Branch
<1>3. Processed(tree) = Those(walk, awake)
  BY DEF Processed
<1> HIDE DEF walk, awake, L
<1>4. Lists(Processed(tree), P)
  BY <1>2, <1>3, ThoseList
<1> HIDE DEF P
<1>5. asking \in SUBSET P
  BY <1>1, <1>4, ListsSize
<1>6. Lists(order, asking)
  <2>1. Lists(order, P \cap asking)
    BY <1>4, ThoseList
  <2>2. P \cap asking = asking
    BY <1>5
  <2> QED
    BY <2>1, <2>2
<1>7. DOMAIN done' = DOMAIN order
  BY <1>1
<1> HIDE DEF order
<1>8. order \in Seq(asking) /\ Len(order) = Cardinality(asking) /\ Len(order) \in Nat
  BY <1>6, ListsSize DEF Lists
<1>9. Len(done') = Len(order)
  BY <1>7, <1>8
<1> QED
  BY <1>1, <1>8, <1>9

-----------------------------------------------------------------------------
(* The tree, step by step.                                                 *)
TreeSound == TreeInv /\ Sound(tree, {0}, {}) /\ Len(done) <= MaxAsking

(* A sound tree is well formed. *)
LEMMA SoundWell == TreeSound => WellFormed
<1> SUFFICES ASSUME TreeSound PROVE WellFormed
  OBVIOUS
<1>1. Sound(tree, {0}, {}) /\ Len(done) <= MaxAsking
  BY DEF TreeSound
<1>2. TypeOK /\ LinksAgree /\ AllReached /\ BooksBalance
  BY <1>1, SoundTypes, SoundLinks, SoundReach, SoundBooks
<1>3. RefusalsAgree
  BY <1>1, AddAgrees, ReplaceAgrees, FreeAgrees, MoveAgrees DEF RefusalsAgree
<1> QED
  BY <1>2, <1>3 DEF WellFormed

(* The new tree is sound, *)
LEMMA InitWell == Init => TreeSound
<1> SUFFICES ASSUME Init PROVE TreeSound
  OBVIOUS
<1>1. Len(done) <= MaxAsking
  <2>1. Len(<<>>) = 0 /\ MaxAsking \in Nat /\ done = <<>>
    BY SizeAssumption DEF Init
  <2> QED
    BY <2>1
<1> QED
  BY <1>1, InitTree, InitSound DEF TreeSound

(* and every step keeps it so. *)
LEMMA StepWell == TreeSound /\ [Next]_vars => TreeSound'
<1> SUFFICES ASSUME TreeSound, [Next]_vars PROVE TreeSound'
  OBVIOUS
<1>1. TreeInv /\ Sound(tree, {0}, {}) /\ Len(done) <= MaxAsking
  BY DEF TreeSound
<1>2. TreeInv'
  BY <1>1, StepTree
<1>3. tree' \in Trees
  BY <1>2 DEF TreeInv
<1>4. done' = <<>> => Len(done') <= MaxAsking
  <2>1. Len(<<>>) = 0 /\ MaxAsking \in Nat
    BY SizeAssumption
  <2> QED
    BY <2>1
<1>5. Sound(tree', {0}, {}) /\ Len(done') <= MaxAsking
  <2>1. CASE UNCHANGED vars
    BY <1>1, <2>1 DEF vars
  <2>2. CASE \E id, target \in NodeId, kind \in Kinds, where \in Wheres :
                AddNode(id, kind, target, where)
    <3>1. PICK id, target \in NodeId, kind \in Kinds, where \in Wheres : AddNode(id, kind, target, where)
      BY <2>2
    <3> QED
      BY <1>1, <1>4, <3>1, AddSound, AcceptEmpties DEF AddNode
  <2>3. CASE \E id, target \in NodeId, kind \in Kinds : ReplaceNode(id, kind, target)
    <3>1. PICK id, target \in NodeId, kind \in Kinds : ReplaceNode(id, kind, target)
      BY <2>3
    <3> QED
      BY <1>1, <1>4, <3>1, ReplaceSound, AcceptEmpties DEF ReplaceNode
  <2>4. CASE \E id, target \in NodeId, where \in Wheres : MoveNode(id, target, where)
    <3>1. PICK id, target \in NodeId, where \in Wheres : MoveNode(id, target, where)
      BY <2>4
    <3> QED
      BY <1>1, <1>4, <3>1, MoveSound, AcceptEmpties DEF MoveNode
  <2>5. CASE \E id \in NodeId : FreeNode(id) \/ FreeAll(id) \/ DeepFree(id)
    <3>1. PICK id \in NodeId : FreeNode(id) \/ FreeAll(id) \/ DeepFree(id)
      BY <2>5
    <3> QED
      BY <1>1, <1>4, <3>1, FreeSound, AcceptEmpties DEF FreeNode, FreeAll, DeepFree
  <2>6. CASE \E id \in NodeId, run \in BOOLEAN : SetRun(id, run)
    <3>1. PICK id \in NodeId, run \in BOOLEAN : SetRun(id, run)
      BY <2>6
    <3> QED
      BY <1>1, <1>4, <3>1, RunSound, AcceptEmpties DEF SetRun
  <2>7. CASE Process
    BY <1>1, <2>7, FewAsk DEF Process
  <2>8. CASE ApplyDoneAction
    <3>1. done \in Seq(Request) /\ done # <<>> /\ done' = Tail(done)
      BY <1>1, <2>8 DEF TreeInv, ApplyDoneAction
    <3>2. Len(done') <= MaxAsking
      BY <1>1, <3>1, SizeAssumption
    <3> QED
      BY <1>1, <2>8, <3>2, ApplySound
  <2>9. CASE DrainFreed
    <3>1. done' = done
      BY <2>9 DEF DrainFreed
    <3> QED
      BY <1>1, <1>3, <2>9, <3>1, DrainSound
  <2> QED
    BY <2>1, <2>2, <2>3, <2>4, <2>5, <2>6, <2>7, <2>8, <2>9 DEF Next
<1> QED
  BY <1>2, <1>5 DEF TreeSound

(* The arena of the node tree (tree.rs) stays sound through every command  *)
(* and every done action, with any number of slots: its links agree, every *)
(* live node is reached from the root once, the free list, the id map and  *)
(* the synth count balance, and the guards on slots and links accept       *)
(* exactly the commands that make sense for the forest.                    *)
THEOREM TreeWellFormed == Spec => []WellFormed
  BY InitWell, StepWell, SoundWell, PTL DEF Spec

-----------------------------------------------------------------------------
(* Plans.                                                                  *)

(* The parts of a definition. *)
LEMMA DefParts ==
    ASSUME NEW d \in Definitions
    PROVE  /\ Len(d.units) \in Nat /\ Units(d) = 1..Len(d.units)
           /\ Len(d.params) \in Nat /\ DOMAIN d.params = 1..Len(d.params)
           /\ d.reblock \in Seq(Nat) /\ d.resample \in Nat
           /\ \A p \in DOMAIN d.params : d.params[p] \in Kind
           /\ \A u \in Units(d) :
                 /\ d.units[u].rate \in {"audio", "control", "scalar", "demand"}
                 /\ d.units[u].ins \in Seq(Input) /\ d.units[u].nout \in Nat
                 /\ d.units[u].size \in Nat /\ d.units[u].align \in {1, 2, 4, 8}
                 /\ d.units[u].aux \in Nat /\ d.units[u].pool \in BOOLEAN
<1>1. d.units \in Seq(UnitSpec) /\ d.params \in Seq(Kind) /\ d.reblock \in Seq(Nat) /\ d.resample \in Nat
  BY DEF Definitions
<1>2. Units(d) = 1..Len(d.units) /\ Len(d.units) \in Nat /\ \A u \in Units(d) : d.units[u] \in UnitSpec
  BY <1>1 DEF Units
<1>3. Len(d.params) \in Nat /\ DOMAIN d.params = 1..Len(d.params) /\ \A p \in DOMAIN d.params : d.params[p] \in Kind
  BY <1>1
<1>4. \A v \in UnitSpec :
         /\ v.rate \in {"audio", "control", "scalar", "demand"}
         /\ v.ins \in Seq(Input) /\ v.nout \in Nat
         /\ v.size \in Nat /\ v.align \in {1, 2, 4, 8}
         /\ v.aux \in Nat /\ v.pool \in BOOLEAN
  BY DEF UnitSpec
<1> QED
  BY <1>1, <1>2, <1>3, <1>4

(* A block is a number of samples, no more than the World's once accepted. *)
LEMMA BlockIs ==
    ASSUME NEW d \in Definitions
    PROVE  BlockSize(d) \in Nat /\ (~Refused(d) => BlockSize(d) <= WorldBlock)
<1>1. d.reblock \in Seq(Nat) /\ WorldBlock \in Nat
  BY DefParts, CompileAssumption
<1>2. CASE d.reblock = <<>>
  BY <1>1, <1>2 DEF BlockSize
<1>3. CASE d.reblock # <<>>
  <2>1. d.reblock[1] \in Nat /\ BlockSize(d) = d.reblock[1]
    BY <1>1, <1>3 DEF BlockSize
  <2>2. ~Refused(d) => BlockSize(d) <= WorldBlock
    BY <1>3 DEF Refused, InvalidReblock
  <2> QED
    BY <2>1, <2>2
<1> QED
  BY <1>2, <1>3

(* An offset moves up to the next multiple of an alignment. *)
LEMMA AlignUpIs ==
    ASSUME NEW x \in Nat, NEW a \in {1, 2, 4, 8}
    PROVE  AlignUp(x, a) \in Nat /\ AlignUp(x, a) >= x /\ AlignUp(x, a) % a = 0
<1>1. CASE a = 1
  BY <1>1 DEF AlignUp
<1>2. CASE a = 2
  BY <1>2 DEF AlignUp
<1>3. CASE a = 4
  BY <1>3 DEF AlignUp
<1>4. CASE a = 8
  BY <1>4 DEF AlignUp
<1> QED
  BY <1>1, <1>2, <1>3, <1>4

(* Running totals exist, and are numbers. *)
Totals(f, n, add) == \A k \in 0..n : f[k] = IF k = 0 THEN 0 ELSE f[k - 1] + add[k]
LEMMA TotalsExist ==
    ASSUME NEW n \in Nat, NEW add \in [1..n -> Nat]
    PROVE  \E f \in [0..n -> Nat] : Totals(f, n, add)
<1> DEFINE step == [p \in (1..n) \X Nat |-> p[2] + add[p[1]]]
<1>1. step \in [(1..n) \X Nat -> Nat]
  OBVIOUS
<1>2. \A k \in 1..n, x \in Nat : step[<<k, x>>] = x + add[k]
  OBVIOUS
<1> HIDE DEF step
<1>3. PICK f \in [0..n -> Nat] : Recurs(f, n, step, 0)
  BY <1>1, RecursionExists
<1>4. \A k \in 0..n : k # 0 => k \in 1..n /\ k - 1 \in 0..n
  OBVIOUS
<1>5. Totals(f, n, add)
  BY <1>2, <1>3, <1>4 DEF Recurs, Totals
<1> QED
  BY <1>5

(* The outputs of a set of units, as such totals. *)
LEMMA OutsTotal ==
    ASSUME NEW d \in Definitions, NEW S
    PROVE  \E f \in [0..Len(d.units) -> Nat] :
              /\ Totals(f, Len(d.units), [k \in 1..Len(d.units) |-> IF k \in S THEN d.units[k].nout ELSE 0])
              /\ Outs(d, S) = f[Len(d.units)]
<1> DEFINE n == Len(d.units)
           add == [k \in 1..n |-> IF k \in S THEN d.units[k].nout ELSE 0]
           body(g) == [k \in 0..n |-> IF k = 0 THEN 0 ELSE g[k - 1] + (IF k \in S THEN d.units[k].nout ELSE 0)]
           f == CHOOSE g : g = body(g)
<1>1. n \in Nat /\ add \in [1..n -> Nat]
  <2>1. \A k \in 1..n : d.units[k].nout \in Nat
    BY DefParts
  <2> QED
    BY <2>1, DefParts
<1>2. \A k \in 1..n : add[k] = IF k \in S THEN d.units[k].nout ELSE 0
  OBVIOUS
<1>3. Outs(d, S) = f[n]
  BY DEF Outs
<1> HIDE DEF add, n
<1>4. PICK g \in [0..n -> Nat] : Totals(g, n, add)
  BY <1>1, TotalsExist
<1>5. g = body(g)
  <2>1. \A k \in 0..n : k # 0 => k \in 1..n
    BY <1>1
  <2> QED
    BY <1>2, <1>4, <2>1 DEF Totals
<1>6. f = body(f)
  <2> HIDE DEF body
  <2> QED
    BY <1>5
<1> HIDE DEF f
<1>7. DOMAIN f = 0..n /\ \A k \in 0..n : f[k] = IF k = 0 THEN 0 ELSE f[k - 1] + add[k]
  <2>1. \A k \in 0..n : k # 0 => k \in 1..n
    BY <1>1
  <2> QED
    BY <1>2, <1>6, <2>1
<1>8. \A k \in 0..n : f[k] \in Nat
  <2>1. 0 \in 0..n /\ f[0] \in Nat
    BY <1>1, <1>7
  <2>2. ASSUME NEW k \in 1..n, f[k - 1] \in Nat PROVE f[k] \in Nat
    <3>1. k \in 0..n /\ k # 0
      BY <1>1
    <3> QED
      BY <1>1, <1>7, <2>2, <3>1, SMTT(30)
  <2> QED
    BY <1>1, <2>1, <2>2, RecursionStays
<1>9. f \in [0..n -> Nat]
  <2>1. f = [k \in 0..n |-> f[k]]
    BY <1>6
  <2> QED
    BY <1>8, <2>1
<1> QED
  BY <1>3, <1>7, <1>9 DEF Totals, add, n

(* A total that starts no higher and never gains is no higher at the end. *)
LEMMA Dominates ==
    ASSUME NEW n \in Nat, NEW f \in [0..n -> Int], NEW g \in [0..n -> Int], f[0] <= g[0],
           \A k \in 1..n : f[k] - f[k - 1] <= g[k] - g[k - 1]
    PROVE  \A k \in 0..n : f[k] <= g[k]
<1> DEFINE D == {x \in Int : x >= 0}
           h == [k \in 0..n |-> g[k] - f[k]]
<1>1. \A k \in 1..n : k \in 0..n /\ k - 1 \in 0..n
  OBVIOUS
<1>2. h[0] \in D
  BY <1>1
<1>3. \A k \in 1..n : h[k - 1] \in D => h[k] \in D
  BY <1>1, SMTT(30)
<1>4. \A k \in 0..n : h[k] \in D
  <2> HIDE DEF h, D
  <2> QED
    BY <1>2, <1>3, RecursionStays
<1> QED
  BY <1>4

(* Of two totals, one whose every summand is at least the other's gains at *)
(* least what one summand gains.                                           *)
LEMMA TotalsGrow ==
    ASSUME NEW n \in Nat, NEW a \in [1..n -> Nat], NEW b \in [1..n -> Nat],
           NEW f \in [0..n -> Nat], NEW g \in [0..n -> Nat], Totals(f, n, a), Totals(g, n, b),
           NEW u \in 1..n, NEW c \in Nat,
           \A k \in 1..n : a[k] <= b[k], a[u] + c <= b[u]
    PROVE  f[n] + c <= g[n]
<1> DEFINE plus(k) == IF k >= u THEN c ELSE 0
           e == [k \in 0..n |-> f[k] + plus(k)]
<1>1. \A k \in 1..n : /\ k \in 0..n /\ k - 1 \in 0..n /\ k # 0
                        /\ f[k] = f[k - 1] + a[k] /\ g[k] = g[k - 1] + b[k]
  <2> SUFFICES ASSUME NEW k \in 1..n
               PROVE  /\ k \in 0..n /\ k - 1 \in 0..n /\ k # 0
                      /\ f[k] = f[k - 1] + a[k] /\ g[k] = g[k - 1] + b[k]
    OBVIOUS
  <2>1. k \in 0..n /\ k - 1 \in 0..n /\ k # 0
    OBVIOUS
  <2> QED
    BY <2>1 DEF Totals
<1>2. e[0] = 0 /\ g[0] = 0
  BY DEF Totals
<1>3. \A k \in 0..n : e[k] = f[k] + plus(k) /\ plus(k) \in Nat
  OBVIOUS
<1>4. e \in [0..n -> Int] /\ g \in [0..n -> Int]
  <2>1. \A k \in 0..n : f[k] + plus(k) \in Int
    BY <1>3, SMTT(30)
  <2> HIDE DEF plus
  <2> QED
    BY <2>1, SMTT(30)
<1>5. \A k \in 1..n : plus(k) = plus(k - 1) + (IF k = u THEN c ELSE 0)
  OBVIOUS
<1> HIDE DEF e, plus
<1>6. ASSUME NEW k \in 1..n PROVE e[k] - e[k - 1] <= g[k] - g[k - 1]
  <2>1. /\ e[k] = f[k] + plus(k) /\ e[k - 1] = f[k - 1] + plus(k - 1)
        /\ plus(k) \in Nat /\ plus(k - 1) \in Nat
        /\ f[k] = f[k - 1] + a[k] /\ g[k] = g[k - 1] + b[k]
        /\ f[k - 1] \in Nat /\ g[k - 1] \in Nat /\ a[k] \in Nat /\ b[k] \in Nat
    BY <1>1, <1>3
  <2>4. \A f1, p1, a1, g1, b1, c1 \in Nat :
           a1 + c1 <= b1 => ((f1 + a1) + (p1 + c1)) - (f1 + p1) <= (g1 + b1) - g1
    OBVIOUS
  <2>2. CASE k = u
    <3>1. plus(k) = plus(k - 1) + c /\ a[k] + c <= b[k]
      BY <1>5, <2>2
    <3> QED
      BY <2>4, <2>1, <3>1, ZenonT(30)
  <2>3. CASE k # u
    <3>1. plus(k) = plus(k - 1) + 0 /\ a[k] <= b[k]
      BY <1>5, <2>3
    <3>2. a[k] + 0 <= b[k]
      BY <2>1, <3>1
    <3> QED
      BY <2>4, <2>1, <3>1, <3>2, ZenonT(30)
  <2> QED
    BY <2>2, <2>3
<1>7. e[n] <= g[n]
  <2>1. e[0] <= g[0]
    BY <1>2
  <2>2. \A k \in 0..n : e[k] <= g[k]
    BY <1>4, <1>6, <2>1, Dominates
  <2> QED
    BY <2>2
<1>8. e[n] = f[n] + c
  <2>1. plus(n) = c
    BY DEF plus
  <2> QED
    BY <1>3, <2>1
<1> QED
  BY <1>7, <1>8

(* More units have more outputs, by at least those of a unit that is new.  *)
LEMMA OutsGrow ==
    ASSUME NEW d \in Definitions, NEW S, NEW T, S \subseteq T
    PROVE  /\ Outs(d, S) \in Nat /\ Outs(d, T) \in Nat
           /\ \A u \in Units(d) : u \in T \ S => Outs(d, S) + d.units[u].nout <= Outs(d, T)
<1> DEFINE n == Len(d.units)
           from(X) == [k \in 1..n |-> IF k \in X THEN d.units[k].nout ELSE 0]
<1>1. PICK f \in [0..n -> Nat] : Totals(f, n, from(S)) /\ Outs(d, S) = f[n]
  BY OutsTotal
<1>2. PICK g \in [0..n -> Nat] : Totals(g, n, from(T)) /\ Outs(d, T) = g[n]
  BY OutsTotal
<1>3. n \in Nat /\ Units(d) = 1..n /\ \A k \in 1..n : d.units[k].nout \in Nat
  BY DefParts
<1> HIDE DEF n
<1>4. Outs(d, S) \in Nat /\ Outs(d, T) \in Nat
  BY <1>1, <1>2, <1>3
<1>5. ASSUME NEW u \in 1..n, u \in T \ S PROVE f[n] + d.units[u].nout <= g[n]
  <2>1. from(S) \in [1..n -> Nat] /\ from(T) \in [1..n -> Nat]
    BY <1>3
  <2>2. \A k \in 1..n : from(S)[k] <= from(T)[k]
    BY <1>3
  <2>3. from(S)[u] + d.units[u].nout <= from(T)[u]
    BY <1>3, <1>5, SMTT(30)
  <2> HIDE DEF from
  <2> QED
    BY <1>1, <1>2, <1>3, <2>1, <2>2, <2>3, TotalsGrow
<1> QED
  BY <1>1, <1>2, <1>3, <1>4, <1>5

(* Units are numbered within their kind: their indices are all the numbers *)
(* below their count, each once.                                           *)
LEMMA IndexIs ==
    ASSUME NEW n \in Nat, NEW S \in SUBSET (1..n)
    PROVE  /\ Cardinality(S) \in Nat
           /\ \A u \in S : Index(S, u) \in 0..(Cardinality(S) - 1)
           /\ \A u, v \in S : u < v => Index(S, u) < Index(S, v)
           /\ \A u, v \in S : Index(S, u) = Index(S, v) => u = v
           /\ \A k \in 0..(Cardinality(S) - 1) : \E u \in S : Index(S, u) = k
<1>0. \A u \in S : u \in Nat
  OBVIOUS
<1>1. IsFiniteSet(S) /\ Cardinality(S) \in Nat
  <2>1. IsFiniteSet(1..n)
    BY FS_Interval
  <2>2. IsFiniteSet(S)
    BY <2>1, FS_Subset
  <2> QED
    BY <2>2, FS_CardinalityType
<1>2. \A u \in S : /\ IsFiniteSet(Before(S, u)) /\ Index(S, u) \in Nat
                   /\ IsFiniteSet(Before(S, u) \cup {u})
                   /\ Cardinality(Before(S, u) \cup {u}) = Index(S, u) + 1
  <2> SUFFICES ASSUME NEW u \in S
               PROVE  /\ IsFiniteSet(Before(S, u)) /\ Index(S, u) \in Nat
                      /\ IsFiniteSet(Before(S, u) \cup {u})
                      /\ Cardinality(Before(S, u) \cup {u}) = Index(S, u) + 1
    OBVIOUS
  <2>1. Before(S, u) \in SUBSET S /\ u \notin Before(S, u)
    BY DEF Before
  <2>2. IsFiniteSet(Before(S, u)) /\ Index(S, u) \in Nat
    BY <1>1, <2>1, FS_Subset, FS_CardinalityType DEF Index
  <2> QED
    BY <2>1, <2>2, FS_AddElement DEF Index
<1>3. ASSUME NEW u \in S PROVE Index(S, u) \in 0..(Cardinality(S) - 1)
  <2>1. Before(S, u) \cup {u} \in SUBSET S
    BY DEF Before
  <2>2. Cardinality(Before(S, u) \cup {u}) <= Cardinality(S)
    BY <1>1, <2>1, FS_Subset
  <2> QED
    <3>1. Index(S, u) \in Nat /\ Index(S, u) + 1 <= Cardinality(S)
      BY <1>2, <2>2
    <3> QED
      BY <1>1, <3>1
<1>4. ASSUME NEW u \in S, NEW v \in S, u < v PROVE Index(S, u) < Index(S, v)
  <2>1. Before(S, u) \cup {u} \in SUBSET Before(S, v)
    <3>1. ASSUME NEW w \in Before(S, u) \cup {u} PROVE w \in S /\ w < v
      <4>1. u \in Nat /\ v \in Nat /\ w \in S /\ w \in Nat /\ (w = u \/ w < u)
        BY <1>0 DEF Before
      <4> QED
        BY <1>4, <4>1
    <3> QED
      BY <3>1 DEF Before
  <2>2. Cardinality(Before(S, u) \cup {u}) <= Index(S, v)
    BY <1>2, <2>1, FS_Subset DEF Index
  <2>3. Index(S, u) \in Nat /\ Index(S, v) \in Nat /\ Index(S, u) + 1 <= Index(S, v)
    BY <1>2, <2>2
  <2> QED
    BY <2>3
<1>5. ASSUME NEW u \in S, NEW v \in S, Index(S, u) = Index(S, v) PROVE u = v
  <2>1. Index(S, u) \in Nat /\ u \in Nat /\ v \in Nat
    BY <1>0, <1>2
  <2>2. ~(u < v) /\ ~(v < u)
    BY <1>4, <1>5, <2>1
  <2> QED
    BY <2>1, <2>2
<1>6. ASSUME NEW k \in 0..(Cardinality(S) - 1) PROVE \E u \in S : Index(S, u) = k
  <2> DEFINE K == 0..(Cardinality(S) - 1)
             f == [u \in S |-> Index(S, u)]
  <2>1. IsFiniteSet(K) /\ Cardinality(K) = Cardinality(S)
    BY <1>1, FS_Interval
  <2>2. f \in Injection(S, K)
    <3>1. f \in [S -> K]
      BY <1>3
    <3>2. \A u, v \in S : f[u] = f[v] => u = v
      BY <1>5
    <3> QED
      BY <3>1, <3>2 DEF Injection, IsInjective
  <2>3. f \in Surjection(S, K)
    <3> HIDE DEF f, K
    <3> QED
      BY <2>1, <2>2, FS_Injection
  <2> QED
    BY <2>3 DEF Surjection
<1> QED
  BY <1>1, <1>3, <1>4, <1>5, <1>6

(* The unit of a number. *)
LEMMA Numbered ==
    ASSUME NEW n \in Nat, NEW S \in SUBSET (1..n)
    PROVE  /\ \A u \in S : (CHOOSE v \in S : Index(S, v) = Index(S, u)) = u
           /\ \A k \in 0..(Cardinality(S) - 1) : LET u == CHOOSE v \in S : Index(S, v) = k
                                                 IN  u \in S /\ Index(S, u) = k
<1>1. /\ \A u, v \in S : Index(S, u) = Index(S, v) => u = v
      /\ \A k \in 0..(Cardinality(S) - 1) : \E u \in S : Index(S, u) = k
  BY IndexIs
<1> QED
  BY <1>1

(* A list of units has as many entries as units, each in its place.        *)
Listed(S, f) == [i \in 1..Cardinality(S) |-> f[CHOOSE v \in S : Index(S, v) = i - 1]]
LEMMA ListIs ==
    ASSUME NEW n \in Nat, NEW S \in SUBSET (1..n), NEW f
    PROVE  /\ DOMAIN Listed(S, f) = 1..Cardinality(S) /\ Cardinality(S) \in Nat
           /\ \A i \in 1..Cardinality(S) : \E u \in S : Listed(S, f)[i] = f[u]
           /\ \A u \in S : /\ Index(S, u) + 1 \in 1..Cardinality(S)
                           /\ Listed(S, f)[Index(S, u) + 1] = f[u]
<1>1. Cardinality(S) \in Nat /\ \A u \in S : Index(S, u) \in 0..(Cardinality(S) - 1)
  BY IndexIs
<1>2. \A i \in 1..Cardinality(S) : i - 1 \in 0..(Cardinality(S) - 1)
  BY <1>1
<1>3. ASSUME NEW i \in 1..Cardinality(S) PROVE \E u \in S : Listed(S, f)[i] = f[u]
  BY <1>2, Numbered DEF Listed
<1>4. ASSUME NEW u \in S
      PROVE  Index(S, u) + 1 \in 1..Cardinality(S) /\ Listed(S, f)[Index(S, u) + 1] = f[u]
  <2>1. Index(S, u) + 1 \in 1..Cardinality(S) /\ (Index(S, u) + 1) - 1 = Index(S, u)
    BY <1>1
  <2>2. Listed(S, f)[Index(S, u) + 1] = f[CHOOSE v \in S : Index(S, v) = Index(S, u)]
    BY <2>1 DEF Listed
  <2> QED
    BY <2>1, <2>2, Numbered
<1> QED
  BY <1>1, <1>3, <1>4 DEF Listed

(* The slots of units: the states, and the regions. *)
Packed == [size : Nat, align : {1, 2, 4, 8}]
LEMMA SlotsAre ==
    ASSUME NEW d \in Definitions, NEW S \in SUBSET Units(d)
    PROVE  /\ StateSlots(d, S) \in Seq(Packed) /\ AuxSlots(d, S) \in Seq(Packed)
           /\ Len(StateSlots(d, S)) = Cardinality(S) /\ Len(AuxSlots(d, S)) = Cardinality(S)
           /\ Cardinality(S) \in Nat
           /\ \A u \in S : /\ Index(S, u) + 1 \in 1..Cardinality(S)
                           /\ StateSlots(d, S)[Index(S, u) + 1].size = d.units[u].size
                           /\ StateSlots(d, S)[Index(S, u) + 1].align = d.units[u].align
                           /\ AuxSlots(d, S)[Index(S, u) + 1].size = d.units[u].aux
                           /\ d.units[u].aux > 0 => AuxSlots(d, S)[Index(S, u) + 1].align = 4
<1> DEFINE c == Cardinality(S)
           f == [u \in S |-> [size |-> d.units[u].size, align |-> d.units[u].align]]
           g == [u \in S |-> [size |-> d.units[u].aux, align |-> IF d.units[u].aux = 0 THEN 1 ELSE 4]]
           s == Listed(S, f)
           t == Listed(S, g)
<1>1. PICK n \in Nat : S \in SUBSET (1..n)
  BY DefParts
<1>2. c \in Nat /\ \A i \in 1..c : (CHOOSE v \in S : Index(S, v) = i - 1) \in S
  <2>1. c \in Nat
    BY <1>1, IndexIs
  <2>2. \A i \in 1..c : i - 1 \in 0..(c - 1)
    BY <2>1
  <2> QED
    <3> SUFFICES ASSUME NEW i \in 1..c PROVE (CHOOSE v \in S : Index(S, v) = i - 1) \in S
      BY <2>1
    <3>1. i - 1 \in 0..(c - 1)
      BY <2>2
    <3> QED
      BY <1>1, <3>1, Numbered
<1>3. StateSlots(d, S) = s /\ AuxSlots(d, S) = t
  BY <1>2 DEF StateSlots, AuxSlots, Slots, Listed
<1>4. \A u \in S : f[u] \in Packed /\ g[u] \in Packed
  BY DefParts DEF Packed
<1>5. /\ DOMAIN s = 1..c /\ \A i \in 1..c : \E u \in S : s[i] = f[u]
      /\ \A u \in S : Index(S, u) + 1 \in 1..c /\ s[Index(S, u) + 1] = f[u]
  <2> HIDE DEF f
  <2>1. /\ DOMAIN Listed(S, f) = 1..Cardinality(S) /\ Cardinality(S) \in Nat
        /\ \A i \in 1..Cardinality(S) : \E u \in S : Listed(S, f)[i] = f[u]
        /\ \A u \in S : /\ Index(S, u) + 1 \in 1..Cardinality(S)
                        /\ Listed(S, f)[Index(S, u) + 1] = f[u]
    BY <1>1, ListIs
  <2> QED
    BY <2>1
<1>6. /\ DOMAIN t = 1..c /\ \A i \in 1..c : \E u \in S : t[i] = g[u]
      /\ \A u \in S : Index(S, u) + 1 \in 1..c /\ t[Index(S, u) + 1] = g[u]
  <2> HIDE DEF g
  <2>1. /\ DOMAIN Listed(S, g) = 1..Cardinality(S) /\ Cardinality(S) \in Nat
        /\ \A i \in 1..Cardinality(S) : \E u \in S : Listed(S, g)[i] = g[u]
        /\ \A u \in S : /\ Index(S, u) + 1 \in 1..Cardinality(S)
                        /\ Listed(S, g)[Index(S, u) + 1] = g[u]
    BY <1>1, ListIs
  <2> QED
    BY <2>1
<1>7. s \in Seq(Packed) /\ t \in Seq(Packed) /\ Len(s) = c /\ Len(t) = c
  <2>1. /\ s = [i \in 1..c |-> s[i]] /\ \A i \in 1..c : s[i] \in Packed
        /\ t = [i \in 1..c |-> t[i]] /\ \A i \in 1..c : t[i] \in Packed
    <3>1. s = [i \in 1..c |-> s[i]] /\ t = [i \in 1..c |-> t[i]]
      BY DEF Listed
    <3> HIDE DEF s, t, f, g
    <3> QED
      BY <1>4, <1>5, <1>6, <3>1
  <2> HIDE DEF s, t, c
  <2>2. s \in [1..c -> Packed] /\ t \in [1..c -> Packed]
    BY <2>1
  <2> QED
    BY <1>2, <2>2
<1>8. \A u \in S : /\ f[u].size = d.units[u].size /\ f[u].align = d.units[u].align
                   /\ g[u].size = d.units[u].aux
                   /\ d.units[u].aux > 0 => g[u].align = 4
  OBVIOUS
<1> HIDE DEF s, t, f, g
<1> QED
  BY <1>2, <1>3, <1>5, <1>6, <1>7, <1>8

(* What never falls from one step to the next never falls. *)
LEMMA Rises ==
    ASSUME NEW n \in Nat, NEW f \in [0..n -> Nat], \A k \in 1..n : f[k - 1] <= f[k],
           NEW i \in 0..n, NEW j \in 0..n, i <= j
    PROVE  f[i] <= f[j]
<1> DEFINE g == [k \in 0..n |-> IF k <= i THEN f[i] ELSE f[k]]
           P == {x \in Nat : f[i] <= x}
<1>1. g[0] \in P
  OBVIOUS
<1>2. ASSUME NEW k \in 1..n, g[k - 1] \in P PROVE g[k] \in P
  <2>1. k \in 0..n /\ k - 1 \in 0..n /\ f[k] \in Nat /\ f[k - 1] \in Nat /\ f[i] \in Nat
    OBVIOUS
  <2>2. CASE k <= i
    BY <2>1, <2>2
  <2>3. CASE k > i
    <3>1. f[i] <= f[k - 1]
      <4>1. CASE k - 1 = i
        BY <2>1, <4>1
      <4>2. CASE k - 1 > i
        BY <1>2, <2>1, <4>2
      <4> QED
        BY <2>3, <4>1, <4>2
    <3>2. f[i] <= f[k] /\ g[k] = f[k]
      BY <2>1, <2>3, <3>1
    <3> QED
      BY <2>1, <3>2
  <2> QED
    BY <2>2, <2>3
<1>3. \A k \in 0..n : g[k] \in P
  <2> HIDE DEF g, P
  <2> QED
    BY <1>1, <1>2, RecursionStays
<1>4. g[j] \in P
  BY <1>3
<1> QED
  BY <1>4

(* Packed slots are aligned, lie one after the other and end at the end.   *)
LEMMA PackIs ==
    ASSUME NEW slots \in Seq(Packed)
    PROVE  LET p == Pack(slots)
           IN  /\ p.end \in Nat
               /\ \A i \in 1..Len(slots) :
                     /\ p.offs[i] \in Nat /\ p.offs[i] % slots[i].align = 0
                     /\ p.offs[i] + slots[i].size <= p.end
                     /\ \A j \in 1..Len(slots) : i < j => p.offs[i] + slots[i].size <= p.offs[j]
<1> DEFINE n == Len(slots)
           body(g) == [k \in 0..n |-> IF k = 0 THEN 0 ELSE AlignUp(g[k - 1], slots[k].align) + slots[k].size]
           end == CHOOSE g : g = body(g)
           step == [p \in (1..n) \X Nat |-> AlignUp(p[2], slots[p[1]].align) + slots[p[1]].size]
<1>1. n \in Nat /\ \A k \in 1..n : slots[k].align \in {1, 2, 4, 8} /\ slots[k].size \in Nat
  <2>1. n \in Nat /\ \A k \in 1..n : slots[k] \in Packed
    OBVIOUS
  <2> QED
    BY <2>1 DEF Packed
<1>2. \A k \in 1..n, x \in Nat : AlignUp(x, slots[k].align) + slots[k].size \in Nat
  <2> SUFFICES ASSUME NEW k \in 1..n, NEW x \in Nat
               PROVE  AlignUp(x, slots[k].align) + slots[k].size \in Nat
    OBVIOUS
  <2>1. AlignUp(x, slots[k].align) \in Nat /\ slots[k].size \in Nat
    BY <1>1, AlignUpIs
  <2> HIDE DEF n
  <2> QED
    BY <2>1
<1>3. /\ Pack(slots).end = end[n]
      /\ \A k \in 1..n : Pack(slots).offs[k] = AlignUp(end[k - 1], slots[k].align)
  BY DEF Pack
<1>4. /\ step \in [(1..n) \X Nat -> Nat]
      /\ \A k \in 1..n, x \in Nat : step[<<k, x>>] = AlignUp(x, slots[k].align) + slots[k].size
  BY <1>2
<1> HIDE DEF step, n
<1>5. PICK g \in [0..n -> Nat] : Recurs(g, n, step, 0)
  BY <1>1, <1>4, RecursionExists
<1>6. \A k \in 0..n : k # 0 => k \in 1..n /\ k - 1 \in 0..n
  BY <1>1
<1>7. g = body(g)
  <2>1. \A k \in 0..n : g[k] = IF k = 0 THEN 0 ELSE AlignUp(g[k - 1], slots[k].align) + slots[k].size
    <3> SUFFICES ASSUME NEW k \in 0..n
                 PROVE  g[k] = IF k = 0 THEN 0 ELSE AlignUp(g[k - 1], slots[k].align) + slots[k].size
      OBVIOUS
    <3>1. CASE k = 0
      BY <1>5, <3>1 DEF Recurs
    <3>2. CASE k # 0
      BY <1>4, <1>5, <1>6, <3>2 DEF Recurs
    <3> QED
      BY <3>1, <3>2
  <2> QED
    BY <1>5, <2>1
<1>8. end = body(end)
  <2> HIDE DEF body
  <2> QED
    BY <1>7
<1> HIDE DEF end
<1>9. end[0] = 0 /\ \A k \in 1..n : end[k] = AlignUp(end[k - 1], slots[k].align) + slots[k].size
  <2>1. \A k \in 0..n : end[k] = IF k = 0 THEN 0 ELSE AlignUp(end[k - 1], slots[k].align) + slots[k].size
    BY <1>8
  <2>2. 0 \in 0..n /\ \A k \in 1..n : k \in 0..n /\ k # 0
    BY <1>1
  <2> HIDE DEF body
  <2> QED
    BY <2>1, <2>2
<1>10. \A k \in 0..n : end[k] \in Nat
  <2>1. end[0] \in Nat
    BY <1>9
  <2>2. \A k \in 1..n : end[k - 1] \in Nat => end[k] \in Nat
    BY <1>2, <1>9
  <2> QED
    BY <1>1, <2>1, <2>2, RecursionStays
<1> DEFINE off(k) == AlignUp(end[k - 1], slots[k].align)
<1>11. \A k \in 1..n : /\ off(k) \in Nat /\ off(k) % slots[k].align = 0 /\ end[k - 1] <= off(k)
                       /\ end[k] = off(k) + slots[k].size /\ end[k - 1] <= end[k]
                       /\ end[k] \in Nat /\ end[k - 1] \in Nat
  <2> SUFFICES ASSUME NEW k \in 1..n
               PROVE  /\ off(k) \in Nat /\ off(k) % slots[k].align = 0 /\ end[k - 1] <= off(k)
                      /\ end[k] = off(k) + slots[k].size /\ end[k - 1] <= end[k]
                      /\ end[k] \in Nat /\ end[k - 1] \in Nat
    OBVIOUS
  <2>1. k \in 0..n /\ k - 1 \in 0..n
    BY <1>1
  <2>2. end[k - 1] \in Nat /\ end[k] \in Nat /\ slots[k].align \in {1, 2, 4, 8} /\ slots[k].size \in Nat
    BY <1>1, <1>10, <2>1
  <2>3. off(k) \in Nat /\ off(k) % slots[k].align = 0 /\ end[k - 1] <= off(k)
    <3> DEFINE x == end[k - 1]
               a == slots[k].align
    <3>1. x \in Nat /\ a \in {1, 2, 4, 8}
      BY <2>2
    <3>2. off(k) = AlignUp(x, a)
      OBVIOUS
    <3> HIDE DEF x, a, off
    <3>3. AlignUp(x, a) \in Nat /\ AlignUp(x, a) >= x /\ AlignUp(x, a) % a = 0
      BY <3>1, AlignUpIs
    <3>4. off(k) \in Nat /\ off(k) % a = 0 /\ x <= off(k)
      BY <3>1, <3>2, <3>3
    <3> QED
      BY <3>4 DEF x, a
  <2>4. end[k] = off(k) + slots[k].size
    BY <1>9
  <2> HIDE DEF off
  <2> QED
    BY <2>2, <2>3, <2>4
<1> HIDE DEF off
<1>12. ASSUME NEW i \in 1..n, NEW j \in 0..n, i <= j PROVE end[i] <= end[j]
  <2>1. end \in [0..n -> Nat]
    <3>1. end = [k \in 0..n |-> end[k]]
      BY <1>8
    <3> QED
      BY <1>10, <3>1
  <2>2. \A k \in 1..n : end[k - 1] <= end[k]
    BY <1>11
  <2>3. i \in 0..n
    BY <1>1
  <2> HIDE DEF end
  <2> QED
    BY <1>1, <1>12, <2>1, <2>2, <2>3, Rises
<1>13. ASSUME NEW i \in 1..n
       PROVE  /\ off(i) + slots[i].size <= end[n]
              /\ \A j \in 1..n : i < j => off(i) + slots[i].size <= off(j)
  <2>1. off(i) + slots[i].size = end[i] /\ end[i] \in Nat /\ n \in 0..n /\ i <= n
    BY <1>1, <1>11
  <2>2. end[i] <= end[n]
    BY <1>12, <2>1
  <2>3. ASSUME NEW j \in 1..n, i < j PROVE end[i] <= off(j)
    <3>1. j - 1 \in 0..n /\ i <= j - 1
      BY <1>1, <2>3
    <3>2. end[i] <= end[j - 1]
      BY <1>12, <3>1
    <3> QED
      BY <1>11, <2>1, <3>2
  <2> QED
    BY <2>1, <2>2, <2>3
<1>14. \A k \in 1..n : Pack(slots).offs[k] = off(k)
  BY <1>3 DEF off
<1>15. end[n] \in Nat
  BY <1>1, <1>10
<1> QED
  BY <1>3, <1>11, <1>13, <1>14, <1>15 DEF n

(* Parameters and units of a kind can be counted. *)
LEMMA Counts ==
    ASSUME NEW d \in Definitions
    PROVE  /\ \A S \in SUBSET Units(d) : Cardinality(S) \in Nat
           /\ \A kind : Cardinality(ParamsOf(d, kind)) \in Nat
           /\ NumControlWires(d) \in Nat /\ LocalChannels(d) \in Nat
           /\ CalcUnits(d) \subseteq Units(d) /\ DemandUnits(d) \subseteq Units(d)
           /\ AudioUnits(d) \subseteq CalcUnits(d) /\ ControlUnits(d) \subseteq CalcUnits(d)
<1>1. \A S \in SUBSET Units(d) : Cardinality(S) \in Nat
  BY DefParts, IndexIs
<1>2. ASSUME NEW kind PROVE Cardinality(ParamsOf(d, kind)) \in Nat
  <2>1. PICK n \in Nat : ParamsOf(d, kind) \in SUBSET (1..n)
    BY DefParts DEF ParamsOf
  <2> QED
    BY <2>1, IndexIs
<1>3. NumControlWires(d) \in Nat
  <2>1. Outs(d, ControlUnits(d)) \in Nat
    BY OutsGrow
  <2> QED
    BY <1>2, <2>1, DefParts DEF NumControlWires
<1>4. LocalChannels(d) \in Nat
  BY DefParts DEF LocalChannels
<1> QED
  BY <1>1, <1>2, <1>3, <1>4 DEF CalcUnits, DemandUnits, AudioUnits, ControlUnits

(* The ends of what is packed. *)
LEMMA EndsAre ==
    ASSUME NEW d \in Definitions
    PROVE  States(d).end \in Nat /\ Demands(d).end \in Nat /\ Auxes(d).end \in Nat
<1>1. /\ StateSlots(d, CalcUnits(d)) \in Seq(Packed) /\ AuxSlots(d, CalcUnits(d)) \in Seq(Packed)
      /\ StateSlots(d, DemandUnits(d)) \in Seq(Packed) /\ AuxSlots(d, DemandUnits(d)) \in Seq(Packed)
  BY Counts, SlotsAre
<1>2. StateSlots(d, DemandUnits(d)) \o AuxSlots(d, DemandUnits(d)) \in Seq(Packed)
  BY <1>1, ConcatProperties
<1> QED
  BY <1>1, <1>2, PackIs DEF States, Demands, Auxes

(* The spans: ten, each of some length, under ten names. *)
LEMMA LengthsAre ==
    ASSUME NEW d \in Definitions
    PROVE  LET L == SpanLengths(d)
           IN  /\ Len(L) = 10 /\ DOMAIN L = 1..10
               /\ \A k \in 1..10 : L[k][2] \in Nat /\ L[k][2] % 4 = 0
               /\ \A n \in SpanNames : \E k \in 1..10 : L[k][1] = n
               /\ L[1][2] = AlignUp(States(d).end, 8) /\ L[2][2] = AlignUp(Demands(d).end, 8)
               /\ L[3][2] = AlignUp(Auxes(d).end, 8) /\ L[4][2] = 4 * NumControlWires(d)
               /\ \A k \in 1..10 : /\ L[k][1] = "state" => k = 1
                                   /\ L[k][1] = "demand" => k = 2
                                   /\ L[k][1] = "aux" => k = 3
                                   /\ L[k][1] = "control" => k = 4
<1>1. /\ AlignUp(States(d).end, 8) \in Nat /\ AlignUp(Demands(d).end, 8) \in Nat
      /\ AlignUp(Auxes(d).end, 8) \in Nat
      /\ AlignUp(States(d).end, 8) % 4 = 0 /\ AlignUp(Demands(d).end, 8) % 4 = 0
      /\ AlignUp(Auxes(d).end, 8) % 4 = 0
  <2>1. \A x \in Nat : x % 8 = 0 => x % 4 = 0
    OBVIOUS
  <2>2. /\ AlignUp(States(d).end, 8) \in Nat /\ AlignUp(Demands(d).end, 8) \in Nat
        /\ AlignUp(Auxes(d).end, 8) \in Nat
        /\ AlignUp(States(d).end, 8) % 8 = 0 /\ AlignUp(Demands(d).end, 8) % 8 = 0
        /\ AlignUp(Auxes(d).end, 8) % 8 = 0
    BY EndsAre, AlignUpIs
  <2> QED
    BY <2>1, <2>2, Zenon
<1>0. \A x \in Nat : 4 * x \in Nat /\ (4 * x) % 4 = 0
  OBVIOUS
<1>2. /\ NumControlWires(d) \in Nat /\ Len(d.params) \in Nat
      /\ Cardinality(CalcUnits(d)) \in Nat /\ Cardinality(ParamsOf(d, "lag")) \in Nat
  BY Counts, DefParts
<1>3. 4 * LocalChannels(d) * BlockSize(d) \in Nat /\ (4 * LocalChannels(d) * BlockSize(d)) % 4 = 0
  <2>1. \A a, b \in Nat : a * b \in Nat /\ 4 * a * b = 4 * (a * b)
    OBVIOUS
  <2>2. LocalChannels(d) \in Nat /\ BlockSize(d) \in Nat
    BY Counts, BlockIs
  <2>3. LocalChannels(d) * BlockSize(d) \in Nat
        /\ 4 * LocalChannels(d) * BlockSize(d) = 4 * (LocalChannels(d) * BlockSize(d))
    BY <2>1, <2>2, Zenon
  <2> QED
    BY <1>0, <2>3, Zenon
<1>4. MetaBytes * NumLocalBufs(d) \in Nat /\ (MetaBytes * NumLocalBufs(d)) % 4 = 0
  <2>1. NumLocalBufs(d) \in Nat /\ MetaBytes \in Nat /\ MetaBytes % 4 = 0
    BY Counts, CompileAssumption DEF NumLocalBufs
  <2>2. PICK k \in Nat : MetaBytes = 4 * k
    <3>1. MetaBytes = 4 * (MetaBytes \div 4) /\ MetaBytes \div 4 \in Nat
      BY <2>1
    <3> QED
      BY <3>1
  <2>3. \A a, b \in Nat : a * b \in Nat /\ (4 * a) * b = 4 * (a * b)
    OBVIOUS
  <2>4. MetaBytes * NumLocalBufs(d) = 4 * (k * NumLocalBufs(d)) /\ k * NumLocalBufs(d) \in Nat
    BY <2>1, <2>2, <2>3, Zenon
  <2> QED
    BY <1>0, <2>4, Zenon
<1> DEFINE a == AlignUp(States(d).end, 8)
           b == AlignUp(Demands(d).end, 8)
           c == AlignUp(Auxes(d).end, 8)
           e == 4 * NumControlWires(d)
           f == 4 * Len(d.params)
           g == 4 * Cardinality(CalcUnits(d))
           h == 4 * LocalChannels(d) * BlockSize(d)
           m == MetaBytes * NumLocalBufs(d)
           q == 4 * Cardinality(ParamsOf(d, "lag"))
           L == << <<"state", a>>, <<"demand", b>>, <<"aux", c>>, <<"control", e>>, <<"pmaps", f>>,
                   <<"done", g>>, <<"local", h>>, <<"lbufmeta", m>>, <<"amaps", f>>, <<"lag", q>> >>
<1>5. SpanLengths(d) = L
  BY DEF SpanLengths
<1>6. {a, b, c, e, f, g, h, m, q} \subseteq {x \in Nat : x % 4 = 0}
  <2>1. e \in Nat /\ e % 4 = 0 /\ f \in Nat /\ f % 4 = 0 /\ g \in Nat /\ g % 4 = 0 /\ q \in Nat /\ q % 4 = 0
    BY <1>0, <1>2, Zenon
  <2> HIDE DEF e, f, g, q
  <2> QED
    BY <1>1, <1>3, <1>4, <2>1
<1> HIDE DEF a, b, c, e, f, g, h, m, q
<1>7. Len(L) = 10 /\ DOMAIN L = 1..10
  OBVIOUS
<1>8. \A k \in 1..10 : L[k][2] \in Nat /\ L[k][2] % 4 = 0
  BY <1>6
<1>9. \A n \in SpanNames : \E k \in 1..10 : L[k][1] = n
  <2>1. /\ L[1][1] = "state" /\ L[2][1] = "demand" /\ L[3][1] = "aux" /\ L[4][1] = "control"
        /\ L[5][1] = "pmaps" /\ L[6][1] = "done" /\ L[7][1] = "local" /\ L[8][1] = "lbufmeta"
        /\ L[9][1] = "amaps" /\ L[10][1] = "lag"
    OBVIOUS
  <2> HIDE DEF L
  <2> QED
    BY <2>1 DEF SpanNames
<1>10. /\ L[1][2] = a /\ L[2][2] = b /\ L[3][2] = c /\ L[4][2] = e
  OBVIOUS
<1>11. \A k \in 1..10 : /\ L[k][1] = "state" => k = 1
                        /\ L[k][1] = "demand" => k = 2
                        /\ L[k][1] = "aux" => k = 3
                        /\ L[k][1] = "control" => k = 4
  OBVIOUS
<1> HIDE DEF L
<1> QED
  BY <1>5, <1>7, <1>8, <1>9, <1>10, <1>11 DEF a, b, c, e

(* Each span starts where the one before it ends.                          *)
LEMMA LayoutIs ==
    ASSUME NEW d \in Definitions
    PROVE  \E f \in [0..10 -> Nat], at \in [SpanNames -> 1..10] :
              /\ f[0] = 0 /\ \A k \in 1..10 : f[k] = f[k - 1] + SpanLengths(d)[k][2]
              /\ \A n \in SpanNames : SpanLengths(d)[at[n]][1] = n
              /\ \A n \in SpanNames : /\ BuildLayout(d).spans[n].off = f[at[n] - 1]
                                        /\ BuildLayout(d).spans[n].len = SpanLengths(d)[at[n]][2]
              /\ BuildLayout(d).total = f[10]
<1> DEFINE L == SpanLengths(d)
           add == [k \in 1..10 |-> L[k][2]]
           at == [n \in SpanNames |-> CHOOSE j \in 1..10 : L[j][1] = n]
           body(g) == [k \in 1..11 |-> IF k = 1 THEN 0 ELSE g[k - 1] + L[k - 1][2]]
           off == CHOOSE g : g = body(g)
<1>1. /\ Len(L) = 10 /\ DOMAIN L = 1..10 /\ \A k \in 1..10 : L[k][2] \in Nat
      /\ \A n \in SpanNames : \E k \in 1..10 : L[k][1] = n
  BY LengthsAre
<1>2. add \in [1..10 -> Nat] /\ \A k \in 1..10 : add[k] = L[k][2]
  BY <1>1
<1>3. at \in [SpanNames -> 1..10] /\ \A n \in SpanNames : L[at[n]][1] = n
  BY <1>1
<1>4. /\ \A n \in SpanNames : /\ BuildLayout(d).spans[n].off = off[at[n]]
                                /\ BuildLayout(d).spans[n].len = L[at[n]][2]
      /\ BuildLayout(d).total = off[11]
  <2>1. Len(L) + 1 = 11
    BY <1>1
  <2>2. /\ \A n \in SpanNames : BuildLayout(d).spans[n] = [off |-> off[at[n]], len |-> L[at[n]][2]]
        /\ BuildLayout(d).total = off[11]
    BY <1>1, <2>1 DEF BuildLayout
  <2>3. ASSUME NEW n \in SpanNames
        PROVE  BuildLayout(d).spans[n].off = off[at[n]] /\ BuildLayout(d).spans[n].len = L[at[n]][2]
    <3> DEFINE s == BuildLayout(d).spans[n]
    <3>1. s = [off |-> off[at[n]], len |-> L[at[n]][2]]
      BY <2>2
    <3> HIDE DEF s, off, at, L
    <3>2. s.off = off[at[n]] /\ s.len = L[at[n]][2]
      BY <3>1
    <3> QED
      BY <3>2 DEF s
  <2> QED
    BY <2>2, <2>3
<1> HIDE DEF L, add, at
<1>5. PICK f \in [0..10 -> Nat] : Totals(f, 10, add)
  BY <1>2, TotalsExist
<1> DEFINE g == [k \in 1..11 |-> f[k - 1]]
<1>6. g = body(g)
  <2>1. \A k \in 1..11 : f[k - 1] = IF k = 1 THEN 0 ELSE f[(k - 1) - 1] + L[k - 1][2]
    <3> SUFFICES ASSUME NEW k \in 1..11
                 PROVE  f[k - 1] = IF k = 1 THEN 0 ELSE f[(k - 1) - 1] + L[k - 1][2]
      OBVIOUS
    <3>1. k - 1 \in 0..10 /\ (k # 1 => k - 1 \in 1..10) /\ (k - 1 = 0 <=> k = 1)
      OBVIOUS
    <3> QED
      BY <1>2, <1>5, <3>1 DEF Totals
  <2>2. \A k \in 1..11 : g[k] = f[k - 1] /\ (k # 1 => g[k - 1] = f[(k - 1) - 1])
    OBVIOUS
  <2>3. g = [k \in 1..11 |-> g[k]]
    OBVIOUS
  <2> HIDE DEF g
  <2> QED
    BY <2>1, <2>2, <2>3
<1>7. off = body(off)
  <2> HIDE DEF body, g
  <2> QED
    BY <1>6
<1>8. \A k \in 1..11 : off[k] = IF k = 1 THEN 0 ELSE off[k - 1] + L[k - 1][2]
  <2> HIDE DEF off
  <2> QED
    BY <1>7
<1> HIDE DEF off
<1>9. off[11] = f[10] /\ \A n \in SpanNames : off[at[n]] = f[at[n] - 1]
  <2> DEFINE E == {k \in Nat : k <= 10 => off[k + 1] = f[k]}
  <2>1. 0 \in E
    <3>1. 0 \in 0..10 /\ 0 + 1 \in 1..11
      OBVIOUS
    <3>2. f[0] = 0
      BY <1>5, <3>1 DEF Totals
    <3> QED
      BY <1>8, <3>1, <3>2
  <2>2. ASSUME NEW k \in Nat, k \in E PROVE k + 1 \in E
    <3> SUFFICES ASSUME k + 1 <= 10 PROVE off[(k + 1) + 1] = f[k + 1]
      OBVIOUS
    <3>1. /\ (k + 1) + 1 \in 1..11 /\ (k + 1) + 1 # 1 /\ ((k + 1) + 1) - 1 = k + 1 /\ (k + 1) - 1 = k
          /\ k + 1 \in 0..10 /\ k + 1 # 0 /\ k + 1 \in 1..10
      OBVIOUS
    <3>2. off[(k + 1) + 1] = off[k + 1] + L[k + 1][2]
      BY <1>8, <3>1
    <3>3. f[k + 1] = f[k] + L[k + 1][2]
      BY <1>2, <1>5, <3>1 DEF Totals
    <3>4. off[k + 1] = f[k]
      BY <2>2
    <3> QED
      BY <3>2, <3>3, <3>4
  <2>3. Nat \subseteq E
    <3> HIDE DEF E
    <3> QED
      BY <2>1, <2>2, Induct
  <2>4. \A k \in 0..10 : off[k + 1] = f[k]
    BY <2>3
  <2>5. ASSUME NEW n \in SpanNames PROVE off[at[n]] = f[at[n] - 1]
    <3>1. at[n] - 1 \in 0..10 /\ (at[n] - 1) + 1 = at[n]
      BY <1>3
    <3> QED
      BY <2>4, <3>1
  <2>6. 10 \in 0..10 /\ 10 + 1 = 11
    OBVIOUS
  <2> QED
    BY <2>4, <2>5, <2>6
<1>10. f[0] = 0 /\ \A k \in 1..10 : f[k] = f[k - 1] + L[k][2]
  <2>1. \A k \in 1..10 : k \in 0..10 /\ k # 0
    OBVIOUS
  <2> QED
    BY <1>2, <1>5, <2>1 DEF Totals
<1> QED
  BY <1>3, <1>4, <1>9, <1>10 DEF L

(* The spans of a block are apart, inside it and, where it matters,        *)
(* aligned.                                                                *)
LEMMA SpansSound ==
    ASSUME NEW d \in Definitions
    PROVE  LET span == BuildLayout(d).spans
           IN  /\ \A m, n \in SpanNames : m # n => Apart(span[m], span[n])
               /\ \A n \in SpanNames : Inside(span[n], BuildLayout(d).total) /\ span[n].off % 4 = 0
               /\ \A n \in {"state", "demand", "aux"} : span[n].off % 8 = 0
               /\ span["state"].len = AlignUp(States(d).end, 8)
               /\ span["demand"].len = AlignUp(Demands(d).end, 8)
               /\ span["aux"].len = AlignUp(Auxes(d).end, 8)
               /\ span["control"].len = 4 * NumControlWires(d)
<1> DEFINE L == SpanLengths(d)
           span == BuildLayout(d).spans
<1>1. PICK f \in [0..10 -> Nat], at \in [SpanNames -> 1..10] :
         /\ f[0] = 0 /\ \A k \in 1..10 : f[k] = f[k - 1] + L[k][2]
         /\ \A n \in SpanNames : L[at[n]][1] = n
         /\ \A n \in SpanNames : span[n].off = f[at[n] - 1] /\ span[n].len = L[at[n]][2]
         /\ BuildLayout(d).total = f[10]
  BY LayoutIs
<1>2. \A k \in 1..10 : L[k][2] \in Nat /\ L[k][2] % 4 = 0
  BY LengthsAre
<1>3. at["state"] = 1 /\ at["demand"] = 2 /\ at["aux"] = 3 /\ at["control"] = 4
  <2>1. {"state", "demand", "aux", "control"} \subseteq SpanNames
    BY DEF SpanNames
  <2>2. \A k \in 1..10 : /\ L[k][1] = "state" => k = 1
                         /\ L[k][1] = "demand" => k = 2
                         /\ L[k][1] = "aux" => k = 3
                         /\ L[k][1] = "control" => k = 4
    BY LengthsAre
  <2> HIDE DEF L, span
  <2>3. \A n \in SpanNames : at[n] \in 1..10 /\ L[at[n]][1] = n
    BY <1>1
  <2> QED
    BY <2>1, <2>2, <2>3
<1>4. /\ L[1][2] = AlignUp(States(d).end, 8) /\ L[2][2] = AlignUp(Demands(d).end, 8)
      /\ L[3][2] = AlignUp(Auxes(d).end, 8) /\ L[4][2] = 4 * NumControlWires(d)
  BY LengthsAre
<1> HIDE DEF L, span
<1>5. ASSUME NEW n \in SpanNames
      PROVE  /\ span[n].off = f[at[n] - 1] /\ span[n].off + span[n].len = f[at[n]]
             /\ span[n].off \in Nat /\ at[n] \in 1..10 /\ at[n] - 1 \in 0..10 /\ at[n] \in 0..10
  <2>1. at[n] \in 1..10 /\ at[n] - 1 \in 0..10 /\ at[n] \in 0..10
    OBVIOUS
  <2>2. span[n].off = f[at[n] - 1] /\ span[n].len = L[at[n]][2]
    BY <1>1
  <2> QED
    BY <1>1, <2>1, <2>2
<1>6. \A k \in 1..10 : f[k - 1] <= f[k]
  <2> SUFFICES ASSUME NEW k \in 1..10 PROVE f[k - 1] <= f[k]
    OBVIOUS
  <2>1. k - 1 \in 0..10 /\ f[k] = f[k - 1] + L[k][2]
    BY <1>1
  <2> QED
    BY <1>2, <2>1
<1>7. ASSUME NEW i \in 0..10, NEW j \in 0..10, i <= j PROVE f[i] <= f[j]
  BY <1>6, <1>7, Rises
<1>8. ASSUME NEW m \in SpanNames, NEW n \in SpanNames, at[m] < at[n]
      PROVE  span[m].off + span[m].len <= span[n].off
  <2>1. at[m] \in 0..10 /\ at[n] - 1 \in 0..10 /\ at[m] <= at[n] - 1
    BY <1>5, <1>8
  <2> QED
    BY <1>5, <1>7, <2>1
<1>9. ASSUME NEW m \in SpanNames, NEW n \in SpanNames, m # n PROVE Apart(span[m], span[n])
  <2>1. at[m] < at[n] \/ at[n] < at[m]
    BY <1>1, <1>9
  <2> QED
    BY <1>8, <2>1 DEF Apart
<1>12. \A k \in 0..10 : f[k] % 4 = 0
  <2> DEFINE D == {x \in Nat : x % 4 = 0}
  <2>1. f[0] \in D
    BY <1>1
  <2>2. ASSUME NEW k \in 1..10, f[k - 1] \in D PROVE f[k] \in D
    <3>1. f[k] = f[k - 1] + L[k][2]
      BY <1>1
    <3>2. \A x, y \in Nat : x % 4 = 0 /\ y % 4 = 0 => x + y \in Nat /\ (x + y) % 4 = 0
      OBVIOUS
    <3> QED
      BY <1>2, <2>2, <3>1, <3>2, Zenon
  <2>3. \A k \in 0..10 : f[k] \in D
    <3> HIDE DEF D
    <3>1. 10 \in Nat
      OBVIOUS
    <3> QED
      BY <2>1, <2>2, <3>1, RecursionStays
  <2> QED
    BY <2>3
<1>13. \A n \in SpanNames : span[n].off % 4 = 0
  BY <1>5, <1>12
<1>10. ASSUME NEW n \in SpanNames PROVE Inside(span[n], BuildLayout(d).total)
  <2>1. f[at[n]] <= f[10]
    BY <1>5, <1>7
  <2> QED
    BY <1>1, <1>5, <2>1 DEF Inside
<1>11. /\ span["state"].off % 8 = 0 /\ span["demand"].off % 8 = 0 /\ span["aux"].off % 8 = 0
       /\ span["state"].len = L[1][2] /\ span["demand"].len = L[2][2]
       /\ span["aux"].len = L[3][2] /\ span["control"].len = L[4][2]
  <2>1. {"state", "demand", "aux", "control"} \subseteq SpanNames
    BY DEF SpanNames
  <2>0. 1 - 1 = 0 /\ 2 - 1 = 1 /\ 3 - 1 = 2
    OBVIOUS
  <2>2. /\ span["state"].off = f[0] /\ span["state"].len = L[1][2]
        /\ span["demand"].off = f[1] /\ span["demand"].len = L[2][2]
        /\ span["aux"].off = f[2] /\ span["aux"].len = L[3][2] /\ span["control"].len = L[4][2]
    BY <1>1, <1>3, <2>0, <2>1
  <2>3. f[0] = 0 /\ f[1] = L[1][2] /\ f[2] = L[1][2] + L[2][2]
    <3>1. f[1] = f[1 - 1] + L[1][2] /\ f[2] = f[2 - 1] + L[2][2] /\ L[1][2] \in Nat
      BY <1>1, <1>2
    <3> QED
      BY <1>1, <3>1
  <2>4. L[1][2] % 8 = 0 /\ L[2][2] % 8 = 0 /\ L[1][2] \in Nat /\ L[2][2] \in Nat
    <3>1. AlignUp(States(d).end, 8) % 8 = 0 /\ AlignUp(Demands(d).end, 8) % 8 = 0
      BY EndsAre, AlignUpIs
    <3>2. L[1][2] \in Nat /\ L[2][2] \in Nat
      BY <1>2
    <3> QED
      BY <1>4, <3>1, <3>2
  <2> QED
    BY <2>2, <2>3, <2>4
<1> QED
  BY <1>4, <1>9, <1>10, <1>11, <1>13 DEF span

(* Units of a kind keep their order. *)
LEMMA Ordered ==
    ASSUME NEW d \in Definitions, NEW S \in SUBSET Units(d), NEW u \in S, NEW v \in S
    PROVE  /\ Index(S, u) \in Nat /\ Index(S, v) \in Nat
           /\ u < v => Index(S, u) < Index(S, v)
           /\ v < u => Index(S, v) < Index(S, u)
           /\ u # v => u < v \/ v < u
           /\ Index(S, u) = Index(S, v) => u = v
<1>1. PICK n \in Nat : S \in SUBSET (1..n)
  BY DefParts
<1>2. /\ Index(S, u) \in 0..(Cardinality(S) - 1) /\ Index(S, v) \in 0..(Cardinality(S) - 1)
      /\ u < v => Index(S, u) < Index(S, v)
      /\ v < u => Index(S, v) < Index(S, u)
      /\ Index(S, u) = Index(S, v) => u = v
  BY <1>1, IndexIs
<1>3. u # v => u < v \/ v < u
  BY <1>1
<1> QED
  BY <1>2, <1>3

(* Packed states and regions of a kind of units: aligned, within the end,  *)
(* apart.                                                                  *)
LEMMA OffsetsSound ==
    ASSUME NEW d \in Definitions, NEW u \in CalcUnits(d), NEW v \in CalcUnits(d)
    PROVE  LET p == Compile(d)
           IN  /\ StateRange(d, p, u).off % d.units[u].align = 0
               /\ d.units[u].aux > 0 => AuxRange(d, p, u).off % 4 = 0
               /\ Inside(StateRange(d, p, u), AlignUp(States(d).end, 8))
               /\ Inside(AuxRange(d, p, u), AlignUp(Auxes(d).end, 8))
               /\ u # v => /\ Apart(StateRange(d, p, u), StateRange(d, p, v))
                           /\ Apart(AuxRange(d, p, u), AuxRange(d, p, v))
<1> DEFINE S == CalcUnits(d)
           s == StateSlots(d, S)
           a == AuxSlots(d, S)
           i == Index(S, u) + 1
           j == Index(S, v) + 1
<1>1. /\ s \in Seq(Packed) /\ a \in Seq(Packed) /\ Len(s) = Len(a)
      /\ i \in 1..Len(s) /\ j \in 1..Len(s)
      /\ s[i].size = d.units[u].size /\ s[i].align = d.units[u].align /\ a[i].size = d.units[u].aux
      /\ s[j].size = d.units[v].size /\ a[j].size = d.units[v].aux
      /\ d.units[u].aux > 0 => a[i].align = 4
  <2>1. S \in SUBSET Units(d) /\ u \in S /\ v \in S
    BY Counts
  <2> HIDE DEF S
  <2> QED
    BY <2>1, SlotsAre
<1>2. /\ States(d).end \in Nat /\ Auxes(d).end \in Nat
      /\ AlignUp(States(d).end, 8) \in Nat /\ States(d).end <= AlignUp(States(d).end, 8)
      /\ AlignUp(Auxes(d).end, 8) \in Nat /\ Auxes(d).end <= AlignUp(Auxes(d).end, 8)
  BY EndsAre, AlignUpIs
<1>3. u # v => i < j \/ j < i
  <2>1. S \in SUBSET Units(d) /\ u \in S /\ v \in S
    BY Counts
  <2> HIDE DEF S
  <2>2. /\ Index(S, u) \in Nat /\ Index(S, v) \in Nat
        /\ u # v => Index(S, u) < Index(S, v) \/ Index(S, v) < Index(S, u)
    BY <2>1, Ordered
  <2> QED
    BY <2>2
<1>4. /\ StateRange(d, Compile(d), u) = [off |-> States(d).offs[i], len |-> d.units[u].size]
      /\ StateRange(d, Compile(d), v) = [off |-> States(d).offs[j], len |-> d.units[v].size]
      /\ AuxRange(d, Compile(d), u) = [off |-> Auxes(d).offs[i], len |-> d.units[u].aux]
      /\ AuxRange(d, Compile(d), v) = [off |-> Auxes(d).offs[j], len |-> d.units[v].aux]
  BY DEF StateRange, AuxRange, Compile
<1>5. /\ d.units[u].size \in Nat /\ d.units[v].size \in Nat
      /\ d.units[u].aux \in Nat /\ d.units[v].aux \in Nat
  BY DefParts, Counts
<1>6. /\ States(d) = Pack(s) /\ Auxes(d) = Pack(a)
  BY DEF States, Auxes
<1> HIDE DEF i, j, s, a
<1>7. /\ States(d).offs[i] \in Nat /\ States(d).offs[i] % d.units[u].align = 0
      /\ States(d).offs[i] + d.units[u].size <= States(d).end
      /\ i < j => States(d).offs[i] + d.units[u].size <= States(d).offs[j]
      /\ j < i => States(d).offs[j] + d.units[v].size <= States(d).offs[i]
  <2>1. s[i].size = d.units[u].size /\ s[i].align = d.units[u].align
    BY <1>1
  <2> QED
    BY <1>1, <1>6, <2>1, PackIs
<1>8. /\ Auxes(d).offs[i] \in Nat /\ Auxes(d).offs[i] % a[i].align = 0
      /\ Auxes(d).offs[i] + d.units[u].aux <= Auxes(d).end
      /\ i < j => Auxes(d).offs[i] + d.units[u].aux <= Auxes(d).offs[j]
      /\ j < i => Auxes(d).offs[j] + d.units[v].aux <= Auxes(d).offs[i]
  BY <1>1, <1>6, PackIs
<1>9. Inside(StateRange(d, Compile(d), u), AlignUp(States(d).end, 8))
  BY <1>2, <1>4, <1>5, <1>7 DEF Inside
<1>10. Inside(AuxRange(d, Compile(d), u), AlignUp(Auxes(d).end, 8))
  BY <1>2, <1>4, <1>5, <1>8 DEF Inside
<1>11. u # v => /\ Apart(StateRange(d, Compile(d), u), StateRange(d, Compile(d), v))
                /\ Apart(AuxRange(d, Compile(d), u), AuxRange(d, Compile(d), v))
  BY <1>3, <1>4, <1>7, <1>8 DEF Apart
<1>12. d.units[u].aux > 0 => AuxRange(d, Compile(d), u).off % 4 = 0
  BY <1>1, <1>4, <1>8
<1> QED
  BY <1>4, <1>7, <1>9, <1>10, <1>11, <1>12

(* In the arena of the demand units every state lies below every region,   *)
(* and states and regions in the order of the units.                       *)
LEMMA DemandsSound ==
    ASSUME NEW d \in Definitions, NEW u \in DemandUnits(d)
    PROVE  LET p == Compile(d)
           IN  /\ DemandState(d, p, u).off % d.units[u].align = 0
               /\ d.units[u].aux > 0 => DemandAux(d, p, u).off % 4 = 0
               /\ Inside(DemandAux(d, p, u), AlignUp(Demands(d).end, 8))
               /\ \A v \in DemandUnits(d) :
                     /\ Inside(DemandState(d, p, v), DemandAux(d, p, u).off)
                     /\ v < u => Inside(DemandAux(d, p, v), DemandAux(d, p, u).off)
                     /\ u # v => /\ Apart(DemandState(d, p, u), DemandState(d, p, v))
                                 /\ Apart(DemandAux(d, p, u), DemandAux(d, p, v))
<1> DEFINE S == DemandUnits(d)
           c == Cardinality(S)
           s == StateSlots(d, S)
           a == AuxSlots(d, S)
           t == s \o a
           at(v) == Index(S, v) + 1
           offs == Demands(d).offs
<1>1. /\ s \in Seq(Packed) /\ a \in Seq(Packed) /\ Len(s) = c /\ Len(a) = c /\ c \in Nat
      /\ \A v \in S : /\ at(v) \in 1..c /\ a[at(v)].size = d.units[v].aux
                      /\ s[at(v)].size = d.units[v].size /\ s[at(v)].align = d.units[v].align
                      /\ d.units[v].aux > 0 => a[at(v)].align = 4
  <2>1. S \in SUBSET Units(d)
    BY Counts
  <2> HIDE DEF S
  <2> QED
    BY <2>1, SlotsAre
<1>2. t \in Seq(Packed) /\ Len(t) = c + c
      /\ \A k \in 1..c : t[k] = s[k] /\ t[c + k] = a[k] /\ k \in 1..(c + c) /\ c + k \in 1..(c + c)
  <2>1. t \in Seq(Packed) /\ Len(t) = Len(s) + Len(a)
    BY <1>1, ConcatProperties
  <2>2. \A k \in 1..(Len(s) + Len(a)) : t[k] = IF k <= Len(s) THEN s[k] ELSE a[k - Len(s)]
    BY <1>1, ConcatProperties
  <2> HIDE DEF s, a, t, c
  <2>3. ASSUME NEW k \in 1..c
        PROVE  t[k] = s[k] /\ t[c + k] = a[k] /\ k \in 1..(c + c) /\ c + k \in 1..(c + c)
    <3>1. k \in 1..(c + c) /\ c + k \in 1..(c + c) /\ ~(c + k <= c) /\ (c + k) - c = k /\ k <= c
      BY <1>1
    <3> QED
      BY <1>1, <2>2, <3>1
  <2> QED
    BY <1>1, <2>1, <2>3
<1>3. \A v \in S : /\ DemandState(d, Compile(d), v) = [off |-> offs[at(v)], len |-> d.units[v].size]
                   /\ DemandAux(d, Compile(d), v) = [off |-> offs[c + at(v)], len |-> d.units[v].aux]
  <2> SUFFICES ASSUME NEW v \in S
               PROVE  /\ DemandState(d, Compile(d), v) = [off |-> offs[at(v)], len |-> d.units[v].size]
                      /\ DemandAux(d, Compile(d), v) = [off |-> offs[c + at(v)], len |-> d.units[v].aux]
    OBVIOUS
  <2>1. Compile(d).demands = offs
    BY DEF Compile
  <2>2. c + Index(S, v) + 1 = c + at(v)
    <3>1. Index(S, v) \in Nat
      BY Counts, Ordered
    <3> QED
      BY <1>1, <3>1
  <2> HIDE DEF offs
  <2> QED
    BY <2>1, <2>2 DEF DemandState, DemandAux
<1>4. \A v \in S : d.units[v].size \in Nat /\ d.units[v].aux \in Nat
  BY DefParts, Counts
<1>5. Demands(d) = Pack(t)
  BY DEF Demands
<1>6. \A v \in S : (v < u => at(v) < at(u)) /\ (u # v => at(v) < at(u) \/ at(u) < at(v))
  <2> SUFFICES ASSUME NEW v \in S
               PROVE  (v < u => at(v) < at(u)) /\ (u # v => at(v) < at(u) \/ at(u) < at(v))
    OBVIOUS
  <2>1. /\ Index(S, v) \in Nat /\ Index(S, u) \in Nat
        /\ v < u => Index(S, v) < Index(S, u)
        /\ u # v => Index(S, v) < Index(S, u) \/ Index(S, u) < Index(S, v)
    BY Counts, Ordered
  <2> HIDE DEF S
  <2> QED
    BY <2>1
<1> HIDE DEF s, a, t, c, at
<1>7. /\ Demands(d).end \in Nat
      /\ \A k \in 1..(c + c) : /\ offs[k] \in Nat /\ offs[k] % t[k].align = 0
                               /\ offs[k] + t[k].size <= Demands(d).end
                               /\ \A l \in 1..(c + c) : k < l => offs[k] + t[k].size <= offs[l]
  BY <1>2, <1>5, PackIs
<1> HIDE DEF offs
<1>8. \A v \in S : /\ at(v) \in 1..(c + c) /\ c + at(v) \in 1..(c + c) /\ at(v) \in 1..c
                   /\ t[at(v)].size = d.units[v].size /\ t[at(v)].align = d.units[v].align
                   /\ t[c + at(v)].size = d.units[v].aux
                   /\ d.units[v].aux > 0 => t[c + at(v)].align = 4
  <2> SUFFICES ASSUME NEW v \in S
               PROVE  /\ at(v) \in 1..(c + c) /\ c + at(v) \in 1..(c + c) /\ at(v) \in 1..c
                      /\ t[at(v)].size = d.units[v].size /\ t[at(v)].align = d.units[v].align
                      /\ t[c + at(v)].size = d.units[v].aux
                      /\ d.units[v].aux > 0 => t[c + at(v)].align = 4
    OBVIOUS
  <2>1. at(v) \in 1..c /\ t[at(v)] = s[at(v)] /\ t[c + at(v)] = a[at(v)]
    BY <1>1, <1>2
  <2> QED
    BY <1>1, <1>2, <2>1
<1>9. DemandState(d, Compile(d), u).off % d.units[u].align = 0
  BY <1>3, <1>7, <1>8
<1>10. Inside(DemandAux(d, Compile(d), u), AlignUp(Demands(d).end, 8))
  <2>1. AlignUp(Demands(d).end, 8) \in Nat /\ Demands(d).end <= AlignUp(Demands(d).end, 8)
    BY <1>7, AlignUpIs
  <2>2. /\ offs[c + at(u)] \in Nat /\ offs[c + at(u)] + d.units[u].aux <= Demands(d).end
        /\ d.units[u].aux \in Nat
    BY <1>4, <1>7, <1>8
  <2> QED
    BY <1>3, <1>7, <2>1, <2>2 DEF Inside
<1>11. ASSUME NEW v \in S
       PROVE  /\ Inside(DemandState(d, Compile(d), v), DemandAux(d, Compile(d), u).off)
              /\ v < u => Inside(DemandAux(d, Compile(d), v), DemandAux(d, Compile(d), u).off)
  <2>1. /\ offs[at(v)] \in Nat /\ offs[c + at(v)] \in Nat
        /\ at(v) < c + at(u)
        /\ v < u => c + at(v) < c + at(u)
    <3>1. at(v) \in 1..c /\ at(u) \in 1..c /\ c \in Nat
      BY <1>1, <1>8
    <3> QED
      BY <1>6, <1>7, <1>8, <3>1
  <2>2. /\ offs[at(v)] + d.units[v].size <= offs[c + at(u)]
        /\ v < u => offs[c + at(v)] + d.units[v].aux <= offs[c + at(u)]
    BY <1>7, <1>8, <2>1
  <2> QED
    BY <1>3, <2>1, <2>2 DEF Inside
<1>12. ASSUME NEW v \in S, u # v
       PROVE  /\ Apart(DemandState(d, Compile(d), u), DemandState(d, Compile(d), v))
              /\ Apart(DemandAux(d, Compile(d), u), DemandAux(d, Compile(d), v))
  <2>1. ASSUME NEW w \in S, NEW x \in S, at(w) < at(x)
        PROVE  /\ offs[at(w)] + d.units[w].size <= offs[at(x)]
               /\ offs[c + at(w)] + d.units[w].aux <= offs[c + at(x)]
    <3>1. c + at(w) < c + at(x)
      <4>1. at(w) \in 1..c /\ at(x) \in 1..c /\ c \in Nat
        BY <1>1, <1>8
      <4> QED
        BY <2>1, <4>1
    <3> QED
      BY <1>7, <1>8, <2>1, <3>1
  <2>2. at(v) < at(u) \/ at(u) < at(v)
    BY <1>6, <1>12
  <2> QED
    BY <1>3, <2>1, <2>2 DEF Apart
<1>13. d.units[u].aux > 0 => DemandAux(d, Compile(d), u).off % 4 = 0
  BY <1>3, <1>7, <1>8
<1> QED
  BY <1>9, <1>10, <1>11, <1>12, <1>13

(* A unit's outputs are numbered after those of its kind before it. *)
LEMMA OutsBefore ==
    ASSUME NEW d \in Definitions, NEW X \in SUBSET Units(d), NEW u \in X, NEW v \in X
    PROVE  /\ Outs(d, Before(X, u)) \in Nat /\ Outs(d, Before(X, v)) \in Nat /\ Outs(d, X) \in Nat
           /\ Outs(d, Before(X, u)) + d.units[u].nout <= Outs(d, X)
           /\ u < v => Outs(d, Before(X, u)) + d.units[u].nout <= Outs(d, Before(X, v))
<1>1. u \in Units(d) /\ u \in Nat /\ v \in Nat /\ \A w \in X : w \in Nat
  BY DefParts
<1>2. Before(X, u) \subseteq X /\ u \in X \ Before(X, u)
  BY <1>1 DEF Before
<1>3. u < v => Before(X, u) \subseteq Before(X, v) /\ u \in Before(X, v) \ Before(X, u)
  <2> SUFFICES ASSUME u < v
               PROVE  Before(X, u) \subseteq Before(X, v) /\ u \in Before(X, v) \ Before(X, u)
    OBVIOUS
  <2>1. ASSUME NEW w \in Before(X, u) PROVE w \in Before(X, v)
    BY <1>1 DEF Before
  <2>2. u \in Before(X, v) \ Before(X, u)
    BY <1>1 DEF Before
  <2> QED
    BY <2>1, <2>2
<1>4. Outs(d, Before(X, v)) \in Nat
  BY OutsGrow
<1> QED
  BY <1>1, <1>2, <1>3, <1>4, OutsGrow

(* Wires: in range, and one for each output. *)
LEMMA WiresSound ==
    ASSUME NEW d \in Definitions, NEW u \in CalcUnits(d), NEW v \in CalcUnits(d),
           NEW o \in 0..(d.units[u].nout - 1), NEW q \in 0..(d.units[v].nout - 1)
    PROVE  /\ UnitWire(d, u, o) \in Nat
           /\ u \in AudioUnits(d) => /\ UnitWire(d, u, o) + 1 <= NumAudioWires(d)
                                     /\ UnitWire(d, u, o) >= Cardinality(ParamsOf(d, "audio"))
           /\ u \notin AudioUnits(d) => /\ UnitWire(d, u, o) + 1 <= NumControlWires(d)
                                        /\ UnitWire(d, u, o) >= Len(d.params) + Cardinality(ParamsOf(d, "lag"))
           /\ <<u, o>> # <<v, q>> /\ (u \in AudioUnits(d) <=> v \in AudioUnits(d))
                => UnitWire(d, u, o) # UnitWire(d, v, q)
<1>1. /\ Cardinality(ParamsOf(d, "audio")) \in Nat /\ Cardinality(ParamsOf(d, "lag")) \in Nat
      /\ Len(d.params) \in Nat /\ u \in Nat /\ v \in Nat
      /\ d.units[u].nout \in Nat /\ d.units[v].nout \in Nat
  BY DefParts, Counts, SMTT(30)
<1>0. o \in Nat /\ q \in Nat /\ o < d.units[u].nout /\ q < d.units[v].nout
  <2>1. \A m \in Nat : \A x \in 0..(m - 1) : x \in Nat /\ x < m
    OBVIOUS
  <2> QED
    BY <1>1, <2>1, Zenon
<1> DEFINE a == Cardinality(ParamsOf(d, "audio"))
           c == Len(d.params) + Cardinality(ParamsOf(d, "lag"))
           base(X, w) == Outs(d, Before(X, w))
<1>2. a \in Nat /\ c \in Nat
  BY <1>1
<1>3. /\ AudioUnits(d) \in SUBSET Units(d) /\ ControlUnits(d) \in SUBSET Units(d)
      /\ u \notin AudioUnits(d) => u \in ControlUnits(d)
      /\ v \notin AudioUnits(d) => v \in ControlUnits(d)
  BY Counts DEF ControlUnits
<1>4. /\ NumAudioWires(d) = a + Outs(d, AudioUnits(d))
      /\ NumControlWires(d) = c + Outs(d, ControlUnits(d))
      /\ \A w, p : UnitWire(d, w, p) = IF w \in AudioUnits(d) THEN a + base(AudioUnits(d), w) + p
                                       ELSE c + base(ControlUnits(d), w) + p
  BY DEF NumAudioWires, NumControlWires, UnitWire
<1>5. ASSUME NEW X \in SUBSET Units(d), u \in X, v \in X
      PROVE  /\ base(X, u) \in Nat /\ base(X, v) \in Nat /\ Outs(d, X) \in Nat
             /\ base(X, u) + d.units[u].nout <= Outs(d, X)
             /\ u < v => base(X, u) + d.units[u].nout <= base(X, v)
             /\ v < u => base(X, v) + d.units[v].nout <= base(X, u)
  BY <1>5, OutsBefore
<1>6. ASSUME NEW X \in SUBSET Units(d), u \in X
      PROVE  /\ base(X, u) \in Nat /\ Outs(d, X) \in Nat
             /\ base(X, u) + d.units[u].nout <= Outs(d, X)
  BY <1>6, OutsBefore
<1> HIDE DEF a, c, base
<1>7. CASE u \in AudioUnits(d)
  <2> DEFINE x == base(AudioUnits(d), u)
             y == base(AudioUnits(d), v)
             k == d.units[u].nout
             l == d.units[v].nout
             all == Outs(d, AudioUnits(d))
  <2>1. /\ UnitWire(d, u, o) = a + x + o /\ NumAudioWires(d) = a + all
        /\ x \in Nat /\ all \in Nat /\ x + k <= all
    BY <1>3, <1>4, <1>6, <1>7
  <2>2. a \in Nat /\ o \in Nat /\ q \in Nat /\ k \in Nat /\ l \in Nat /\ o < k /\ q < l
    BY <1>0, <1>1, <1>2
  <2> HIDE DEF x, y, k, l, all
  <2>3. UnitWire(d, u, o) \in Nat /\ UnitWire(d, u, o) + 1 <= NumAudioWires(d) /\ UnitWire(d, u, o) >= a
    BY <2>1, <2>2
  <2>4. ASSUME <<u, o>> # <<v, q>>, v \in AudioUnits(d) PROVE UnitWire(d, u, o) # UnitWire(d, v, q)
    <3>1. /\ UnitWire(d, v, q) = a + y + q /\ y \in Nat
          /\ u < v => x + k <= y
          /\ v < u => y + l <= x
      BY <1>3, <1>4, <1>5, <1>7, <2>4 DEF x, y, k, l
    <3>2. CASE u = v
      <4>1. o # q /\ x = y
        BY <2>4, <3>2 DEF x, y
      <4> QED
        BY <2>1, <2>2, <3>1, <4>1
    <3>3. CASE x + k <= y
      BY <2>1, <2>2, <3>1, <3>3
    <3>4. CASE y + l <= x
      BY <2>1, <2>2, <3>1, <3>4
    <3>5. u = v \/ u < v \/ v < u
      BY <1>1
    <3> QED
      BY <3>1, <3>2, <3>3, <3>4, <3>5
  <2> QED
    BY <1>7, <2>3, <2>4 DEF a
<1>8. CASE u \notin AudioUnits(d)
  <2> DEFINE x == base(ControlUnits(d), u)
             y == base(ControlUnits(d), v)
             k == d.units[u].nout
             l == d.units[v].nout
             all == Outs(d, ControlUnits(d))
  <2>1. /\ UnitWire(d, u, o) = c + x + o /\ NumControlWires(d) = c + all
        /\ x \in Nat /\ all \in Nat /\ x + k <= all
    BY <1>3, <1>4, <1>6, <1>8
  <2>2. c \in Nat /\ o \in Nat /\ q \in Nat /\ k \in Nat /\ l \in Nat /\ o < k /\ q < l
    BY <1>0, <1>1, <1>2
  <2> HIDE DEF x, y, k, l, all
  <2>3. UnitWire(d, u, o) \in Nat /\ UnitWire(d, u, o) + 1 <= NumControlWires(d) /\ UnitWire(d, u, o) >= c
    BY <2>1, <2>2
  <2>4. ASSUME <<u, o>> # <<v, q>>, v \notin AudioUnits(d) PROVE UnitWire(d, u, o) # UnitWire(d, v, q)
    <3>1. /\ UnitWire(d, v, q) = c + y + q /\ y \in Nat
          /\ u < v => x + k <= y
          /\ v < u => y + l <= x
      BY <1>3, <1>4, <1>5, <1>8, <2>4 DEF x, y, k, l
    <3>2. CASE u = v
      <4>1. o # q /\ x = y
        BY <2>4, <3>2 DEF x, y
      <4> QED
        BY <2>1, <2>2, <3>1, <4>1
    <3>3. CASE x + k <= y
      BY <2>1, <2>2, <3>1, <3>3
    <3>4. CASE y + l <= x
      BY <2>1, <2>2, <3>1, <3>4
    <3>5. u = v \/ u < v \/ v < u
      BY <1>1
    <3> QED
      BY <3>1, <3>2, <3>3, <3>4, <3>5
  <2> QED
    BY <1>8, <2>3, <2>4 DEF c
<1> QED
  BY <1>7, <1>8

(* Parameters have wires of their own, below those of the units. *)
LEMMA ParamWires ==
    ASSUME NEW d \in Definitions
    PROVE  LET P == Len(d.params)
               L == ParamsOf(d, "lag")
               A == ParamsOf(d, "audio")
           IN  /\ P \in Nat /\ Cardinality(L) \in Nat /\ Cardinality(A) \in Nat
               /\ P + Cardinality(L) <= NumControlWires(d) /\ Cardinality(A) <= NumAudioWires(d)
               /\ NumControlWires(d) \in Nat /\ NumAudioWires(d) \in Nat
               /\ \A p \in DOMAIN d.params :
                     /\ ParamWire(p) \in Nat /\ ParamWire(p) < P
                     /\ \A q \in DOMAIN d.params : ParamWire(p) = ParamWire(q) => p = q
               /\ \A p \in L :
                     /\ LagWire(d, p) \in Nat /\ LagWire(d, p) >= P /\ LagWire(d, p) < P + Cardinality(L)
                     /\ \A q \in L : LagWire(d, p) = LagWire(d, q) => p = q
               /\ \A p \in A :
                     /\ AudioParamWire(d, p) \in Nat /\ AudioParamWire(d, p) < Cardinality(A)
                     /\ \A q \in A : AudioParamWire(d, p) = AudioParamWire(d, q) => p = q
<1> DEFINE P == Len(d.params)
           L == ParamsOf(d, "lag")
           A == ParamsOf(d, "audio")
<1>1. P \in Nat /\ DOMAIN d.params = 1..P /\ L \in SUBSET (1..P) /\ A \in SUBSET (1..P)
  BY DefParts DEF ParamsOf
<1>2. /\ Outs(d, AudioUnits(d)) \in Nat /\ Outs(d, ControlUnits(d)) \in Nat
      /\ NumAudioWires(d) = Cardinality(A) + Outs(d, AudioUnits(d))
      /\ NumControlWires(d) = P + Cardinality(L) + Outs(d, ControlUnits(d))
  BY OutsGrow DEF NumAudioWires, NumControlWires
<1>3. /\ \A p : ParamWire(p) = p - 1
      /\ \A p : LagWire(d, p) = P + Index(L, p)
      /\ \A p : AudioParamWire(d, p) = Index(A, p)
  BY DEF ParamWire, LagWire, AudioParamWire
<1> HIDE DEF P, L, A
<1>4. /\ Cardinality(L) \in Nat
      /\ \A p \in L : Index(L, p) \in 0..(Cardinality(L) - 1)
      /\ \A p, q \in L : Index(L, p) = Index(L, q) => p = q
  BY <1>1, IndexIs
<1>5. /\ Cardinality(A) \in Nat
      /\ \A p \in A : Index(A, p) \in 0..(Cardinality(A) - 1)
      /\ \A p, q \in A : Index(A, p) = Index(A, q) => p = q
  BY <1>1, IndexIs
<1>6. /\ P + Cardinality(L) <= NumControlWires(d) /\ Cardinality(A) <= NumAudioWires(d)
      /\ NumControlWires(d) \in Nat /\ NumAudioWires(d) \in Nat
  BY <1>1, <1>2, <1>4, <1>5
<1>7. ASSUME NEW p \in 1..P
      PROVE  /\ ParamWire(p) \in Nat /\ ParamWire(p) < P
             /\ \A q \in 1..P : ParamWire(p) = ParamWire(q) => p = q
  BY <1>1, <1>3
<1>8. ASSUME NEW p \in L
      PROVE  /\ LagWire(d, p) \in Nat /\ LagWire(d, p) >= P /\ LagWire(d, p) < P + Cardinality(L)
             /\ \A q \in L : LagWire(d, p) = LagWire(d, q) => p = q
  <2>1. Index(L, p) \in Nat /\ Index(L, p) < Cardinality(L) /\ \A q \in L : Index(L, q) \in Nat
    BY <1>4
  <2>2. ASSUME NEW q \in L, LagWire(d, p) = LagWire(d, q) PROVE p = q
    <3>1. Index(L, p) = Index(L, q)
      BY <1>1, <1>3, <2>1, <2>2
    <3> QED
      BY <1>4, <3>1
  <2> QED
    BY <1>1, <1>3, <1>4, <2>1, <2>2
<1>9. ASSUME NEW p \in A
      PROVE  /\ AudioParamWire(d, p) \in Nat /\ AudioParamWire(d, p) < Cardinality(A)
             /\ \A q \in A : AudioParamWire(d, p) = AudioParamWire(d, q) => p = q
  <2>1. Index(A, p) \in Nat /\ Index(A, p) < Cardinality(A)
    BY <1>5
  <2> QED
    BY <1>3, <1>5, <2>1
<1> QED
  BY <1>1, <1>4, <1>5, <1>6, <1>7, <1>8, <1>9 DEF P, L, A

(* The wires of units, each of one output. *)
LEMMA UnitWiresAre ==
    ASSUME NEW d \in Definitions, NEW X, X = AudioUnits(d) \/ X = ControlUnits(d),
           NEW w \in UnitWires(Compile(d), X)
    PROVE  /\ w.at \in Nat /\ w.of[1] = "out"
           /\ X = AudioUnits(d) => w.at + 1 <= NumAudioWires(d) /\ w.at >= Cardinality(ParamsOf(d, "audio"))
           /\ X = ControlUnits(d) => /\ w.at + 1 <= NumControlWires(d)
                                     /\ w.at >= Len(d.params) + Cardinality(ParamsOf(d, "lag"))
           /\ \A x \in UnitWires(Compile(d), X) : w.at = x.at => w = x
<1>1. X \subseteq CalcUnits(d) /\ ((\A u \in X : u \in AudioUnits(d)) \/ (\A u \in X : u \notin AudioUnits(d)))
  BY Counts DEF ControlUnits
<1>2. ASSUME NEW x \in UnitWires(Compile(d), X)
      PROVE  \E u \in X : \E o \in 0..(d.units[u].nout - 1) : x = [of |-> <<"out", u, o>>, at |-> UnitWire(d, u, o)]
  <2>1. PICK u \in X : x \in {[of |-> <<"out", u, o>>, at |-> Compile(d).wire[u][o]] : o \in DOMAIN Compile(d).wire[u]}
    BY DEF UnitWires
  <2>2. Compile(d).wire[u] = [o \in 0..(d.units[u].nout - 1) |-> UnitWire(d, u, o)]
    BY <1>1 DEF Compile
  <2> DEFINE wires == Compile(d).wire[u]
  <2>3. x \in {[of |-> <<"out", u, o>>, at |-> wires[o]] : o \in DOMAIN wires} /\ wires = [o \in 0..(d.units[u].nout - 1) |-> UnitWire(d, u, o)]
    BY <2>1, <2>2
  <2> HIDE DEF wires
  <2> QED
    BY <2>3
<1>3. PICK u \in X : \E o \in 0..(d.units[u].nout - 1) : w = [of |-> <<"out", u, o>>, at |-> UnitWire(d, u, o)]
  BY <1>2
<1>4. PICK o \in 0..(d.units[u].nout - 1) : w = [of |-> <<"out", u, o>>, at |-> UnitWire(d, u, o)]
  BY <1>3
<1>5. w.at = UnitWire(d, u, o) /\ w.of = <<"out", u, o>> /\ w.of[1] = "out"
  BY <1>4
<1>6. u \in CalcUnits(d)
  BY <1>1
<1>7. /\ UnitWire(d, u, o) \in Nat
      /\ u \in AudioUnits(d) => /\ UnitWire(d, u, o) + 1 <= NumAudioWires(d)
                                /\ UnitWire(d, u, o) >= Cardinality(ParamsOf(d, "audio"))
      /\ u \notin AudioUnits(d) => /\ UnitWire(d, u, o) + 1 <= NumControlWires(d)
                                   /\ UnitWire(d, u, o) >= Len(d.params) + Cardinality(ParamsOf(d, "lag"))
  BY <1>6, WiresSound
<1>8. /\ X = AudioUnits(d) => u \in AudioUnits(d)
      /\ X = ControlUnits(d) => u \notin AudioUnits(d)
  BY DEF ControlUnits
<1>9. ASSUME NEW x \in UnitWires(Compile(d), X), w.at = x.at PROVE w = x
  <2>1. PICK v \in X : \E q \in 0..(d.units[v].nout - 1) : x = [of |-> <<"out", v, q>>, at |-> UnitWire(d, v, q)]
    BY <1>2
  <2>2. PICK q \in 0..(d.units[v].nout - 1) : x = [of |-> <<"out", v, q>>, at |-> UnitWire(d, v, q)]
    BY <2>1
  <2>3. v \in CalcUnits(d) /\ (u \in AudioUnits(d) <=> v \in AudioUnits(d))
    BY <1>1
  <2>4. UnitWire(d, u, o) = UnitWire(d, v, q)
    BY <1>5, <1>9, <2>2
  <2>5. <<u, o>> # <<v, q>> /\ (u \in AudioUnits(d) <=> v \in AudioUnits(d)) => UnitWire(d, u, o) # UnitWire(d, v, q)
    BY <1>6, <2>3, WiresSound
  <2>6. u = v /\ o = q
    BY <2>3, <2>4, <2>5
  <2> QED
    BY <1>4, <2>2, <2>6
<1> QED
  BY <1>5, <1>7, <1>8, <1>9

(* No wire has two writers, and all are inside their span or the scratch.  *)
LEMMA WritersSound ==
    ASSUME NEW d \in Definitions
    PROVE  /\ OneWriter(ControlWires(d, Compile(d))) /\ OneWriter(AudioWires(d, Compile(d)))
           /\ \A w \in ControlWires(d, Compile(d)) : w.at \in Nat /\ w.at + 1 <= NumControlWires(d)
           /\ \A w \in AudioWires(d, Compile(d)) : w.at \in Nat /\ w.at + 1 <= NumAudioWires(d)
<1> DEFINE P == Len(d.params)
           L == ParamsOf(d, "lag")
           A == ParamsOf(d, "audio")
           V == {[of |-> <<"value", p>>, at |-> ParamWire(p)] : p \in DOMAIN d.params}
           G == {[of |-> <<"lag", p>>, at |-> LagWire(d, p)] : p \in L}
           M == {[of |-> <<"audio", p>>, at |-> AudioParamWire(d, p)] : p \in A}
           C == UnitWires(Compile(d), ControlUnits(d))
           U == UnitWires(Compile(d), AudioUnits(d))
<1>1. ControlWires(d, Compile(d)) = V \cup G \cup C /\ AudioWires(d, Compile(d)) = M \cup U
  BY DEF ControlWires, AudioWires
<1>2. /\ P \in Nat /\ Cardinality(L) \in Nat /\ Cardinality(A) \in Nat
      /\ P + Cardinality(L) <= NumControlWires(d) /\ Cardinality(A) <= NumAudioWires(d)
      /\ NumControlWires(d) \in Nat /\ NumAudioWires(d) \in Nat
  BY ParamWires
<1>3. \A w \in V : /\ w.at \in Nat /\ w.at < P
                   /\ \A x \in V : w.at = x.at => w = x
  <2>1. \A p \in DOMAIN d.params : /\ ParamWire(p) \in Nat /\ ParamWire(p) < P
                                   /\ \A q \in DOMAIN d.params : ParamWire(p) = ParamWire(q) => p = q
    BY ParamWires
  <2> QED
    BY <2>1
<1>4. \A w \in G : /\ w.at \in Nat /\ w.at >= P /\ w.at < P + Cardinality(L)
                   /\ \A x \in G : w.at = x.at => w = x
  <2>1. \A p \in L : /\ LagWire(d, p) \in Nat /\ LagWire(d, p) >= P /\ LagWire(d, p) < P + Cardinality(L)
                     /\ \A q \in L : LagWire(d, p) = LagWire(d, q) => p = q
    BY ParamWires
  <2> HIDE DEF L
  <2> QED
    BY <2>1
<1>5. \A w \in M : /\ w.at \in Nat /\ w.at < Cardinality(A)
                   /\ \A x \in M : w.at = x.at => w = x
  <2>1. \A p \in A : /\ AudioParamWire(d, p) \in Nat /\ AudioParamWire(d, p) < Cardinality(A)
                     /\ \A q \in A : AudioParamWire(d, p) = AudioParamWire(d, q) => p = q
    BY ParamWires
  <2> HIDE DEF A
  <2> QED
    BY <2>1
<1>6. \A w \in C : /\ w.at \in Nat /\ w.at + 1 <= NumControlWires(d) /\ w.at >= P + Cardinality(L)
                   /\ \A x \in C : w.at = x.at => w = x
  BY UnitWiresAre
<1>7. \A w \in U : /\ w.at \in Nat /\ w.at + 1 <= NumAudioWires(d) /\ w.at >= Cardinality(A)
                   /\ \A x \in U : w.at = x.at => w = x
  BY UnitWiresAre
<1> HIDE DEF P, L, A, V, G, M, C, U
<1> DEFINE l == Cardinality(L)
           a == Cardinality(A)
           n == NumControlWires(d)
           m == NumAudioWires(d)
<1>8. P \in Nat /\ l \in Nat /\ a \in Nat /\ n \in Nat /\ m \in Nat /\ P + l <= n /\ a <= m
  BY <1>2
<1>9. /\ \A w \in G : w.at >= P /\ w.at < P + l
      /\ \A w \in M : w.at < a
      /\ \A w \in C : w.at + 1 <= n /\ w.at >= P + l
      /\ \A w \in U : w.at + 1 <= m /\ w.at >= a
  BY <1>4, <1>5, <1>6, <1>7
<1> HIDE DEF l, a, n, m
<1>10. ASSUME NEW w \in V \cup G \cup C, NEW x \in V \cup G \cup C, w.at = x.at PROVE w = x
  <2>1. (w \in V /\ x \in V) \/ (w \in G /\ x \in G) \/ (w \in C /\ x \in C)
    <3> DEFINE y == w.at
    <3>1. w \in V \/ x \in V => y \in Nat /\ y < P
      BY <1>3, <1>10
    <3>2. w \in G \/ x \in G => y \in Nat /\ y >= P /\ y < P + l
      BY <1>4, <1>9, <1>10
    <3>3. w \in C \/ x \in C => y \in Nat /\ y >= P + l
      BY <1>6, <1>9, <1>10
    <3> HIDE DEF y
    <3> QED
      BY <1>8, <3>1, <3>2, <3>3
  <2> QED
    BY <1>3, <1>4, <1>6, <1>10, <2>1
<1>11. ASSUME NEW w \in M \cup U, NEW x \in M \cup U, w.at = x.at PROVE w = x
  <2>1. (w \in M /\ x \in M) \/ (w \in U /\ x \in U)
    <3> DEFINE y == w.at
    <3>1. w \in M \/ x \in M => y \in Nat /\ y < a
      BY <1>5, <1>9, <1>11
    <3>2. w \in U \/ x \in U => y \in Nat /\ y >= a
      BY <1>7, <1>9, <1>11
    <3> HIDE DEF y
    <3> QED
      BY <1>8, <3>1, <3>2
  <2> QED
    BY <1>5, <1>7, <1>11, <2>1
<1>12. ASSUME NEW w \in V \cup G \cup C PROVE w.at \in Nat /\ w.at + 1 <= n
  <2> DEFINE y == w.at
  <2>1. (y \in Nat /\ y < P) \/ (y \in Nat /\ y < P + l) \/ (y \in Nat /\ y + 1 <= n)
    BY <1>3, <1>4, <1>6, <1>9
  <2> HIDE DEF y
  <2>2. y \in Nat /\ y + 1 <= n
    BY <1>8, <2>1
  <2> QED
    BY <2>2 DEF y
<1>13. ASSUME NEW w \in M \cup U PROVE w.at \in Nat /\ w.at + 1 <= m
  <2> DEFINE y == w.at
  <2>1. (y \in Nat /\ y < a) \/ (y \in Nat /\ y + 1 <= m)
    BY <1>5, <1>7, <1>9
  <2> HIDE DEF y
  <2>2. y \in Nat /\ y + 1 <= m
    BY <1>8, <2>1
  <2> QED
    BY <2>2 DEF y
<1> QED
  BY <1>1, <1>10, <1>11, <1>12, <1>13 DEF OneWriter, n, m

(* What a unit pulls is its own arena's: a demand unit pulls earlier ones. *)
LEMMA PullsEarlier ==
    ASSUME NEW d \in Definitions, ~Refused(d), NEW u \in DemandUnits(d),
           NEW i \in DOMAIN Compile(d).source[u], Compile(d).source[u][i][1] = "demand"
    PROVE  \E v \in DemandUnits(d) : v < u /\ Compile(d).source[u][i][2] = Index(DemandUnits(d), v)
<1> DEFINE in == d.units[u].ins[i]
<1>1. u \in Units(d) /\ i \in DOMAIN d.units[u].ins /\ Compile(d).source[u][i] = Source(d, in)
  BY Counts DEF Compile
<1>2. in \in Input
  BY <1>1, DefParts
<1>3. GoodInput(d, u, in)
  BY <1>1 DEF Refused, BadInputRef
<1> HIDE DEF in
<1>4. Source(d, in)[1] = "demand" /\ Source(d, in)[2] = Compile(d).source[u][i][2]
  BY <1>1
<1>5. in[1] = "unit" /\ IsDemand(d, in[2])
  <2>1. CASE in = <<"const">>
    BY <1>4, <2>1 DEF Source
  <2>2. CASE in \in {"param"} \X (Nat \ {0})
    <3>1. in[1] = "param"
      BY <2>2
    <3>2. Source(d, in) = ParamSource(d, in[2])
      BY <3>1 DEF Source
    <3>3. ParamSource(d, in[2])[1] # "demand"
      BY DEF ParamSource
    <3> QED
      BY <1>4, <3>2, <3>3
  <2>3. CASE in \in {"unit"} \X (Nat \ {0}) \X Nat
    <3>1. in[1] = "unit"
      BY <2>3
    <3> QED
      BY <1>4, <3>1 DEF Source
  <2> QED
    BY <1>2, <2>1, <2>2, <2>3 DEF Input
<1>6. in[2] \in DemandUnits(d) /\ in[2] < u
  BY <1>3, <1>5 DEF GoodInput, DemandUnits
<1>7. Source(d, in)[2] = Index(DemandUnits(d), in[2])
  BY <1>5 DEF Source
<1> QED
  BY <1>4, <1>6, <1>7

(* Whatever the definition: accepted, it compiles to a sound plan          *)
(* (SynthDef::compile, synthdef.rs; build_layout, graphdef.rs).            *)
THEOREM CompileSound ==
    ASSUME NEW d \in Definitions, ~Refused(d)
    PROVE  PlanSound(d, Compile(d))
<1> DEFINE p == Compile(d)
           span == BuildLayout(d).spans
<1>1. p.layout = BuildLayout(d) /\ p.bs = BlockSize(d)
  BY DEF Compile
<1>2. /\ \A m, n \in SpanNames : m # n => Apart(span[m], span[n])
      /\ \A n \in SpanNames : Inside(span[n], BuildLayout(d).total) /\ span[n].off % 4 = 0
      /\ \A n \in {"state", "demand", "aux"} : span[n].off % 8 = 0
      /\ span["state"].len = AlignUp(States(d).end, 8)
      /\ span["demand"].len = AlignUp(Demands(d).end, 8)
      /\ span["aux"].len = AlignUp(Auxes(d).end, 8)
      /\ span["control"].len = 4 * NumControlWires(d)
  BY SpansSound
<1> HIDE DEF span
<1>3. p.layout.spans = span
  BY <1>1 DEF span
<1>4. SpansSafe(p)
  <2> HIDE DEF p
  <2> QED
    BY <1>1, <1>2, <1>3 DEF SpansSafe
<1>5. CalcsSafe(d, p)
  <2>1. \A u, v \in CalcUnits(d) :
           /\ StateRange(d, p, u).off % d.units[u].align = 0
           /\ d.units[u].aux > 0 => AuxRange(d, p, u).off % 4 = 0
           /\ Inside(StateRange(d, p, u), span["state"].len)
           /\ Inside(AuxRange(d, p, u), span["aux"].len)
           /\ u # v => /\ Apart(StateRange(d, p, u), StateRange(d, p, v))
                       /\ Apart(AuxRange(d, p, u), AuxRange(d, p, v))
    <3> HIDE DEF p
    <3> QED
      BY <1>2, OffsetsSound DEF p
  <2> HIDE DEF p
  <2> QED
    BY <1>3, <2>1 DEF CalcsSafe
<1>6. DemandsSafe(d, p)
  <2>1. ASSUME NEW u \in DemandUnits(d)
        PROVE  /\ DemandState(d, p, u).off % d.units[u].align = 0
               /\ d.units[u].aux > 0 => DemandAux(d, p, u).off % 4 = 0
               /\ Inside(DemandAux(d, p, u), span["demand"].len)
               /\ \A v \in DemandUnits(d) :
                     /\ Inside(DemandState(d, p, v), DemandAux(d, p, u).off)
                     /\ v < u => Inside(DemandAux(d, p, v), DemandAux(d, p, u).off)
                     /\ u # v => /\ Apart(DemandState(d, p, u), DemandState(d, p, v))
                                 /\ Apart(DemandAux(d, p, u), DemandAux(d, p, v))
    BY <1>2, DemandsSound
  <2>2. ASSUME NEW u \in DemandUnits(d), NEW i \in DOMAIN p.source[u], p.source[u][i][1] = "demand"
        PROVE  LET v == CHOOSE w \in DemandUnits(d) : Index(DemandUnits(d), w) = p.source[u][i][2]
               IN  Inside(DemandAux(d, p, v), DemandAux(d, p, u).off)
    <3>1. PICK v \in DemandUnits(d) : v < u /\ p.source[u][i][2] = Index(DemandUnits(d), v)
      BY <2>2, PullsEarlier
    <3>2. (CHOOSE w \in DemandUnits(d) : Index(DemandUnits(d), w) = p.source[u][i][2]) = v
      <4>1. \A w \in DemandUnits(d) : Index(DemandUnits(d), w) = Index(DemandUnits(d), v) => w = v
        BY Counts, Ordered
      <4> HIDE DEF p
      <4> QED
        BY <3>1, <4>1
    <3> HIDE DEF p
    <3> QED
      BY <2>1, <3>1, <3>2
  <2> HIDE DEF p
  <2> QED
    BY <1>3, <2>1, <2>2 DEF DemandsSafe
<1>7. WiresSafe(d, p)
  <2>1. /\ OneWriter(ControlWires(d, p)) /\ OneWriter(AudioWires(d, p))
        /\ \A w \in ControlWires(d, p) : w.at \in Nat /\ w.at + 1 <= NumControlWires(d)
        /\ \A w \in AudioWires(d, p) : w.at \in Nat /\ w.at + 1 <= NumAudioWires(d)
    BY WritersSound
  <2> HIDE DEF p
  <2>2. \A w \in ControlWires(d, p) : 4 * (w.at + 1) <= span["control"].len
    <3>1. NumControlWires(d) \in Nat
      BY Counts
    <3>2. \A x, y \in Nat : x + 1 <= y => 4 * (x + 1) <= 4 * y
      OBVIOUS
    <3> QED
      BY <1>2, <2>1, <3>1, <3>2, Zenon
  <2>3. NumAudioWires(d) \in Nat /\ NumAudioWires(d) <= MaxWireBufs /\ MaxWireBufs \in Nat
    <3>1. ~(NumAudioWires(d) > MaxWireBufs)
      BY DEF Refused, TooManyWires
    <3>2. NumAudioWires(d) \in Nat
      BY ParamWires
    <3> QED
      BY <3>1, <3>2, CompileAssumption
  <2>4. p.bs \in Nat /\ p.bs <= WorldBlock /\ WorldBlock \in Nat
    BY <1>1, BlockIs, CompileAssumption
  <2>5. ASSUME NEW w \in AudioWires(d, p) PROVE (w.at + 1) * p.bs <= MaxWireBufs * WorldBlock
    <3>1. \A w1, b, x, y \in Nat : w1 <= x /\ b <= y => w1 * b <= x * y
      <4> SUFFICES ASSUME NEW w1 \in Nat, NEW b \in Nat, NEW x \in Nat, NEW y \in Nat, w1 <= x, b <= y
                   PROVE  w1 * b <= x * y
        OBVIOUS
      <4>1. w1 * b <= x * b
        OBVIOUS
      <4>2. x * b <= x * y
        OBVIOUS
      <4> QED
        BY <4>1, <4>2
    <3>2. w.at \in Nat /\ w.at + 1 <= NumAudioWires(d)
      BY <2>1
    <3>3. w.at + 1 \in Nat /\ w.at + 1 <= MaxWireBufs
      BY <2>3, <3>2
    <3> QED
      BY <2>3, <2>4, <3>1, <3>3
  <2> QED
    BY <1>3, <2>1, <2>2, <2>5 DEF WiresSafe
<1> QED
  BY <1>4, <1>5, <1>6, <1>7 DEF PlanSound

(* The plan the synths run by. *)
Planned == def \in Definitions /\ ~Refused(def) /\ plan = Compile(def)
(* The plan is what the definition compiles to from the first state on. *)
LEMMA InitPlanned == GraphInit => Planned
  BY DefsAssumption DEF GraphInit, Planned

(* No step changes either. *)
LEMMA StepPlanned == Planned /\ [GraphNext]_graphVars => Planned'
<1> SUFFICES ASSUME Planned, [GraphNext]_graphVars PROVE Planned'
  OBVIOUS
<1>1. UNCHANGED <<def, plan>>
  BY DEF GraphNext, graphVars, NewSynth, FreeSynth, SetRunning, SetControl, BeginBlock, BeginTick,
         RunUnit, EndTick, NextTick
<1> QED
  BY <1>1 DEF Planned

(* Synths run by sound plans only: what shares a block or a wire is apart  *)
(* (the layout of graphdef.rs, the wires of synthdef.rs).                  *)
THEOREM PlansStaySound == GraphSpec => []PlansSound
<1>1. Planned => PlansSound
  BY CompileSound DEF Planned, PlansSound
<1> QED
  BY <1>1, InitPlanned, StepPlanned, PTL DEF GraphSpec

-----------------------------------------------------------------------------
(* The walk.                                                               *)

(* What an instance is made of, and what its local buffers may hold. *)
Fields == {"ctrl", "done", "ended", "lag", "local", "lbuf", "samples", "aux", "ticks", "init"}
Contents(d, s) == {Zero} \cup {<<"fill", s, u>> : u \in Units(d)}
Formed(d, s, g) ==
    /\ DOMAIN g = Fields
    /\ DOMAIN g.ctrl = 0..(NumControlWires(d) - 1)
    /\ g.ticks \in Nat
    /\ g.samples \in Seq(Contents(d, s))
    /\ DOMAIN g.lbuf = LocalBufUnits(d)
    /\ \A u \in LocalBufUnits(d) : g.lbuf[u].live =>
          /\ g.lbuf[u].off \in Nat /\ g.lbuf[u].len \in Nat
          /\ g.lbuf[u].off + g.lbuf[u].len <= Len(g.samples)
          /\ \A k \in 1..g.lbuf[u].len : g.samples[g.lbuf[u].off + k] = <<"fill", s, u>>

(* Synths that run are there, each once; a tick is at a unit of one.       *)
Once(seq) == \A i, j \in DOMAIN seq : seq[i] = seq[j] => i = j
AtUnit ==
    /\ pc \in [synth : LiveSynths, tick : Nat, phase : {"construct", "calc", "ticked", "next"}, step : Nat]
    /\ pc.synth \in Range(running)
    /\ pc.phase = "construct" => pc.step \in 1..Len(def.units)
    /\ pc.phase = "calc" => pc.step \in 1..Cardinality(CalcUnits(def))
Walks ==
    /\ Planned
    /\ DOMAIN graph = Synth
    /\ \A s \in LiveSynths : Formed(def, s, graph[s])
    /\ running \in Seq(LiveSynths) /\ Once(running)
    /\ pc = Idle \/ AtUnit

(* A synth that is there is not absent. *)
LEMMA FormedIsLive ==
    ASSUME NEW d, NEW s, NEW g, Formed(d, s, g)
    PROVE  g # Absent
<1>1. DOMAIN Absent = {"ctrl"} /\ "ticks" \in DOMAIN g
  BY DEF Absent, Formed, Fields
<1> QED
  BY <1>1

(* One field of an instance that is written. *)
LEMMA Written ==
    ASSUME NEW g, DOMAIN g = Fields, NEW f \in Fields, NEW e
    PROVE  LET h == [g EXCEPT ![f] = e]
           IN  DOMAIN h = Fields /\ h[f] = e /\ \A k \in Fields : k # f => h[k] = g[k]
  OBVIOUS

(* The calc list has every unit it should, at its index. *)
LEMMA CalcIs ==
    ASSUME Planned
    PROVE  /\ Cardinality(CalcUnits(def)) \in Nat
           /\ Len(Calc) = Cardinality(CalcUnits(def)) /\ DOMAIN Calc = 1..Len(Calc)
           /\ Calc = <<>> <=> Cardinality(CalcUnits(def)) = 0
           /\ \A k \in 1..Len(Calc) : Calc[k] \in CalcUnits(def) /\ Index(CalcUnits(def), Calc[k]) = k - 1
           /\ \A u \in CalcUnits(def) : Index(CalcUnits(def), u) + 1 \in 1..Len(Calc)
<1> DEFINE S == CalcUnits(def)
<1>1. Len(def.units) \in Nat /\ S \in SUBSET (1..Len(def.units))
  BY DefParts DEF Planned, CalcUnits
<1>2. Cardinality(S) \in Nat /\ \A u \in S : Index(S, u) \in 0..(Cardinality(S) - 1)
  BY <1>1, IndexIs
<1>3. \A k \in 0..(Cardinality(S) - 1) : LET u == CHOOSE v \in S : Index(S, v) = k
                                         IN  u \in S /\ Index(S, u) = k
  BY <1>1, Numbered
<1>4. Calc = [i \in 1..Cardinality(S) |-> CHOOSE u \in S : Index(S, u) = i - 1]
  BY DEF Calc
<1> HIDE DEF S
<1>5. Len(Calc) = Cardinality(S) /\ DOMAIN Calc = 1..Len(Calc)
  BY <1>2, <1>4
<1>6. \A k \in 1..Cardinality(S) : Calc[k] \in S /\ Index(S, Calc[k]) = k - 1
  <2> TAKE k \in 1..Cardinality(S)
  <2>1. k - 1 \in 0..(Cardinality(S) - 1)
    BY <1>2
  <2> QED
    BY <2>1, <1>3, <1>4
<1>7. Calc = <<>> <=> Cardinality(S) = 0
  BY <1>2, <1>4, <1>5
<1>8. \A u \in S : Index(S, u) + 1 \in 1..Len(Calc)
  BY <1>2, <1>5
<1> QED
  BY <1>2, <1>5, <1>6, <1>7, <1>8 DEF S

(* The walk without a synth. *)
LEMMA WithoutIs ==
    ASSUME NEW S, running \in Seq(S), Once(running), NEW s
    PROVE  /\ Without(s) \in Seq(S \ {s}) /\ Once(Without(s))
<1>1. CASE s \notin Range(running)
  <2>1. Without(s) = running
    BY <1>1 DEF Without
  <2>2. \A i \in 1..Len(running) : running[i] \in S /\ running[i] # s
    BY <1>1 DEF Range
  <2> QED
    BY <2>1, <2>2
<1>2. CASE s \in Range(running)
  <2> DEFINE i == CHOOSE j \in DOMAIN running : running[j] = s
             n == Len(running)
             a == SubSeq(running, 1, i - 1)
             b == SubSeq(running, i + 1, n)
  <2>1. i \in 1..n /\ running[i] = s /\ n \in Nat /\ \A j \in 1..n : running[j] \in S
    BY <1>2 DEF Range
  <2>2. Without(s) = a \o b
    BY <1>2 DEF Without, RemoveAt
  <2> HIDE DEF i, n
  <2>3. i - 1 \in Int /\ i + 1 \in Int /\ 1 \in Int /\ n \in Int /\ \A j \in 1..(i - 1) : running[j] \in S
    BY <2>1
  <2>4. /\ a \in Seq(S) /\ Len(a) = i - 1 /\ \A j \in 1..(i - 1) : a[j] = running[j]
    <3>1. /\ a \in Seq(S) /\ Len(a) = IF 1 <= i - 1 THEN (i - 1) - 1 + 1 ELSE 0
          /\ \A j \in 1..((i - 1) - 1 + 1) : a[j] = running[1 + j - 1]
      BY <2>3, SubSeqProperties
    <3> HIDE DEF a
    <3> QED
      BY <3>1, <2>1
  <2>5. /\ b \in Seq(S) /\ Len(b) = n - i /\ \A j \in 1..(n - i) : b[j] = running[i + j]
    <3>0. \A j \in (i + 1)..n : running[j] \in S
      BY <2>1
    <3>1. /\ b \in Seq(S) /\ Len(b) = IF i + 1 <= n THEN n - (i + 1) + 1 ELSE 0
          /\ \A j \in 1..(n - (i + 1) + 1) : b[j] = running[(i + 1) + j - 1]
      BY <2>3, <3>0, SubSeqProperties
    <3> HIDE DEF b
    <3> QED
      BY <3>1, <2>1
  <2> HIDE DEF a, b
  <2>6. /\ a \o b \in Seq(S) /\ Len(a \o b) = n - 1
        /\ \A j \in 1..(n - 1) : (a \o b)[j] = IF j <= i - 1 THEN a[j] ELSE b[j - (i - 1)]
    <3>1. /\ a \o b \in Seq(S) /\ Len(a \o b) = Len(a) + Len(b)
          /\ \A j \in 1..(Len(a) + Len(b)) : (a \o b)[j] = IF j <= Len(a) THEN a[j] ELSE b[j - Len(a)]
      BY <2>4, <2>5, ConcatProperties
    <3>2. Len(a) + Len(b) = n - 1
      BY <2>1, <2>4, <2>5
    <3> QED
      BY <2>4, <3>1, <3>2
  <2> DEFINE q == a \o b
  <2>7. q \in Seq(S) /\ Len(q) = n - 1 /\ DOMAIN q = 1..(n - 1)
    BY <2>6, <2>1
  <2>8. \A j \in 1..(n - 1) : q[j] = running[IF j < i THEN j ELSE j + 1]
    <3> TAKE j \in 1..(n - 1)
    <3>1. CASE j < i
      BY <3>1, <2>1, <2>4, <2>6
    <3>2. CASE ~(j < i)
      <4>1. j - (i - 1) \in 1..(n - i) /\ i + (j - (i - 1)) = j + 1
        BY <3>2, <2>1
      <4>2. q[j] = b[j - (i - 1)]
        BY <3>2, <2>1, <2>6
      <4> QED
        BY <4>1, <4>2, <2>5, <3>2
    <3> QED
      BY <3>1, <3>2
  <2> HIDE DEF q
  <2>9. \A j, k \in 1..n : running[j] = running[k] => j = k
    BY <2>1 DEF Once, n
  <2>10. \A j \in 1..(n - 1) : q[j] \in S /\ q[j] # s
    <3> TAKE j \in 1..(n - 1)
    <3> DEFINE m == IF j < i THEN j ELSE j + 1
    <3>1. m \in 1..n /\ m # i
      BY <2>1
    <3> QED
      BY <3>1, <2>1, <2>8, <2>9
  <2>11. Once(q)
    <3> SUFFICES ASSUME NEW j \in 1..(n - 1), NEW k \in 1..(n - 1), q[j] = q[k] PROVE j = k
      BY <2>7 DEF Once
    <3> DEFINE m == IF j < i THEN j ELSE j + 1
               l == IF k < i THEN k ELSE k + 1
    <3>1. m \in 1..n /\ l \in 1..n
      BY <2>1
    <3>2. m = l
      BY <3>1, <2>8, <2>9
    <3> QED
      BY <3>2, <2>1
  <2>12. q \in Seq(S \ {s})
    BY <2>7, <2>10
  <2> QED
    BY <2>2, <2>11, <2>12 DEF q
<1> QED
  BY <1>1, <1>2

(* What a trigger parameter has to itself: its wire. *)
LEMMA TrigWire ==
    ASSUME Planned, NEW p \in ParamsOf(def, "trig")
    PROVE  /\ ParamWire(p) \in 0..(NumControlWires(def) - 1)
           /\ p \in DOMAIN def.params /\ def.params[p] = "trig"
           /\ \A q \in ParamsOf(def, "lag") : LagWire(def, q) # ParamWire(p)
           /\ \A u \in CalcUnits(def) : u \notin AudioUnits(def) =>
                 \A o \in DOMAIN plan.wire[u] : plan.wire[u][o] # ParamWire(p)
           /\ \A q \in DOMAIN def.params : ParamWire(p) = ParamWire(q) => p = q
<1>1. Len(def.params) \in Nat /\ DOMAIN def.params = 1..Len(def.params)
  BY DefParts DEF Planned
<1>2. p \in 1..Len(def.params) /\ def.params[p] = "trig"
  BY <1>1 DEF ParamsOf
<1>3. Cardinality(ParamsOf(def, "lag")) \in Nat /\ Outs(def, ControlUnits(def)) \in Nat
  <2>1. Cardinality(ParamsOf(def, "lag")) \in Nat
    BY Counts DEF Planned
  <2>2. Outs(def, ControlUnits(def)) \in Nat
    BY OutsGrow DEF Planned
  <2> QED
    BY <2>1, <2>2
<1>4. ParamWire(p) \in 0..(NumControlWires(def) - 1) /\ ParamWire(p) < Len(def.params)
  BY <1>1, <1>2, <1>3 DEF NumControlWires, ParamWire
<1>5. ASSUME NEW q \in ParamsOf(def, "lag") PROVE LagWire(def, q) # ParamWire(p)
  <2>1. ParamsOf(def, "lag") \in SUBSET (1..Len(def.params))
    BY <1>1 DEF ParamsOf
  <2>2. Index(ParamsOf(def, "lag"), q) \in Nat
    <3>1. /\ Cardinality(ParamsOf(def, "lag")) \in Nat
          /\ Index(ParamsOf(def, "lag"), q) \in 0..(Cardinality(ParamsOf(def, "lag")) - 1)
      BY <1>1, <2>1, IndexIs
    <3> QED
      BY <3>1
  <2> QED
    BY <1>1, <1>4, <2>2 DEF LagWire
<1>6. ASSUME NEW u \in CalcUnits(def), u \notin AudioUnits(def), NEW o \in DOMAIN plan.wire[u]
      PROVE  plan.wire[u][o] # ParamWire(p)
  <2>1. plan.wire = [v \in CalcUnits(def) |-> [k \in 0 .. def.units[v].nout - 1 |-> UnitWire(def, v, k)]]
    BY DEF Planned, Compile
  <2>2. o \in 0..(def.units[u].nout - 1) /\ plan.wire[u][o] = UnitWire(def, u, o)
    BY <2>1
  <2>3. UnitWire(def, u, o) >= Len(def.params) + Cardinality(ParamsOf(def, "lag")) /\ UnitWire(def, u, o) \in Nat
    BY <1>6, <2>2, WiresSound DEF Planned
  <2> QED
    BY <1>1, <1>3, <1>4, <2>2, <2>3
<1>7. \A q \in DOMAIN def.params : ParamWire(p) = ParamWire(q) => p = q
  BY <1>1, <1>2 DEF ParamWire
<1> QED
  BY <1>2, <1>4, <1>5, <1>6, <1>7

(* What an instance keeps while its controls and its clock move. *)
Buffers(g, h) == DOMAIN h = Fields /\ h.lbuf = g.lbuf /\ h.samples = g.samples
Others(s) == DOMAIN graph' = Synth /\ \A t \in Synth : t # s => graph'[t] = graph[t]

(* What a tick that begins does: parameters are lagged, ticks counted.     *)
LEMMA BeginTickIs ==
    ASSUME Walks, NEW s \in LiveSynths, NEW tick, BeginTick(s, tick)
    PROVE  /\ Others(s) /\ Buffers(graph[s], graph'[s])
           /\ graph'[s].ctrl = Lagged(s) /\ graph'[s].ticks = graph[s].ticks + 1
           /\ pc' = [synth |-> s, tick |-> tick, phase |-> FirstStep(s), step |-> 1]
           /\ UNCHANGED <<def, plan, running, sets, trigSeen>>
<1> DEFINE g1 == [graph[s] EXCEPT !.ctrl = Lagged(s)]
           g2 == [g1 EXCEPT !.lag = LagStep(s)]
           g3 == [g2 EXCEPT !.ticks = @ + 1]
           h == [g3 EXCEPT !.init = TRUE]
<1>1. DOMAIN graph = Synth /\ s \in Synth /\ DOMAIN graph[s] = Fields
  BY DEF Walks, LiveSynths, Formed
<1>2. graph' = [graph EXCEPT ![s] = h]
  <2>1. graph' = [graph EXCEPT ![s].ctrl = Lagged(s), ![s].lag = LagStep(s), ![s].ticks = @ + 1, ![s].init = TRUE]
    BY DEF BeginTick
  <2> QED
    BY <1>1, <2>1
<1>3. DOMAIN g1 = Fields /\ g1.ctrl = Lagged(s) /\ \A k \in Fields : k # "ctrl" => g1[k] = graph[s][k]
  BY <1>1 DEF Fields
<1> HIDE DEF g1
<1>4. DOMAIN g2 = Fields /\ \A k \in Fields : k # "lag" => g2[k] = g1[k]
  BY <1>3 DEF Fields
<1> HIDE DEF g2
<1>5. DOMAIN g3 = Fields /\ g3.ticks = g2.ticks + 1 /\ \A k \in Fields : k # "ticks" => g3[k] = g2[k]
  BY <1>4 DEF Fields
<1> HIDE DEF g3
<1>6. DOMAIN h = Fields /\ \A k \in Fields : k # "init" => h[k] = g3[k]
  BY <1>5 DEF Fields
<1> HIDE DEF h
<1>7. DOMAIN h = Fields /\ h.ctrl = Lagged(s) /\ h.ticks = graph[s].ticks + 1 /\ h.lbuf = graph[s].lbuf
      /\ h.samples = graph[s].samples
  BY <1>3, <1>4, <1>5, <1>6 DEF Fields
<1>8. graph'[s] = h /\ Others(s)
  BY <1>1, <1>2 DEF Others
<1>9. /\ pc' = [synth |-> s, tick |-> tick, phase |-> FirstStep(s), step |-> 1]
      /\ UNCHANGED <<def, plan, running, sets, trigSeen>>
  BY DEF BeginTick
<1> QED
  BY <1>7, <1>8, <1>9 DEF Buffers

(* What a tick that ends does: trigger parameters are zeroed.              *)
LEMMA EndTickIs ==
    ASSUME Walks, AtUnit, EndTick
    PROVE  LET s == pc.synth
           IN  /\ Others(s) /\ Buffers(graph[s], graph'[s])
               /\ graph'[s].ticks = graph[s].ticks
               /\ graph'[s].ctrl = [w \in DOMAIN graph[s].ctrl |->
                         IF \E p \in ParamsOf(def, "trig") : w = ParamWire(p) THEN Zero ELSE graph[s].ctrl[w]]
               /\ UNCHANGED <<def, plan, running, sets, trigSeen>>
<1> DEFINE s == pc.synth
           c == [w \in DOMAIN graph[s].ctrl |->
                    IF \E p \in ParamsOf(def, "trig") : w = ParamWire(p) THEN Zero ELSE graph[s].ctrl[w]]
<1>1. DOMAIN graph = Synth /\ s \in Synth /\ s \in LiveSynths /\ DOMAIN graph[s] = Fields
  BY DEF Walks, AtUnit, LiveSynths, Formed
<1>2. graph' = [graph EXCEPT ![s].ctrl = c]
  BY DEF EndTick
<1> HIDE DEF c
<1>3. graph'[s] = [graph[s] EXCEPT !.ctrl = c] /\ Others(s)
  BY <1>1, <1>2 DEF Others
<1>4. "ctrl" \in Fields /\ "ticks" \in Fields /\ "lbuf" \in Fields /\ "samples" \in Fields
  BY DEF Fields
<1>5. DOMAIN graph'[s] = Fields /\ graph'[s].ctrl = c /\ graph'[s].ticks = graph[s].ticks
      /\ graph'[s].lbuf = graph[s].lbuf /\ graph'[s].samples = graph[s].samples
  BY <1>1, <1>3, <1>4
<1>6. UNCHANGED <<def, plan, running, sets, trigSeen>>
  BY DEF EndTick
<1> QED
  BY <1>3, <1>5, <1>6 DEF c, Buffers

(* A local buffer that is given its storage and filled. *)
LEMMA FilledIs ==
    ASSUME Planned, NEW s, NEW g, Formed(def, s, g), NEW u \in LocalBufUnits(def)
    PROVE  LET h == Filled(Grown(g, u, 2), s, u)
           IN  Formed(def, s, h) /\ h.ctrl = g.ctrl /\ h.ticks = g.ticks
<1> DEFINE n == Len(g.samples)
           rec == [live |-> TRUE, off |-> n, len |-> 2]
           more == g.samples \o [k \in 1 .. 2 |-> Zero]
           g1 == [g EXCEPT !.lbuf[u] = rec]
           g2 == [g1 EXCEPT !.samples = more]
           full == [k \in DOMAIN more |-> IF k > n /\ k <= n + 2 THEN <<"fill", s, u>> ELSE more[k]]
           h == Filled(Grown(g, u, 2), s, u)
<1>1. /\ DOMAIN g = Fields /\ g.samples \in Seq(Contents(def, s)) /\ DOMAIN g.lbuf = LocalBufUnits(def) /\ n \in Nat
      /\ DOMAIN g.ctrl = 0..(NumControlWires(def) - 1) /\ g.ticks \in Nat
  BY DEF Formed
<1>2. Grown(g, u, 2) = g2
  BY <1>1 DEF Grown, Fields
<1>3. /\ DOMAIN g1 = Fields /\ g1.lbuf = [g.lbuf EXCEPT ![u] = rec]
      /\ \A k \in Fields : k # "lbuf" => g1[k] = g[k]
  BY <1>1 DEF Fields
<1> HIDE DEF g1, more
<1>4. DOMAIN g2 = Fields /\ g2.samples = more /\ \A k \in Fields : k # "samples" => g2[k] = g1[k]
  BY <1>3 DEF Fields
<1> HIDE DEF g2
<1>5. g2.lbuf[u] = rec /\ g2.lbuf[u].off = n /\ g2.lbuf[u].len = 2 /\ DOMAIN g2.lbuf = LocalBufUnits(def)
      /\ \A v \in LocalBufUnits(def) : v # u => g2.lbuf[v] = g.lbuf[v]
  <2>1. g2.lbuf = [g.lbuf EXCEPT ![u] = rec]
    BY <1>3, <1>4 DEF Fields
  <2>2. rec.off = n /\ rec.len = 2
    OBVIOUS
  <2> QED
    BY <1>1, <2>1, <2>2
<1>6. h = [g2 EXCEPT !.samples = full]
  <2>1. h = [g2 EXCEPT !.samples = [k \in DOMAIN g2.samples |->
              IF k > g2.lbuf[u].off /\ k <= g2.lbuf[u].off + g2.lbuf[u].len THEN <<"fill", s, u>> ELSE g2.samples[k]]]
    BY <1>2, <1>4 DEF Filled, Fields
  <2> QED
    BY <1>4, <1>5, <2>1
<1> HIDE DEF full, h
<1>7. /\ DOMAIN h = Fields /\ h.samples = full /\ h.lbuf = g2.lbuf /\ h.ctrl = g.ctrl /\ h.ticks = g.ticks
  <2>1. DOMAIN h = Fields /\ h.samples = full /\ \A k \in Fields : k # "samples" => h[k] = g2[k]
    BY <1>4, <1>6 DEF Fields
  <2> QED
    BY <1>3, <1>4, <2>1 DEF Fields
<1>8. /\ Len(more) = n + 2 /\ DOMAIN more = 1..(n + 2) /\ \A k \in 1..n : more[k] = g.samples[k] /\ g.samples[k] \in Contents(def, s)
  BY <1>1 DEF more
<1>9. /\ DOMAIN full = 1..(n + 2) /\ full[n + 1] = <<"fill", s, u>> /\ full[n + 2] = <<"fill", s, u>>
      /\ \A k \in 1..n : full[k] = g.samples[k] /\ g.samples[k] \in Contents(def, s)
      /\ full = [k \in 1..(n + 2) |-> full[k]]
  BY <1>1, <1>8 DEF full
<1>10. <<"fill", s, u>> \in Contents(def, s)
  BY DEF Contents, LocalBufUnits, CalcUnits
<1>11. full \in Seq(Contents(def, s)) /\ Len(full) = n + 2
  <2>1. \A k \in 1..(n + 2) : k \in 1..n \/ k = n + 1 \/ k = n + 2
    BY <1>1
  <2>2. \A k \in 1..(n + 2) : full[k] \in Contents(def, s)
    BY <1>9, <1>10, <2>1
  <2>3. n + 2 \in Nat
    BY <1>1
  <2> QED
    BY <1>9, <2>2, <2>3, SMTT(30)
<1>12. ASSUME NEW v \in LocalBufUnits(def), h.lbuf[v].live
       PROVE  /\ h.lbuf[v].off \in Nat /\ h.lbuf[v].len \in Nat
              /\ h.lbuf[v].off + h.lbuf[v].len <= Len(h.samples)
              /\ \A k \in 1..h.lbuf[v].len : h.samples[h.lbuf[v].off + k] = <<"fill", s, v>>
  <2>1. CASE v = u
    <3>1. h.lbuf[v].off = n /\ h.lbuf[v].len = 2 /\ Len(h.samples) = n + 2
      BY <1>5, <1>7, <1>11, <2>1
    <3>2. \A k \in 1..2 : k = 1 \/ k = 2
      OBVIOUS
    <3>3. \A k \in 1..2 : h.samples[n + k] = <<"fill", s, v>>
      BY <1>7, <1>9, <2>1, <3>2
    <3> HIDE DEF n
    <3> QED
      BY <1>1, <3>1, <3>3
  <2>2. CASE v # u
    <3> DEFINE b == g.lbuf[v]
    <3>1. h.lbuf[v] = b
      BY <1>5, <1>7, <2>2
    <3>2. /\ b.off \in Nat /\ b.len \in Nat /\ b.off + b.len <= n
          /\ \A k \in 1..b.len : g.samples[b.off + k] = <<"fill", s, v>>
      BY <1>12, <3>1 DEF Formed
    <3> HIDE DEF b
    <3>3. \A k \in 1..b.len : b.off + k \in 1..n
      BY <1>1, <3>2
    <3>4. \A k \in 1..b.len : h.samples[b.off + k] = <<"fill", s, v>>
      BY <1>7, <1>9, <3>2, <3>3
    <3>5. b.off + b.len <= Len(h.samples)
      BY <1>1, <1>7, <1>11, <3>2
    <3> QED
      BY <3>1, <3>2, <3>4, <3>5
  <2> QED
    BY <2>1, <2>2
<1>13. Formed(def, s, h) /\ h.ctrl = g.ctrl /\ h.ticks = g.ticks
  BY <1>1, <1>5, <1>7, <1>11, <1>12 DEF Formed
<1> QED
  BY <1>13 DEF h

(* What a unit does to its instance beside its outputs leaves the controls *)
(* and the clock alone.                                                    *)
LEMMA EffectsAre ==
    ASSUME Planned, NEW s, NEW g, Formed(def, s, g), NEW u \in CalcUnits(def), NEW phase,
           NEW h \in Effects(g, s, u, phase)
    PROVE  Formed(def, s, h) /\ h.ctrl = g.ctrl /\ h.ticks = g.ticks
<1>1. ASSUME NEW x, DOMAIN x = Fields, x.ctrl = g.ctrl, x.ticks = g.ticks, x.lbuf = g.lbuf, x.samples = g.samples
      PROVE  Formed(def, s, x) /\ x.ctrl = g.ctrl /\ x.ticks = g.ticks
  BY <1>1 DEF Formed
<1>2. ASSUME NEW b PROVE LET x == Done(g, u, b) IN Formed(def, s, x) /\ x.ctrl = g.ctrl /\ x.ticks = g.ticks
  <2> DEFINE x == Done(g, u, b)
  <2>1. DOMAIN g = Fields
    BY DEF Formed
  <2>2. DOMAIN x = Fields /\ x.ctrl = g.ctrl /\ x.ticks = g.ticks /\ x.lbuf = g.lbuf /\ x.samples = g.samples
    BY <2>1 DEF Done, Fields
  <2> HIDE DEF x
  <2> QED
    BY <1>1, <2>2 DEF x
<1>3. ASSUME NEW b PROVE LET x == [g EXCEPT !.aux[u] = b] IN Formed(def, s, x) /\ x.ctrl = g.ctrl /\ x.ticks = g.ticks
  <2> DEFINE x == [g EXCEPT !.aux[u] = b]
  <2>1. DOMAIN g = Fields
    BY DEF Formed
  <2>2. DOMAIN x = Fields /\ x.ctrl = g.ctrl /\ x.ticks = g.ticks /\ x.lbuf = g.lbuf /\ x.samples = g.samples
    BY <2>1 DEF Fields
  <2> HIDE DEF x
  <2> QED
    BY <1>1, <2>2 DEF x
<1>4. LET x == Fed(g, s, u, phase) IN Formed(def, s, x) /\ x.ctrl = g.ctrl /\ x.ticks = g.ticks
  <2> DEFINE x == Fed(g, s, u, phase)
  <2>1. DOMAIN g = Fields
    BY DEF Formed
  <2>2. DOMAIN x = Fields /\ x.ctrl = g.ctrl /\ x.ticks = g.ticks /\ x.lbuf = g.lbuf /\ x.samples = g.samples
    BY <2>1 DEF Fed, Fields
  <2> HIDE DEF x
  <2> QED
    BY <1>1, <2>2 DEF x
<1>5. CASE phase = "construct" /\ Name(u) = "LocalBuf"
  <2>1. u \in LocalBufUnits(def)
    BY <1>5 DEF LocalBufUnits, Name
  <2>2. h = Filled(Grown(g, u, 2), s, u) \/ h = Done(g, u, TRUE)
    BY <1>5 DEF Effects
  <2> DEFINE x == Filled(Grown(g, u, 2), s, u)
  <2>3. Formed(def, s, x) /\ x.ctrl = g.ctrl /\ x.ticks = g.ticks
    BY <2>1, FilledIs
  <2>4. CASE h = Done(g, u, TRUE)
    BY <1>2, <2>4
  <2> HIDE DEF x
  <2>5. CASE h = x
    BY <2>3, <2>5
  <2> QED
    BY <2>2, <2>4, <2>5 DEF x
<1>6. CASE ~(phase = "construct" /\ Name(u) = "LocalBuf")
  <2>1. \/ \E b : h = [g EXCEPT !.aux[u] = b]
        \/ \E b : h = Done(g, u, b)
        \/ h = Fed(g, s, u, phase)
        \/ h = g
    BY <1>6 DEF Effects
  <2> QED
    BY <1>2, <1>3, <1>4, <2>1
<1> QED
  BY <1>5, <1>6

(* The unit a tick is at. *)
LEMMA UnitAtIs ==
    ASSUME Walks, AtUnit, pc.phase \in {"construct", "calc"}
    PROVE  /\ UnitAt \in Units(def)
           /\ pc.phase = "calc" => UnitAt \in CalcUnits(def) /\ Index(CalcUnits(def), UnitAt) + 1 = pc.step
           /\ ~IsDemand(def, UnitAt) => UnitAt \in CalcUnits(def)
<1>1. Planned /\ Units(def) = 1..Len(def.units)
  BY DefParts DEF Walks, Planned
<1>2. CASE pc.phase = "construct"
  BY <1>1, <1>2 DEF AtUnit, UnitAt, CalcUnits, DemandUnits
<1>3. CASE pc.phase = "calc"
  <2>1. pc.step \in 1..Len(Calc) /\ UnitAt = Calc[pc.step] /\ pc.step \in Nat
    BY <1>1, <1>3, CalcIs DEF AtUnit, UnitAt
  <2>2. UnitAt \in CalcUnits(def) /\ Index(CalcUnits(def), UnitAt) = pc.step - 1
    BY <1>1, <2>1, CalcIs
  <2> QED
    BY <1>3, <2>1, <2>2 DEF CalcUnits
<1> QED
  BY <1>2, <1>3

(* The unit of a step reads, and publishes to its own wires.               *)
Heeds == ~IsDemand(def, UnitAt) /\ ~(pc.phase = "calc" /\ def.units[UnitAt].rate = "scalar")
Seen(s, got) ==
    [v \in DOMAIN trigSeen |->
        IF <<"set", v>> \in TrigShown(s, got) THEN trigSeen[v] \cup {graph[s].ticks} ELSE trigSeen[v]]
LEMMA RunUnitIs ==
    ASSUME Walks, AtUnit, RunUnit
    PROVE  LET s == pc.synth
           IN  /\ Others(s) /\ Formed(def, s, graph'[s])
               /\ graph'[s].ticks = graph[s].ticks
               /\ \A p \in ParamsOf(def, "trig") : graph'[s].ctrl[ParamWire(p)] = graph[s].ctrl[ParamWire(p)]
               /\ pc' = NextStep /\ pc.phase \in {"construct", "calc"}
               /\ trigSeen' = IF Heeds THEN Seen(s, Ins(s, UnitAt, pc.phase)) ELSE trigSeen
               /\ UNCHANGED <<def, plan, running, sets>>
<1> DEFINE s == pc.synth
           u == UnitAt
           tick == IF pc.phase = "construct" THEN 0 ELSE graph[s].ticks
           got == Ins(s, u, pc.phase)
           out(g) == [o \in 0 .. def.units[u].nout - 1 |->
                          IF Silenced(g, u) THEN Cleared ELSE <<"out", s, u, o, tick>>]
           after(g) == IF Silenced(g, u) THEN Done(g, u, TRUE) ELSE g
<1>1. DOMAIN graph = Synth /\ s \in Synth /\ s \in LiveSynths /\ Formed(def, s, graph[s]) /\ Planned
  BY DEF Walks, AtUnit, LiveSynths
<1>2. pc' = NextStep /\ pc.phase \in {"construct", "calc"} /\ UNCHANGED <<def, plan, running, sets>>
  BY DEF RunUnit
<1>3. CASE ~Heeds
  <2>1. UNCHANGED <<graph, trigSeen>>
    BY <1>3 DEF RunUnit, Heeds
  <2> QED
    BY <1>1, <1>2, <1>3, <2>1 DEF Others
<1>4. CASE Heeds
  <2>1. trigSeen' = Seen(s, got)
    BY <1>4 DEF RunUnit, Heeds, Seen
  <2>2. PICK g \in Effects(graph[s], s, u, pc.phase) :
            graph' = [graph EXCEPT ![s] = [after(g) EXCEPT !.ctrl = PublishControl(s, u, out(g))]]
    BY <1>4 DEF RunUnit, Heeds
  <2>3. u \in CalcUnits(def)
    BY <1>2, <1>4, UnitAtIs DEF Heeds
  <2>4. Formed(def, s, g) /\ g.ctrl = graph[s].ctrl /\ g.ticks = graph[s].ticks
    BY <1>1, <2>3, EffectsAre
  <2> DEFINE h == after(g)
             c == PublishControl(s, u, out(g))
  <2>5. Formed(def, s, h) /\ h.ctrl = graph[s].ctrl /\ h.ticks = graph[s].ticks
    <3>1. DOMAIN g = Fields
      BY <2>4 DEF Formed
    <3>2. DOMAIN Done(g, u, TRUE) = Fields /\ \A k \in {"ctrl", "ticks", "lbuf", "samples"} : Done(g, u, TRUE)[k] = g[k]
      BY <3>1 DEF Done, Fields
    <3> DEFINE d == Done(g, u, TRUE)
    <3>3. d.ctrl = g.ctrl /\ d.ticks = g.ticks /\ d.lbuf = g.lbuf /\ d.samples = g.samples /\ DOMAIN d = Fields
      BY <3>2
    <3> HIDE DEF d
    <3>4. Formed(def, s, d)
      BY <2>4, <3>3 DEF Formed
    <3>5. h = d \/ h = g
      BY DEF d
    <3> QED
      BY <2>4, <3>3, <3>4, <3>5
  <2> HIDE DEF h
  <2>6. DOMAIN c = DOMAIN graph[s].ctrl /\ \A p \in ParamsOf(def, "trig") : c[ParamWire(p)] = graph[s].ctrl[ParamWire(p)]
    <3>1. DOMAIN c = DOMAIN graph[s].ctrl
      BY DEF PublishControl
    <3>2. DOMAIN graph[s].ctrl = 0..(NumControlWires(def) - 1)
      BY <1>1 DEF Formed
    <3>3. ASSUME NEW p \in ParamsOf(def, "trig") PROVE c[ParamWire(p)] = graph[s].ctrl[ParamWire(p)]
      <4>1. ParamWire(p) \in DOMAIN graph[s].ctrl
        BY <1>1, <3>2, TrigWire
      <4>2. ~(u \notin AudioUnits(def) /\ \E o \in DOMAIN plan.wire[u] : ParamWire(p) = plan.wire[u][o])
        BY <1>1, <2>3, TrigWire
      <4> QED
        BY <4>1, <4>2 DEF PublishControl
    <3> QED
      BY <3>1, <3>3
  <2> HIDE DEF c
  <2>7. graph' = [graph EXCEPT ![s] = [h EXCEPT !.ctrl = c]]
    BY <2>2 DEF h, c
  <2> DEFINE k == [h EXCEPT !.ctrl = c]
  <2>8. DOMAIN h = Fields /\ DOMAIN k = Fields /\ k.ctrl = c /\ k.ticks = h.ticks /\ k.lbuf = h.lbuf /\ k.samples = h.samples
    <3>1. DOMAIN h = Fields
      BY <2>5 DEF Formed
    <3> QED
      BY <3>1 DEF Fields
  <2>9. Formed(def, s, k)
    <3> HIDE DEF k
    <3> QED
      BY <1>1, <2>5, <2>6, <2>8, ZenonT(60) DEF Formed
  <2>10. graph'[s] = k /\ Others(s)
    BY <1>1, <2>7 DEF Others
  <2> HIDE DEF k
  <2> QED
    BY <1>2, <1>4, <2>1, <2>5, <2>6, <2>8, <2>9, <2>10
<1> QED
  BY <1>3, <1>4

(* Nothing runs at first.                                                  *)
LEMMA InitWalks == GraphInit => Walks
<1> SUFFICES ASSUME GraphInit PROVE Walks
  OBVIOUS
<1>1. Planned /\ pc = Idle /\ running = <<>> /\ graph = [s \in Synth |-> Absent]
  BY InitPlanned DEF GraphInit
<1>2. LiveSynths = {} /\ DOMAIN graph = Synth /\ Once(running) /\ running \in Seq(LiveSynths)
  BY <1>1 DEF LiveSynths, Once
<1> QED
  BY <1>1, <1>2 DEF Walks

(* A step that rewrites one instance, and the walk with it. *)
LEMMA Rewritten ==
    ASSUME Walks, NEW s \in LiveSynths, Others(s), Formed(def, s, graph'[s]), UNCHANGED <<def, plan, running>>,
           pc' = Idle \/ (pc' \in [synth : LiveSynths, tick : Nat,
                                   phase : {"construct", "calc", "ticked", "next"}, step : Nat]
                          /\ pc'.synth \in Range(running)
                          /\ (pc'.phase = "construct" => pc'.step \in 1..Len(def.units))
                          /\ (pc'.phase = "calc" => pc'.step \in 1..Cardinality(CalcUnits(def))))
    PROVE  Walks' /\ LiveSynths' = LiveSynths
<1>1. DOMAIN graph = Synth /\ DOMAIN graph' = Synth /\ s \in Synth /\ \A t \in Synth : t # s => graph'[t] = graph[t]
  BY DEF Walks, Others, LiveSynths
<1>2. graph'[s] # Absent /\ graph[s] # Absent
  BY FormedIsLive DEF LiveSynths
<1>3. LiveSynths' = LiveSynths
  BY <1>1, <1>2 DEF LiveSynths, Absent
<1>4. \A t \in LiveSynths' : Formed(def', t, graph'[t])
  <2> SUFFICES ASSUME NEW t \in LiveSynths PROVE Formed(def', t, graph'[t])
    BY <1>3
  <2>1. Formed(def, t, graph'[t])
    BY <1>1 DEF Walks, LiveSynths
  <2> QED
    BY <2>1
<1>5. Planned' /\ running' \in Seq(LiveSynths') /\ Once(running')
  BY <1>3 DEF Walks, Planned
<1>6. pc' = Idle' \/ AtUnit'
  <2>1. Idle' = Idle
    BY DEF Idle
  <2> QED
    BY <1>3, <2>1 DEF AtUnit
<1> QED
  BY <1>1, <1>3, <1>4, <1>5, <1>6 DEF Walks

(* Where a tick starts. *)
LEMMA FirstStepIs ==
    ASSUME Planned, NEW s
    PROVE  /\ FirstStep(s) \in {"construct", "calc", "ticked"} /\ Calculate \in {"calc", "ticked"}
           /\ FirstStep(s) = "construct" => 1 \in 1..Len(def.units)
           /\ FirstStep(s) = "calc" => Calculate = "calc"
           /\ FirstStep(s) = "ticked" => Calculate = "ticked"
           /\ Calculate = "calc" => 1 \in 1..Cardinality(CalcUnits(def))
           /\ Calculate = "ticked" => CalcUnits(def) = {}
<1>1. def.units \in Seq(UnitSpec) /\ Len(def.units) \in Nat
  BY DEF Planned, Definitions
<1>2. Cardinality(CalcUnits(def)) \in Nat /\ (Calc = <<>> <=> Cardinality(CalcUnits(def)) = 0)
      /\ \A u \in CalcUnits(def) : Index(CalcUnits(def), u) + 1 \in 1..Len(Calc)
      /\ Len(Calc) = Cardinality(CalcUnits(def))
  BY CalcIs
<1>3. def.units # <<>> => 1 \in 1..Len(def.units)
  BY <1>1
<1>4. Calculate = "calc" => 1 \in 1..Cardinality(CalcUnits(def))
  BY <1>2 DEF Calculate
<1>5. Calculate = "ticked" => CalcUnits(def) = {}
  BY <1>2 DEF Calculate
<1> QED
  BY <1>3, <1>4, <1>5 DEF FirstStep, Calculate

(* A synth that starts runs, last.                                         *)
LEMMA NewSynthWalks ==
    ASSUME Walks, NEW s \in Synth, NewSynth(s)
    PROVE  Walks' /\ LiveSynths' = LiveSynths \cup {s}
<1>1. /\ DOMAIN graph = Synth /\ graph' = [graph EXCEPT ![s] = NewGraph] /\ s \notin LiveSynths
      /\ running' = Append(running, s) /\ UNCHANGED <<def, plan, pc>> /\ pc = Idle /\ Planned
  BY DEF NewSynth, Walks, LiveSynths
<1>2. Formed(def, s, NewGraph)
  <2>1. /\ DOMAIN NewGraph = Fields /\ NewGraph.ticks = 0 /\ NewGraph.samples = <<>>
        /\ NewGraph.lbuf = [u \in LocalBufUnits(def) |-> [live |-> FALSE, off |-> 0, len |-> 0]]
        /\ DOMAIN NewGraph.ctrl = 0 .. NumControlWires(def) - 1
    BY DEF NewGraph, Fields
  <2>2. \A u \in LocalBufUnits(def) : ~NewGraph.lbuf[u].live
    BY <2>1
  <2> QED
    BY <2>1, <2>2 DEF Formed
<1>3. NewGraph # Absent
  BY <1>2, FormedIsLive
<1>4. LiveSynths' = LiveSynths \cup {s}
  BY <1>1, <1>3 DEF LiveSynths, Absent
<1>5. \A t \in LiveSynths' : Formed(def', t, graph'[t])
  <2> SUFFICES ASSUME NEW t \in LiveSynths \cup {s} PROVE Formed(def', t, graph'[t])
    BY <1>4
  <2>1. Formed(def, t, graph'[t])
    BY <1>1, <1>2 DEF Walks, LiveSynths
  <2> QED
    BY <1>1, <2>1 
<1>6. running' \in Seq(LiveSynths') /\ Once(running')
  <2>1. running \in Seq(LiveSynths) /\ Once(running)
    BY DEF Walks
  <2>2. \A i \in 1..Len(running) : running[i] # s
    BY <1>1, <2>1
  <2>3. running' \in Seq(LiveSynths \cup {s})
    BY <1>1, <2>1
  <2>4. Once(running')
    BY <1>1, <2>1, <2>2 DEF Once
  <2> QED
    BY <1>4, <2>3, <2>4
<1>7. pc' = Idle' /\ Planned' /\ DOMAIN graph' = Synth
  BY <1>1 DEF Idle, Planned
<1> QED
  BY <1>4, <1>5, <1>6, <1>7 DEF Walks

(* One that is freed runs no more.                                         *)
LEMMA FreeSynthWalks ==
    ASSUME Walks, NEW s \in Synth, FreeSynth(s)
    PROVE  Walks' /\ LiveSynths' = LiveSynths \ {s}
<1>1. /\ DOMAIN graph = Synth /\ graph' = [graph EXCEPT ![s] = Absent]
      /\ running' = Without(s) /\ UNCHANGED <<def, plan, pc>> /\ pc = Idle /\ Planned
  BY DEF FreeSynth, Walks, LiveSynths
<1>2. LiveSynths' = LiveSynths \ {s}
  BY <1>1 DEF LiveSynths, Absent
<1>3. \A t \in LiveSynths' : Formed(def', t, graph'[t])
  <2> SUFFICES ASSUME NEW t \in LiveSynths \ {s} PROVE Formed(def', t, graph'[t])
    BY <1>2
  <2>1. Formed(def, t, graph'[t])
    BY <1>1 DEF Walks, LiveSynths
  <2> QED
    BY <1>1, <2>1 
<1>4. running' \in Seq(LiveSynths') /\ Once(running')
  BY <1>1, <1>2, WithoutIs DEF Walks
<1>5. pc' = Idle' /\ Planned' /\ DOMAIN graph' = Synth
  BY <1>1 DEF Idle, Planned
<1> QED
  BY <1>2, <1>3, <1>4, <1>5 DEF Walks

(* Pausing and resuming leave the synths as they are.                      *)
LEMMA SetRunningWalks ==
    ASSUME Walks, NEW s \in Synth, SetRunning(s)
    PROVE  Walks' /\ LiveSynths' = LiveSynths
<1>1. /\ running' = IF s \in Range(running) THEN Without(s) ELSE Append(running, s)
      /\ UNCHANGED <<def, plan, graph, pc>> /\ pc = Idle /\ s \in LiveSynths
  BY DEF SetRunning
<1>2. LiveSynths' = LiveSynths
  BY <1>1 DEF LiveSynths, Absent
<1>3. \A t \in LiveSynths' : Formed(def', t, graph'[t])
  <2> SUFFICES ASSUME NEW t \in LiveSynths PROVE Formed(def', t, graph'[t])
    BY <1>2
  <2>1. Formed(def, t, graph'[t])
    BY <1>1 DEF Walks
  <2> QED
    BY <1>1, <2>1 
<1>4. running' \in Seq(LiveSynths) /\ Once(running')
  <2>1. CASE s \in Range(running)
    <3>1. Without(s) \in Seq(LiveSynths \ {s}) /\ Once(Without(s))
      BY WithoutIs DEF Walks
    <3>2. Seq(LiveSynths \ {s}) \subseteq Seq(LiveSynths)
      OBVIOUS
    <3> QED
      BY <1>1, <2>1, <3>1, <3>2
  <2>2. CASE s \notin Range(running)
    <3>1. running \in Seq(LiveSynths) /\ Once(running) /\ running' = Append(running, s)
      BY <1>1, <2>2 DEF Walks
    <3>2. \A i \in 1..Len(running) : running[i] # s
      BY <2>2, <3>1 DEF Range
    <3>3. running' \in Seq(LiveSynths)
      BY <1>1, <3>1
    <3> QED
      BY <3>1, <3>2, <3>3 DEF Once
  <2> QED
    BY <2>1, <2>2
<1>5. pc' = Idle' /\ Planned' /\ DOMAIN graph' = Synth
  BY <1>1 DEF Idle, Planned, Walks
<1> QED
  BY <1>2, <1>3, <1>4, <1>5 DEF Walks

(* A value that is set is one wire of one synth.                           *)
LEMMA SetControlIs ==
    ASSUME Walks, NEW s \in Synth, NEW p \in DOMAIN def.params, SetControl(s, p)
    PROVE  /\ s \in LiveSynths /\ Others(s) /\ Formed(def, s, graph'[s])
           /\ graph'[s].ticks = graph[s].ticks
           /\ graph'[s].ctrl = [graph[s].ctrl EXCEPT ![ParamWire(p)] = <<"set", sets + 1>>]
           /\ Walks' /\ LiveSynths' = LiveSynths
           /\ pc = Idle /\ pc' = Idle /\ sets < MaxSets /\ sets' = sets + 1 /\ UNCHANGED <<def, trigSeen>>
<1> DEFINE c == [graph[s].ctrl EXCEPT ![ParamWire(p)] = <<"set", sets + 1>>]
           k == [graph[s] EXCEPT !.ctrl = c]
<1>1. /\ pc = Idle /\ s \in LiveSynths /\ sets < MaxSets /\ sets' = sets + 1
      /\ graph' = [graph EXCEPT ![s].ctrl[ParamWire(p)] = <<"set", sets + 1>>]
      /\ UNCHANGED <<def, plan, running, pc, trigSeen>>
  BY DEF SetControl
<1>2. DOMAIN graph = Synth /\ Formed(def, s, graph[s]) /\ DOMAIN graph[s] = Fields
  BY <1>1 DEF Walks, Formed
<1>3. graph' = [graph EXCEPT ![s] = k]
  BY <1>1, <1>2
<1>4. DOMAIN c = DOMAIN graph[s].ctrl
  OBVIOUS
<1> HIDE DEF c
<1>5. DOMAIN k = Fields /\ k.ctrl = c /\ k.ticks = graph[s].ticks /\ k.lbuf = graph[s].lbuf
      /\ k.samples = graph[s].samples
  BY <1>2 DEF Fields
<1> HIDE DEF k
<1>6. graph'[s] = k /\ Others(s)
  BY <1>2, <1>3 DEF Others
<1>7. Formed(def, s, k)
  BY <1>2, <1>4, <1>5 DEF Formed
<1>8. Walks' /\ LiveSynths' = LiveSynths
  BY <1>1, <1>6, <1>7, Rewritten
<1> QED
  BY <1>1, <1>5, <1>6, <1>7, <1>8 DEF c

(* A tick begins at a synth that runs.                                     *)
LEMMA BeginTickWalks ==
    ASSUME Walks, NEW s \in LiveSynths, s \in Range(running), NEW tick \in Nat, BeginTick(s, tick)
    PROVE  Walks' /\ LiveSynths' = LiveSynths
<1>1. /\ Others(s) /\ Buffers(graph[s], graph'[s])
      /\ graph'[s].ctrl = Lagged(s) /\ graph'[s].ticks = graph[s].ticks + 1
      /\ pc' = [synth |-> s, tick |-> tick, phase |-> FirstStep(s), step |-> 1]
      /\ UNCHANGED <<def, plan, running>>
  BY BeginTickIs
<1>2. Formed(def, s, graph[s])
  BY DEF Walks
<1>3. Formed(def, s, graph'[s])
  <2>1. DOMAIN Lagged(s) = DOMAIN graph[s].ctrl
    BY DEF Lagged
  <2>2. graph[s].ticks + 1 \in Nat
    BY <1>2, SMTT(30) DEF Formed
  <2> QED
    BY <1>1, <1>2, <2>1, <2>2, ZenonT(30) DEF Formed, Buffers
<1>4. Planned
  BY DEF Walks
<1>5. /\ FirstStep(s) \in {"construct", "calc", "ticked", "next"}
      /\ FirstStep(s) = "construct" => 1 \in 1..Len(def.units)
      /\ FirstStep(s) = "calc" => 1 \in 1..Cardinality(CalcUnits(def))
  BY <1>4, FirstStepIs
<1>6. /\ pc' \in [synth : LiveSynths, tick : Nat, phase : {"construct", "calc", "ticked", "next"}, step : Nat]
      /\ pc'.synth \in Range(running)
      /\ (pc'.phase = "construct" => pc'.step \in 1..Len(def.units))
      /\ (pc'.phase = "calc" => pc'.step \in 1..Cardinality(CalcUnits(def)))
  BY <1>1, <1>5
<1> QED
  BY <1>1, <1>3, <1>6, Rewritten

(* The walk goes on to the next unit, or ends the tick.                    *)
LEMMA RunUnitWalks ==
    ASSUME Walks, AtUnit, RunUnit
    PROVE  Walks' /\ LiveSynths' = LiveSynths
<1> DEFINE s == pc.synth
           c == Cardinality(CalcUnits(def))
<1>1. /\ Others(s) /\ Formed(def, s, graph'[s]) /\ pc' = NextStep /\ pc.phase \in {"construct", "calc"}
      /\ UNCHANGED <<def, plan, running>>
  BY RunUnitIs
<1>2. Planned /\ s \in LiveSynths /\ s \in Range(running)
  BY DEF Walks, AtUnit
<1>3. Len(Calc) = c /\ c \in Nat /\ Len(def.units) \in Nat
  BY <1>2, CalcIs, DefParts DEF Planned
<1>4. /\ Calculate \in {"calc", "ticked"}
      /\ Calculate = "calc" => 1 \in 1..c
  BY <1>2, FirstStepIs
<1> DEFINE Good(q) ==
      /\ q \in [synth : LiveSynths, tick : Nat, phase : {"construct", "calc", "ticked", "next"}, step : Nat]
      /\ q.synth \in Range(running)
      /\ q.phase = "construct" => q.step \in 1..Len(def.units)
      /\ q.phase = "calc" => q.step \in 1..c
<1>5. Good(pc)
  BY DEF AtUnit
<1>6. Good(NextStep)
  <2> HIDE DEF c
  <2>1. CASE pc.step < Steps
    <3>1. NextStep = [pc EXCEPT !.step = pc.step + 1]
      BY <2>1 DEF NextStep
    <3>2. pc.step + 1 \in Nat /\ (pc.phase = "construct" => pc.step + 1 \in 1..Len(def.units))
          /\ (pc.phase = "calc" => pc.step + 1 \in 1..c)
      BY <1>1, <1>3, <1>5, <2>1 DEF Steps
    <3> QED
      BY <1>5, <3>1, <3>2
  <2>2. CASE ~(pc.step < Steps) /\ pc.phase = "construct"
    <3>1. NextStep = [pc EXCEPT !.phase = Calculate, !.step = 1]
      BY <2>2 DEF NextStep
    <3> QED
      BY <1>4, <1>5, <3>1
  <2>3. CASE ~(pc.step < Steps) /\ pc.phase # "construct"
    <3>1. NextStep = [pc EXCEPT !.phase = "ticked"]
      BY <2>3 DEF NextStep
    <3> QED
      BY <1>5, <3>1
  <2> QED
    BY <2>1, <2>2, <2>3
<1>7. /\ pc' \in [synth : LiveSynths, tick : Nat, phase : {"construct", "calc", "ticked", "next"}, step : Nat]
      /\ pc'.synth \in Range(running)
      /\ (pc'.phase = "construct" => pc'.step \in 1..Len(def.units))
      /\ (pc'.phase = "calc" => pc'.step \in 1..Cardinality(CalcUnits(def)))
  BY <1>1, <1>6
<1> QED
  BY <1>1, <1>2, <1>7, Rewritten

(* A tick that ends leads to a synth that runs, or to none.                *)
LEMMA EndTickWalks ==
    ASSUME Walks, AtUnit, EndTick
    PROVE  Walks' /\ LiveSynths' = LiveSynths
<1> DEFINE s == pc.synth
           i == CHOOSE j \in DOMAIN running : running[j] = s
<1>1. /\ Others(s) /\ Buffers(graph[s], graph'[s])
      /\ graph'[s].ticks = graph[s].ticks
      /\ DOMAIN graph'[s].ctrl = DOMAIN graph[s].ctrl
      /\ UNCHANGED <<def, plan, running>>
  BY EndTickIs
<1>2. s \in LiveSynths /\ s \in Range(running) /\ running \in Seq(LiveSynths) /\ Formed(def, s, graph[s])
      /\ pc \in [synth : LiveSynths, tick : Nat, phase : {"construct", "calc", "ticked", "next"}, step : Nat]
  BY DEF Walks, AtUnit
<1>3. Formed(def, s, graph'[s])
  BY <1>1, <1>2, ZenonT(30) DEF Formed, Buffers
<1>4. i \in DOMAIN running
  BY <1>2 DEF Range
<1>5. pc' = IF pc.tick < plan.ticks THEN [pc EXCEPT !.phase = "next", !.tick = @ + 1]
            ELSE IF i < Len(running) THEN [synth |-> running[i + 1], tick |-> 1, phase |-> "next", step |-> 0]
            ELSE Idle
  BY DEF EndTick
<1> HIDE DEF i
<1>6. i < Len(running) => running[i + 1] \in LiveSynths /\ running[i + 1] \in Range(running)
  BY <1>2, <1>4 DEF Range
<1>7. pc' = Idle \/ (/\ pc' \in [synth : LiveSynths, tick : Nat,
                                   phase : {"construct", "calc", "ticked", "next"}, step : Nat]
                     /\ pc'.synth \in Range(running) /\ pc'.phase = "next")
  <2>1. CASE pc.tick < plan.ticks
    <3>1. pc' = [pc EXCEPT !.phase = "next", !.tick = pc.tick + 1] /\ pc.tick + 1 \in Nat
      BY <1>2, <1>5, <2>1
    <3> QED
      BY <1>2, <3>1
  <2>2. CASE ~(pc.tick < plan.ticks) /\ i < Len(running)
    BY <1>5, <1>6, <2>2
  <2>3. CASE ~(pc.tick < plan.ticks) /\ ~(i < Len(running))
    BY <1>5, <2>3
  <2> QED
    BY <2>1, <2>2, <2>3
<1> QED
  BY <1>1, <1>2, <1>3, <1>7, Rewritten

(* Every step keeps the walk.                                              *)
LEMMA StepWalks == Walks /\ [GraphNext]_graphVars => Walks'
<1> SUFFICES ASSUME Walks, [GraphNext]_graphVars PROVE Walks'
  OBVIOUS
<1>1. CASE UNCHANGED graphVars
  <2>1. UNCHANGED <<def, plan, running, graph, pc>>
    BY <1>1 DEF graphVars
  <2>2. LiveSynths' = LiveSynths /\ Idle' = Idle
    BY <2>1 DEF LiveSynths, Absent, Idle
  <2>3. \A t \in LiveSynths' : Formed(def', t, graph'[t])
    <3> SUFFICES ASSUME NEW t \in LiveSynths PROVE Formed(def', t, graph'[t])
      BY <2>2
    <3>1. Formed(def, t, graph'[t])
      BY <2>1 DEF Walks
    <3> QED
      BY <2>1, <3>1 
  <2>4. pc' = Idle' \/ AtUnit'
    BY <2>1, <2>2 DEF Walks, AtUnit
  <2> QED
    BY <2>1, <2>2, <2>3, <2>4 DEF Walks, Planned
<1>2. CASE \E s \in Synth : NewSynth(s) \/ FreeSynth(s) \/ SetRunning(s)
  BY <1>2, NewSynthWalks, FreeSynthWalks, SetRunningWalks
<1>3. CASE \E s \in Synth, p \in DOMAIN def.params : SetControl(s, p)
  BY <1>3, SetControlIs
<1>4. CASE BeginBlock
  <2>1. running # <<>> /\ BeginTick(Head(running), 1)
    BY <1>4 DEF BeginBlock
  <2>2. Head(running) \in LiveSynths /\ Head(running) \in Range(running)
    BY <2>1 DEF Walks, Range
  <2>3. 1 \in Nat
    OBVIOUS
  <2> QED
    BY <2>1, <2>2, <2>3, BeginTickWalks
<1>5. CASE RunUnit
  <2>1. pc # Idle
    BY <1>5 DEF RunUnit, Idle
  <2> QED
    BY <1>5, <2>1, RunUnitWalks DEF Walks
<1>6. CASE EndTick
  <2>1. pc # Idle
    BY <1>6 DEF EndTick, Idle
  <2> QED
    BY <1>6, <2>1, EndTickWalks DEF Walks
<1>7. CASE NextTick
  <2>1. pc # Idle /\ BeginTick(pc.synth, pc.tick)
    BY <1>7 DEF NextTick, Idle
  <2>2. pc.synth \in LiveSynths /\ pc.synth \in Range(running) /\ pc.tick \in Nat
    BY <2>1 DEF Walks, AtUnit
  <2> QED
    BY <2>1, <2>2, BeginTickWalks
<1> QED
  BY <1>1, <1>2, <1>3, <1>4, <1>5, <1>6, <1>7 DEF GraphNext

(* A synth's local buffers are formed as it is: the storage of one is not  *)
(* another's (grow_local_bufs, graph.rs).                                  *)
THEOREM LocalBuffersStay == GraphSpec => []LocalBufsKept
<1>1. Walks => LocalBufsKept
  <2> SUFFICES ASSUME Walks, NEW s \in LiveSynths, NEW u \in LocalBufUnits(def), graph[s].lbuf[u].live,
                      NEW k \in 1 .. graph[s].lbuf[u].len
               PROVE  graph[s].samples[graph[s].lbuf[u].off + k] = <<"fill", s, u>>
    BY DEF LocalBufsKept
  <2>1. Formed(def, s, graph[s])
    BY DEF Walks
  <2> QED
    BY <2>1 DEF Formed
<1> QED
  BY <1>1, InitWalks, StepWalks, PTL DEF GraphSpec

-----------------------------------------------------------------------------
(* Triggers.                                                               *)

(* A synth whose trigger parameter stands at a value that was set, and the *)
(* units that read the parameter when they are calculated.                 *)
Holds(G, s, p, v) == G[s] # Absent /\ G[s].ctrl[ParamWire(p)] = <<"set", v>>
Trigs(d) == ParamsOf(d, "trig")
Reads(d, u, p) ==
    /\ u \in CalcUnits(d) /\ d.units[u].rate # "scalar" /\ d.units[u].name \notin {"LocalIn", "watch"}
    /\ <<"param", p>> \in Range(d.units[u].ins)

(* A value is in one synth at most; once seen, it is in the synth that is  *)
(* walked, in the tick it was seen in; and who was calculated has seen it. *)
Values == 1..MaxSets
InTick == {"construct", "calc", "ticked"}
Unseen == \A v \in Values : v > sets => trigSeen[v] = {} /\ \A s \in Synth, p \in Trigs(def) : ~Holds(graph, s, p, v)
SeenOnce == \A v \in Values : \E t : trigSeen[v] \subseteq {t}
HeldOnce == \A v \in Values : \A s, r \in Synth, p, q \in Trigs(def) :
                Holds(graph, s, p, v) /\ Holds(graph, r, q, v) => s = r
SeenWhereHeld == \A v \in Values : \A s \in Synth, p \in Trigs(def) :
                Holds(graph, s, p, v) /\ trigSeen[v] # {} =>
                    pc.synth = s /\ pc.phase \in InTick /\ trigSeen[v] \subseteq {graph[s].ticks}
Passed(d, q, u) == q.phase = "ticked" \/ (q.phase = "calc" /\ Index(CalcUnits(d), u) + 1 < q.step)
SeenByReaders == \A v \in Values : \A p \in Trigs(def) : \A u \in CalcUnits(def) :
                Reads(def, u, p) /\ Passed(def, pc, u) /\ Holds(graph, pc.synth, p, v)
                    => graph[pc.synth].ticks \in trigSeen[v]
Triggers ==
    /\ Walks /\ sets \in 0..MaxSets /\ DOMAIN trigSeen = Values
    /\ Unseen /\ SeenOnce /\ HeldOnce /\ SeenWhereHeld /\ SeenByReaders

(* No value is anywhere at first.                                          *)
LEMMA InitTriggers == GraphInit => Triggers
<1> SUFFICES ASSUME GraphInit PROVE Triggers
  OBVIOUS
<1>1. Walks
  BY InitWalks
<1>2. /\ graph = [s \in Synth |-> Absent] /\ pc = Idle /\ sets = 0 /\ trigSeen = [v \in 1 .. MaxSets |-> {}]
      /\ MaxSets \in Nat
  BY DefsAssumption DEF GraphInit
<1>3. \A s \in Synth : \A p, v : ~Holds(graph, s, p, v)
  BY <1>2 DEF Holds
<1>4. \A u : ~Passed(def, pc, u)
  BY <1>2 DEF Passed, Idle
<1> QED
  BY <1>1, <1>2, <1>3, <1>4 DEF Triggers, Values, Unseen, SeenOnce, HeldOnce, SeenWhereHeld, SeenByReaders

(* Values of trigger parameters are no others.                             *)
LEMMA SetIs == \A v, p, e : <<"set", v>> # Zero /\ <<"set", v>> # <<"default", p>>
  BY DEF Zero

(* A step after which no value is anywhere it was not, while no tick is    *)
(* under way or the synth that is walked drops its values.                 *)
LEMMA FewerHeld ==
    ASSUME Triggers, Walks', UNCHANGED <<def, sets, trigSeen>>,
           \A s \in Synth, p \in Trigs(def), v \in Values : Holds(graph', s, p, v) => Holds(graph, s, p, v),
           \A s \in Synth, p \in Trigs(def), v \in Values :
               Holds(graph', s, p, v) => pc.phase \notin InTick \/ s # pc.synth,
           \A u \in CalcUnits(def) : ~Passed(def, pc', u)
    PROVE  Triggers'
<1>1. Unseen' /\ SeenOnce' /\ HeldOnce'
  BY DEF Triggers, Unseen, SeenOnce, HeldOnce
<1>2. SeenWhereHeld'
  BY DEF Triggers, SeenWhereHeld
<1>3. SeenByReaders'
  BY DEF Triggers, SeenByReaders
<1> QED
  BY <1>1, <1>2, <1>3 DEF Triggers

(* Where nothing has been calculated yet. *)
LEMMA NothingPassed ==
    ASSUME Planned, NEW q, q.phase \in {"idle", "next", "construct"}
                           \/ (q.phase = "calc" /\ q.step = 1)
                           \/ CalcUnits(def) = {}
    PROVE  \A u \in CalcUnits(def) : ~Passed(def, q, u)
<1> SUFFICES ASSUME NEW u \in CalcUnits(def) PROVE ~Passed(def, q, u)
  OBVIOUS
<1>1. Index(CalcUnits(def), u) \in Nat
  BY Ordered DEF Planned, CalcUnits
<1> QED
  BY <1>1 DEF Passed

(* A synth that starts holds no value that was set.                        *)
LEMMA NewSynthTriggers ==
    ASSUME Triggers, NEW s \in Synth, NewSynth(s)
    PROVE  Triggers'
<1>1. /\ Walks' /\ Walks /\ Planned /\ DOMAIN graph = Synth
  BY NewSynthWalks DEF Triggers, Walks
<1>2. UNCHANGED <<def, sets, trigSeen, pc>> /\ pc = Idle /\ graph' = [graph EXCEPT ![s] = NewGraph]
  BY DEF NewSynth
<1>3. ASSUME NEW p \in Trigs(def), NEW v PROVE ~Holds(graph', s, p, v)
  <2>1. ParamWire(p) \in 0..(NumControlWires(def) - 1)
    BY <1>1, TrigWire DEF Trigs
  <2>2. NewGraph.ctrl = [w \in 0 .. NumControlWires(def) - 1 |-> IF w < Len(def.params) THEN <<"default", w + 1>> ELSE Zero]
    BY DEF NewGraph
  <2>3. NewGraph.ctrl[ParamWire(p)] = <<"default", ParamWire(p) + 1>> \/ NewGraph.ctrl[ParamWire(p)] = Zero
    BY <2>1, <2>2
  <2>4. graph'[s] = NewGraph
    BY <1>1, <1>2
  <2> QED
    BY <2>3, <2>4, SetIs DEF Holds
<1>4. \A t \in Synth, p \in Trigs(def), v \in Values : Holds(graph', t, p, v) => Holds(graph, t, p, v)
  BY <1>1, <1>2, <1>3 DEF Holds
<1>5. pc.phase = "idle" /\ pc'.phase = "idle" /\ pc.phase \notin InTick
  BY <1>2 DEF Idle, InTick
<1>6. \A u \in CalcUnits(def) : ~Passed(def, pc', u)
  BY <1>5 DEF Passed
<1> QED
  BY <1>1, <1>2, <1>4, <1>5, <1>6, FewerHeld

(* Freed or paused between ticks, a synth takes its values away.           *)
LEMMA FreeSynthTriggers ==
    ASSUME Triggers, NEW s \in Synth, FreeSynth(s) \/ SetRunning(s)
    PROVE  Triggers'
<1>1. /\ Walks' /\ Walks /\ Planned /\ DOMAIN graph = Synth
  BY FreeSynthWalks, SetRunningWalks DEF Triggers, Walks
<1>2. /\ UNCHANGED <<def, sets, trigSeen, pc>> /\ pc = Idle
      /\ graph' = [graph EXCEPT ![s] = Absent] \/ graph' = graph
  BY DEF FreeSynth, SetRunning
<1>4. \A t \in Synth, p \in Trigs(def), v \in Values : Holds(graph', t, p, v) => Holds(graph, t, p, v)
  BY <1>1, <1>2 DEF Holds
<1>5. pc.phase = "idle" /\ pc'.phase = "idle" /\ pc.phase \notin InTick
  BY <1>2 DEF Idle, InTick
<1>6. \A u \in CalcUnits(def) : ~Passed(def, pc', u)
  BY <1>5 DEF Passed
<1> QED
  BY <1>1, <1>2, <1>4, <1>5, <1>6, FewerHeld

(* A value that is set is new: one synth holds it and nobody saw it.       *)
LEMMA SetControlTriggers ==
    ASSUME Triggers, NEW s \in Synth, NEW p \in DOMAIN def.params, SetControl(s, p)
    PROVE  Triggers'
<1> DEFINE n == sets + 1
<1>1. /\ Walks' /\ Walks /\ Planned /\ DOMAIN graph = Synth /\ DOMAIN graph' = Synth
      /\ pc = Idle /\ pc' = Idle /\ sets < MaxSets /\ sets' = n /\ UNCHANGED <<def, trigSeen>>
      /\ s \in LiveSynths /\ \A t \in Synth : t # s => graph'[t] = graph[t]
      /\ graph'[s].ticks = graph[s].ticks
      /\ graph'[s].ctrl = [graph[s].ctrl EXCEPT ![ParamWire(p)] = <<"set", n>>]
      /\ Formed(def, s, graph'[s])
  BY SetControlIs DEF Triggers, Walks, Others
<1>2. /\ sets \in Nat /\ MaxSets \in Nat /\ n \in Values /\ sets' \in 0..MaxSets
      /\ \A v \in Values : v > n => v > sets
      /\ n > sets
  BY <1>1, DefsAssumption DEF Triggers, Values
<1>3. \A t \in Synth, q \in Trigs(def), v \in Values :
          Holds(graph', t, q, v) => Holds(graph, t, q, v) \/ (v = n /\ t = s)
  <2> SUFFICES ASSUME NEW t \in Synth, NEW q \in Trigs(def), NEW v \in Values, Holds(graph', t, q, v)
               PROVE  Holds(graph, t, q, v) \/ (v = n /\ t = s)
    OBVIOUS
  <2>1. CASE t # s
    BY <1>1, <2>1 DEF Holds
  <2>2. CASE t = s
    <3>1. graph[s] # Absent
      BY <1>1 DEF LiveSynths
    <3>2. CASE ParamWire(q) = ParamWire(p)
      <4>1. ParamWire(q) \in DOMAIN graph[s].ctrl
        <5>1. DOMAIN graph[s].ctrl = 0..(NumControlWires(def) - 1)
          BY <1>1 DEF Walks, Formed
        <5> QED
          BY <1>1, <5>1, TrigWire DEF Trigs
      <4>2. <<"set", v>> = <<"set", n>>
        BY <1>1, <2>2, <3>2, <4>1 DEF Holds
      <4> QED
        BY <2>2, <4>2
    <3>3. CASE ParamWire(q) # ParamWire(p)
      <4>1. graph'[s].ctrl[ParamWire(q)] = graph[s].ctrl[ParamWire(q)]
        <5>1. ParamWire(q) \in DOMAIN graph[s].ctrl
          <6>1. DOMAIN graph[s].ctrl = 0..(NumControlWires(def) - 1)
            BY <1>1 DEF Walks, Formed
          <6> QED
            BY <1>1, <6>1, TrigWire DEF Trigs
        <5> QED
          BY <1>1, <3>3, <5>1
      <4> QED
        BY <2>2, <3>1, <4>1 DEF Holds
    <3> QED
      BY <3>2, <3>3
  <2> QED
    BY <2>1, <2>2
<1>4. trigSeen[n] = {} /\ \A t \in Synth, q \in Trigs(def) : ~Holds(graph, t, q, n)
  BY <1>2 DEF Triggers, Unseen
<1> HIDE DEF n
<1>5. Unseen'
  BY <1>1, <1>2, <1>3 DEF Triggers, Unseen
<1>6. SeenOnce'
  BY <1>1 DEF Triggers, SeenOnce
<1>7. HeldOnce'
  BY <1>1, <1>3, <1>4 DEF Triggers, HeldOnce
<1>8. SeenWhereHeld'
  <2> SUFFICES ASSUME NEW v \in Values, NEW t \in Synth, NEW q \in Trigs(def), Holds(graph', t, q, v), trigSeen[v] # {}
               PROVE  FALSE
    BY <1>1 DEF SeenWhereHeld
  <2>1. Holds(graph, t, q, v)
    BY <1>3, <1>4
  <2> QED
    BY <1>1, <2>1 DEF Triggers, SeenWhereHeld, Idle, InTick
<1>9. SeenByReaders'
  <2>1. \A u : ~Passed(def, pc', u)
    BY <1>1 DEF Passed, Idle
  <2> QED
    BY <1>1, <2>1 DEF SeenByReaders
<1> QED
  BY <1>1, <1>2, <1>5, <1>6, <1>7, <1>8, <1>9 DEF Triggers

(* Lagged parameters have other wires: a tick begins with the values.      *)
LEMMA BeginTickTriggers ==
    ASSUME Triggers, NEW s \in LiveSynths, s \in Range(running), NEW tick \in Nat, BeginTick(s, tick),
           pc.phase \in {"idle", "next"}
    PROVE  Triggers'
<1>1. /\ Walks' /\ Walks /\ Planned /\ DOMAIN graph = Synth /\ s \in Synth
  BY BeginTickWalks DEF Triggers, Walks, LiveSynths
<1>2. /\ UNCHANGED <<def, sets, trigSeen>> /\ pc' = [synth |-> s, tick |-> tick, phase |-> FirstStep(s), step |-> 1]
      /\ graph'[s].ctrl = Lagged(s) /\ \A t \in Synth : t # s => graph'[t] = graph[t]
  BY <1>1, BeginTickIs DEF Others
<1>3. \A t \in Synth, p \in Trigs(def), v \in Values : Holds(graph', t, p, v) => Holds(graph, t, p, v)
  <2> SUFFICES ASSUME NEW p \in Trigs(def), NEW v, Holds(graph', s, p, v) PROVE Holds(graph, s, p, v)
    BY <1>2 DEF Holds
  <2>1. /\ ParamWire(p) \in 0..(NumControlWires(def) - 1)
        /\ \A q \in ParamsOf(def, "lag") : LagWire(def, q) # ParamWire(p)
    BY <1>1, TrigWire DEF Trigs
  <2>2. DOMAIN graph[s].ctrl = 0..(NumControlWires(def) - 1) /\ graph[s] # Absent
    BY <1>1 DEF Walks, Formed, LiveSynths
  <2>3. {q \in ParamsOf(def, "lag") : ParamWire(p) = LagWire(def, q)} = {}
    BY <2>1
  <2>4. Lagged(s)[ParamWire(p)] = graph[s].ctrl[ParamWire(p)]
    BY <2>1, <2>2, <2>3 DEF Lagged
  <2> QED
    BY <1>2, <2>2, <2>4 DEF Holds
<1>4. pc.phase \notin InTick
  BY DEF InTick
<1>5. \A u \in CalcUnits(def) : ~Passed(def, pc', u)
  <2>1. /\ FirstStep(s) \in {"construct", "calc", "ticked"}
        /\ FirstStep(s) = "ticked" => Calculate = "ticked"
        /\ Calculate = "ticked" => CalcUnits(def) = {}
    BY <1>1, FirstStepIs
  <2> QED
    BY <1>1, <1>2, <2>1, NothingPassed
<1> QED
  BY <1>1, <1>2, <1>3, <1>4, <1>5, FewerHeld

(* A tick ends without them.                                               *)
LEMMA EndTickTriggers ==
    ASSUME Triggers, AtUnit, EndTick
    PROVE  Triggers'
<1> DEFINE s == pc.synth
<1>1. /\ Walks' /\ Walks /\ Planned /\ DOMAIN graph = Synth /\ s \in Synth /\ s \in LiveSynths
  BY EndTickWalks DEF Triggers, Walks, LiveSynths, AtUnit
<1>2. /\ UNCHANGED <<def, sets, trigSeen>> /\ \A t \in Synth : t # s => graph'[t] = graph[t]
      /\ graph'[s].ctrl = [w \in DOMAIN graph[s].ctrl |->
                         IF \E p \in ParamsOf(def, "trig") : w = ParamWire(p) THEN Zero ELSE graph[s].ctrl[w]]
  BY <1>1, EndTickIs DEF Others
<1>3. \A p \in Trigs(def) : \A v : ~Holds(graph', s, p, v)
  <2> SUFFICES ASSUME NEW p \in Trigs(def), NEW v PROVE graph'[s].ctrl[ParamWire(p)] # <<"set", v>>
    BY DEF Holds
  <2>1. ParamWire(p) \in DOMAIN graph[s].ctrl
    <3>1. DOMAIN graph[s].ctrl = 0..(NumControlWires(def) - 1)
      BY <1>1 DEF Walks, Formed
    <3> QED
      BY <1>1, <3>1, TrigWire DEF Trigs
  <2>2. graph'[s].ctrl[ParamWire(p)] = Zero
    BY <1>2, <2>1 DEF Trigs
  <2> QED
    BY <2>2, SetIs
<1>4. pc'.phase \in {"idle", "next"}
  <2> DEFINE i == CHOOSE j \in DOMAIN running : running[j] = s
  <2>1. pc' = IF pc.tick < plan.ticks THEN [pc EXCEPT !.phase = "next", !.tick = @ + 1]
            ELSE IF i < Len(running) THEN [synth |-> running[i + 1], tick |-> 1, phase |-> "next", step |-> 0]
            ELSE Idle
    BY DEF EndTick
  <2>2. DOMAIN pc = {"synth", "tick", "phase", "step"}
    BY DEF AtUnit
  <2> HIDE DEF i
  <2> QED
    BY <2>1, <2>2 DEF Idle
<1>5. \A u \in CalcUnits(def) : ~Passed(def, pc', u)
  BY <1>4 DEF Passed
<1>6. \A t \in Synth, p \in Trigs(def), v \in Values : Holds(graph', t, p, v) => Holds(graph, t, p, v) /\ t # s
  BY <1>2, <1>3 DEF Holds
<1> QED
  BY <1>1, <1>2, <1>5, <1>6, FewerHeld

(* A step of the walk passes the unit it is at, and no other. *)
LEMMA PassesOne ==
    ASSUME Walks, AtUnit, pc.phase \in {"construct", "calc"}
    PROVE  /\ NextStep.synth = pc.synth /\ NextStep.phase \in InTick
           /\ \A u \in CalcUnits(def) : Passed(def, NextStep, u) =>
                  Passed(def, pc, u) \/ (pc.phase = "calc" /\ u = UnitAt)
<1> DEFINE S == CalcUnits(def)
<1>1. /\ Planned /\ DOMAIN pc = {"synth", "tick", "phase", "step"} /\ pc.step \in Nat
      /\ S \in SUBSET Units(def) /\ def \in Definitions
  BY DEF Walks, AtUnit, Planned, CalcUnits
<1>2. /\ Len(Calc) \in Nat /\ \A u \in S : Index(S, u) \in Nat /\ Index(S, u) + 1 \in 1..Len(Calc)
      /\ Len(Calc) = Cardinality(S)
  <2>1. Len(Calc) = Cardinality(S) /\ Cardinality(S) \in Nat /\ \A u \in S : Index(S, u) + 1 \in 1..Len(Calc)
    BY <1>1, CalcIs
  <2>2. \A u \in S : Index(S, u) \in Nat
    BY <1>1, Ordered
  <2> QED
    BY <2>1, <2>2
<1>3. CASE pc.phase = "construct"
  <2>1. CASE pc.step < Steps
    <3> DEFINE q == NextStep
    <3>1. q.phase = "construct" /\ q.synth = pc.synth
      BY <1>1, <1>3, <2>1 DEF NextStep
    <3> HIDE DEF q
    <3> QED
      BY <3>1 DEF Passed, InTick, q
  <2>2. CASE ~(pc.step < Steps)
    <3> DEFINE q == NextStep
    <3>1. q.phase = Calculate /\ q.step = 1 /\ q.synth = pc.synth
      BY <1>1, <1>3, <2>2 DEF NextStep
    <3>2. /\ Calculate \in {"calc", "ticked"}
          /\ Calculate = "ticked" => S = {}
      BY <1>1, FirstStepIs
    <3> HIDE DEF q
    <3>3. \A u \in S : ~Passed(def, q, u)
      BY <1>2, <3>1, <3>2 DEF Passed
    <3> QED
      BY <3>1, <3>2, <3>3 DEF InTick, q
  <2> QED
    BY <2>1, <2>2
<1>4. CASE pc.phase = "calc"
  <2>1. UnitAt \in S /\ Index(S, UnitAt) + 1 = pc.step
    BY <1>4, UnitAtIs
  <2>2. \A u \in S : Index(S, u) = Index(S, UnitAt) => u = UnitAt
    BY <1>1, <2>1, Ordered
  <2>3. Steps = Len(Calc) /\ pc.step \in 1..Len(Calc)
    BY <1>2, <1>4 DEF Steps, AtUnit
  <2> DEFINE q == NextStep
  <2>4. q.synth = pc.synth /\ \/ q.phase = "calc" /\ q.step = pc.step + 1
                              \/ q.phase = "ticked" /\ pc.step = Len(Calc)
    <3>1. CASE pc.step < Steps
      BY <1>1, <1>4, <3>1 DEF NextStep
    <3>2. CASE ~(pc.step < Steps)
      <4>1. pc.step = Len(Calc)
        BY <1>2, <2>3, <3>2
      <4> QED
        BY <1>1, <1>4, <3>2, <4>1 DEF NextStep
    <3> QED
      BY <3>1, <3>2
  <2> HIDE DEF q
  <2>5. ASSUME NEW u \in S, Passed(def, q, u) PROVE Passed(def, pc, u) \/ u = UnitAt
    <3>1. Index(S, u) + 1 < pc.step \/ Index(S, u) + 1 = pc.step
      BY <1>1, <1>2, <2>3, <2>4, <2>5 DEF Passed
    <3>2. CASE Index(S, u) + 1 < pc.step
      BY <1>4, <3>2 DEF Passed
    <3>3. CASE Index(S, u) + 1 = pc.step
      <4>1. Index(S, u) = Index(S, UnitAt)
        <5>1. Index(S, u) \in Nat /\ Index(S, UnitAt) \in Nat
          BY <1>2, <2>1
        <5> QED
          BY <2>1, <3>3, <5>1
      <4> QED
        BY <2>2, <4>1
    <3> QED
      BY <3>1, <3>2, <3>3
  <2> QED
    BY <1>4, <2>4, <2>5 DEF InTick, q
<1> QED
  BY <1>3, <1>4

(* A unit that reads a trigger parameter sees the value it holds. *)
LEMMA ReaderSees ==
    ASSUME Walks, AtUnit, pc.phase = "calc", NEW p \in Trigs(def), NEW v, Holds(graph, pc.synth, p, v),
           Reads(def, UnitAt, p)
    PROVE  Heeds /\ <<"set", v>> \in TrigShown(pc.synth, Ins(pc.synth, UnitAt, pc.phase))
<1> DEFINE u == UnitAt
           s == pc.synth
           ins == def.units[u].ins
           got == Ins(s, u, pc.phase)
           in == <<"param", p>>
<1>1. u \in CalcUnits(def) /\ u \in Units(def) /\ ~IsDemand(def, u) /\ Planned
  BY DEF Reads, CalcUnits, DemandUnits, Walks
<1>2. PICK i \in DOMAIN ins : ins[i] = in
  BY DEF Reads, Range
<1>3. def.params[p] = "trig"
  BY DEF Trigs, ParamsOf
<1>4. plan.source[u][i] = <<"control", ParamWire(p)>>
  <2>1. Source(def, in) = <<"control", ParamWire(p)>>
    BY <1>3 DEF Source, ParamSource
  <2>2. plan.source[u][i] = Source(def, ins[i])
    BY <1>1, <1>2 DEF Planned, Compile
  <2> QED
    BY <1>2, <2>1, <2>2
<1>5. Read(s, u, i, pc.phase) = {graph[s].ctrl[ParamWire(p)]}
  BY <1>4 DEF Read
<1>6. Name(u) # "LocalIn" /\ Name(u) # "watch"
  BY DEF Reads, Name
<1>7. got = [j \in DOMAIN ins |-> Read(s, u, j, pc.phase)]
  BY <1>6 DEF Ins
<1>8. {<<"set", v>>} \in Range(got)
  <2>1. got[i] = {<<"set", v>>} /\ i \in DOMAIN got
    BY <1>2, <1>5, <1>7 DEF Holds
  <2> HIDE DEF got
  <2> QED
    BY <2>1 DEF Range
<1>9. <<"set", v>> \in TrigShown(s, got)
  <2> HIDE DEF got
  <2> QED
    BY <1>8 DEF TrigShown, Holds, Trigs
<1>10. Heeds
  BY <1>1 DEF Heeds, Reads
<1> QED
  BY <1>9, <1>10

(* A unit sees what its own synth holds, in the tick under way.            *)
LEMMA RunUnitTriggers ==
    ASSUME Triggers, AtUnit, RunUnit
    PROVE  Triggers'
<1> DEFINE s == pc.synth
           n == graph[s].ticks
           shown == TrigShown(s, Ins(s, UnitAt, pc.phase))
           Sees(v) == Heeds /\ <<"set", v>> \in shown
<1>1. /\ Walks /\ Walks' /\ Planned /\ DOMAIN graph = Synth /\ s \in Synth /\ DOMAIN trigSeen = Values
  BY RunUnitWalks DEF Triggers, Walks, AtUnit, LiveSynths
<1>2. /\ \A t \in Synth : t # s => graph'[t] = graph[t]
      /\ graph'[s].ticks = n /\ graph[s] # Absent
      /\ \A p \in Trigs(def) : graph'[s].ctrl[ParamWire(p)] = graph[s].ctrl[ParamWire(p)]
      /\ pc' = NextStep /\ pc.phase \in {"construct", "calc"} /\ UNCHANGED <<def, sets>>
      /\ trigSeen' = IF Heeds THEN Seen(s, Ins(s, UnitAt, pc.phase)) ELSE trigSeen
  BY <1>1, RunUnitIs DEF Others, Trigs, AtUnit, LiveSynths
<1>3. /\ DOMAIN trigSeen' = Values
      /\ \A v \in Values : trigSeen'[v] = IF Sees(v) THEN trigSeen[v] \cup {n} ELSE trigSeen[v]
  <2> HIDE DEF s
  <2> QED
    BY <1>1, <1>2 DEF Seen
<1>4. ASSUME NEW v, Sees(v) PROVE \E p \in Trigs(def) : Holds(graph, s, p, v)
  BY <1>2, <1>4 DEF TrigShown, Holds, Trigs
<1>5. \A t \in Synth, p \in Trigs(def) : \A v : Holds(graph', t, p, v) => Holds(graph, t, p, v)
  BY <1>2 DEF Holds
<1>6. pc'.synth = s /\ pc'.phase \in InTick /\ pc.phase \in InTick
  BY <1>1, <1>2, PassesOne DEF InTick
<1> HIDE DEF Sees, s, n
<1>7. Unseen'
  <2> SUFFICES ASSUME NEW v \in Values, v > sets
               PROVE  trigSeen'[v] = {} /\ \A t \in Synth, p \in Trigs(def) : ~Holds(graph', t, p, v)
    BY <1>2 DEF Unseen
  <2>1. trigSeen[v] = {} /\ \A t \in Synth, p \in Trigs(def) : ~Holds(graph, t, p, v)
    BY DEF Triggers, Unseen
  <2>2. ~Sees(v)
    BY <1>1, <1>4, <2>1
  <2> QED
    BY <1>3, <1>5, <2>1, <2>2
<1>8. \A v \in Values : Sees(v) => trigSeen[v] \subseteq {n}
  <2> TAKE v \in Values
  <2> HAVE Sees(v)
  <2>1. PICK p \in Trigs(def) : Holds(graph, s, p, v)
    BY <1>4
  <2> QED
    BY <1>1, <2>1 DEF Triggers, SeenWhereHeld, n
<1>9. SeenOnce'
  <2> SUFFICES ASSUME NEW v \in Values PROVE \E t : trigSeen'[v] \subseteq {t}
    BY DEF SeenOnce
  <2>1. CASE Sees(v)
    BY <1>3, <1>8, <2>1
  <2>2. CASE ~Sees(v)
    BY <1>3, <2>2 DEF Triggers, SeenOnce
  <2> QED
    BY <2>1, <2>2
<1>10. HeldOnce'
  BY <1>2, <1>5 DEF Triggers, HeldOnce
<1>11. SeenWhereHeld'
  <2> SUFFICES ASSUME NEW v \in Values, NEW t \in Synth, NEW p \in Trigs(def), Holds(graph', t, p, v), trigSeen'[v] # {}
               PROVE  pc'.synth = t /\ pc'.phase \in InTick /\ trigSeen'[v] \subseteq {graph'[t].ticks}
    BY <1>2 DEF SeenWhereHeld
  <2>1. Holds(graph, t, p, v)
    BY <1>5
  <2>2. CASE Sees(v)
    <3>1. PICK q \in Trigs(def) : Holds(graph, s, q, v)
      BY <1>4, <2>2
    <3>2. t = s
      BY <1>1, <2>1, <3>1 DEF Triggers, HeldOnce
    <3>3. trigSeen'[v] \subseteq {n}
      BY <1>3, <1>8, <2>2
    <3> QED
      BY <1>2, <1>6, <3>2, <3>3
  <2>3. CASE ~Sees(v)
    <3>1. trigSeen'[v] = trigSeen[v]
      BY <1>3, <2>3
    <3>2. s = t /\ trigSeen[v] \subseteq {graph[t].ticks}
      BY <2>1, <3>1 DEF Triggers, SeenWhereHeld, s
    <3> QED
      BY <1>2, <1>6, <3>1, <3>2 DEF n
  <2> QED
    BY <2>2, <2>3
<1>12. SeenByReaders'
  <2> SUFFICES ASSUME NEW v \in Values, NEW p \in Trigs(def), NEW u \in CalcUnits(def), Reads(def, u, p),
                      Passed(def, pc', u), Holds(graph', s, p, v)
               PROVE  n \in trigSeen'[v]
    BY <1>2, <1>6 DEF SeenByReaders
  <2>1. Holds(graph, s, p, v)
    BY <1>1, <1>5
  <2>2. Passed(def, pc, u) \/ (pc.phase = "calc" /\ u = UnitAt)
    BY <1>1, <1>2, PassesOne
  <2>3. CASE Passed(def, pc, u)
    <3>1. n \in trigSeen[v]
      BY <2>1, <2>3 DEF Triggers, SeenByReaders, s, n
    <3> QED
      BY <1>3, <3>1
  <2>4. CASE pc.phase = "calc" /\ u = UnitAt
    <3>1. Sees(v)
      BY <1>1, <2>1, <2>4, ReaderSees DEF Sees, s
    <3> QED
      BY <1>3, <3>1
  <2> QED
    BY <2>2, <2>3, <2>4
<1> QED
  BY <1>1, <1>2, <1>3, <1>7, <1>9, <1>10, <1>11, <1>12 DEF Triggers

(* Every step keeps who holds and who saw which value.                     *)
LEMMA StepTriggers == Triggers /\ [GraphNext]_graphVars => Triggers'
<1> SUFFICES ASSUME Triggers, [GraphNext]_graphVars PROVE Triggers'
  OBVIOUS
<1>0. Walks /\ Walks'
  BY StepWalks DEF Triggers
<1>1. CASE UNCHANGED graphVars
  <2>1. UNCHANGED <<def, graph, pc, sets, trigSeen>>
    BY <1>1 DEF graphVars
  <2>2. Unseen' /\ SeenOnce' /\ HeldOnce'
    BY <2>1 DEF Triggers, Unseen, SeenOnce, HeldOnce
  <2>3. SeenWhereHeld'
    BY <2>1 DEF Triggers, SeenWhereHeld
  <2>4. SeenByReaders'
    BY <2>1 DEF Triggers, SeenByReaders
  <2> QED
    BY <1>0, <2>1, <2>2, <2>3, <2>4 DEF Triggers
<1>2. CASE \E s \in Synth : NewSynth(s) \/ FreeSynth(s) \/ SetRunning(s)
  BY <1>2, NewSynthTriggers, FreeSynthTriggers
<1>3. CASE \E s \in Synth, p \in DOMAIN def.params : SetControl(s, p)
  BY <1>3, SetControlTriggers
<1>4. CASE BeginBlock
  <2>1. running # <<>> /\ BeginTick(Head(running), 1) /\ pc.phase = "idle"
    BY <1>4 DEF BeginBlock, Idle
  <2>2. Head(running) \in LiveSynths /\ Head(running) \in Range(running) /\ 1 \in Nat
    BY <1>0, <2>1 DEF Walks, Range
  <2> QED
    BY <2>1, <2>2, BeginTickTriggers
<1>5. CASE RunUnit
  <2>1. pc # Idle
    BY <1>5 DEF RunUnit, Idle
  <2> QED
    BY <1>0, <1>5, <2>1, RunUnitTriggers DEF Walks
<1>6. CASE EndTick
  <2>1. pc # Idle
    BY <1>6 DEF EndTick, Idle
  <2> QED
    BY <1>0, <1>6, <2>1, EndTickTriggers DEF Walks
<1>7. CASE NextTick
  <2>1. pc # Idle /\ BeginTick(pc.synth, pc.tick) /\ pc.phase = "next"
    BY <1>7 DEF NextTick, Idle
  <2>2. pc.synth \in LiveSynths /\ pc.synth \in Range(running) /\ pc.tick \in Nat
    BY <1>0, <2>1 DEF Walks, AtUnit
  <2> QED
    BY <2>1, <2>2, BeginTickTriggers
<1> QED
  BY <1>1, <1>2, <1>3, <1>4, <1>5, <1>6, <1>7 DEF GraphNext

(* A value that is set on a trigger parameter is seen in one tick, the     *)
(* first its synth runs, and by every unit that reads the parameter then.  *)
THEOREM TriggersShowOnce == GraphSpec => []TrigOneTick
<1>1. Triggers => TrigOneTick
  <2> SUFFICES ASSUME Triggers PROVE TrigOneTick
    OBVIOUS
  <2>1. ASSUME NEW v \in DOMAIN trigSeen PROVE Cardinality(trigSeen[v]) <= 1
    <3>1. PICK t : trigSeen[v] \subseteq {t}
      BY DEF Triggers, SeenOnce
    <3>2. trigSeen[v] = {} \/ trigSeen[v] = {t}
      BY <3>1
    <3>3. Cardinality({}) = 0 /\ Cardinality({t}) = 1
      BY FS_EmptySet, FS_Singleton
    <3> QED
      BY <3>2, <3>3
  <2>2. ASSUME pc.phase = "ticked", NEW p \in ParamsOf(def, "trig"), NEW v \in 1 .. MaxSets,
               graph[pc.synth].ctrl[ParamWire(p)] = <<"set", v>>, NEW u \in CalcUnits(def),
               def.units[u].rate # "scalar", Name(u) \notin {"LocalIn", "watch"},
               <<"param", p>> \in Range(def.units[u].ins)
        PROVE  trigSeen[v] = {graph[pc.synth].ticks}
    <3>1. pc # Idle
      BY <2>2 DEF Idle
    <3>2. AtUnit /\ pc.synth \in Synth /\ graph[pc.synth] # Absent
      BY <3>1 DEF Triggers, Walks, AtUnit, LiveSynths
    <3>3. p \in Trigs(def) /\ v \in Values /\ Holds(graph, pc.synth, p, v) /\ Reads(def, u, p) /\ Passed(def, pc, u)
      BY <2>2, <3>2 DEF Trigs, Values, Holds, Reads, Passed, Name
    <3>4. graph[pc.synth].ticks \in trigSeen[v]
      BY <3>3 DEF Triggers, SeenByReaders
    <3>5. trigSeen[v] \subseteq {graph[pc.synth].ticks}
      BY <3>2, <3>3, <3>4 DEF Triggers, SeenWhereHeld
    <3> QED
      BY <3>4, <3>5
  <2> QED
    BY <2>1, <2>2 DEF TrigOneTick
<1> QED
  BY <1>1, InitTriggers, StepTriggers, PTL DEF GraphSpec
=============================================================================
