----------------------------- MODULE NodeForest -----------------------------
(***************************************************************************)
(* What the node tree promises its clients, on client ids: a group has an  *)
(* ordered list of children, a command puts a node somewhere, moves it, or *)
(* removes a set of nodes, and a done action removes or pauses nodes near  *)
(* the synth that asked.  No slots, no links, no order of destruction: the *)
(* pointer structure of tree.rs (NodeTree) implements this.                *)
(***************************************************************************)
EXTENDS Integers, SequencesExt, FiniteSets

CONSTANTS
    NodeId,      \* client node ids
    Root,        \* the root group's
    MaxNodes,    \* nodes the tree can hold, the root included
    NoCmd        \* no command

VARIABLES
    kids,        \* the groups, each with its children in order
    synths,      \* the synths
    paused,      \* the paused nodes
    requests,    \* done actions the latest block left to perform
    cmd          \* the command just performed, until its events are out

vars == <<kids, synths, paused, requests, cmd>>

Groups == DOMAIN kids
Nodes == Groups \cup synths

(* The group a node is in, and what is below a node. *)
Parent(n) == CHOOSE g \in Groups : Contains(kids[g], n)
Below(n) ==
    LET reach[k \in 0..MaxNodes] ==
            IF k = 0 THEN {n}
            ELSE LET nearer == reach[k - 1]
                 IN nearer \cup UNION {ToSet(kids[g]) : g \in nearer \cap Groups}
    IN reach[MaxNodes] \ {n}
Subtree(n) == {n} \cup Below(n)

(* The siblings of n before and after it. *)
Place(n) == CHOOSE i \in DOMAIN kids[Parent(n)] : kids[Parent(n)][i] = n
Earlier(n) == {kids[Parent(n)][i] : i \in 1..(Place(n) - 1)}
Later(n) == {kids[Parent(n)][i] : i \in (Place(n) + 1)..Len(kids[Parent(n)])}
Previous(n) == IF Earlier(n) = {} THEN {} ELSE {kids[Parent(n)][Place(n) - 1]}
Following(n) == IF Later(n) = {} THEN {} ELSE {kids[Parent(n)][Place(n) + 1]}

(* Lists of children with the nodes of a set taken out, or one put in. *)
Without(lists, gone) ==
    [g \in DOMAIN lists \ gone |-> SelectSeq(lists[g], LAMBDA m : m \notin gone)]
Detached(n) == [g \in Groups |-> SelectSeq(kids[g], LAMBDA m : m # n)]
With(lists, n, target, where) ==
    LET g == CHOOSE h \in DOMAIN lists : Contains(lists[h], target)
        i == CHOOSE j \in DOMAIN lists[g] : lists[g][j] = target
    IN CASE where = "head" -> [lists EXCEPT ![target] = <<n>> \o @]
         [] where = "tail" -> [lists EXCEPT ![target] = Append(@, n)]
         [] where = "before" -> [lists EXCEPT ![g] = InsertAt(@, i, n)]
         [] where = "after" -> [lists EXCEPT ![g] = InsertAt(@, i + 1, n)]
         [] where = "replace" -> [lists EXCEPT ![g] = ReplaceAt(@, i, n)]
Legal(target, where) ==
    target \in IF where \in {"head", "tail"} THEN Groups ELSE Nodes \ {Root}

(* When a command is performed: any other leaves the forest as it is.      *)
CanAdd(n, target, where) ==
    Cardinality(Nodes) < MaxNodes /\ n \notin Nodes /\ Legal(target, where)
CanMove(n, target, where) ==
    /\ n \in Nodes \ {Root} /\ Legal(target, where)
    /\ target \notin Subtree(n)
CanFree(n) == n \in Nodes \ {Root}
CanEmpty(g) == g \in Groups

Init ==
    /\ kids = [g \in {Root} |-> <<>>]
    /\ synths = {} /\ paused = {}
    /\ requests = <<>> /\ cmd = NoCmd

Accept(command) ==
    /\ cmd = NoCmd /\ requests = <<>>
    /\ cmd' = command /\ UNCHANGED requests

Take(gone) ==
    /\ kids' = Without(kids, gone)
    /\ synths' = synths \ gone

(* A new synth or group; it takes the place of a node it replaces.         *)
Add(n, kind, target, where) ==
    /\ Accept(<<"add", n, kind, target, where>>)
    /\ CanAdd(n, target, where)
    /\ LET gone == IF where = "replace" THEN Subtree(target) ELSE {}
           lists == Without(With(kids, n, target, where), gone)
       IN /\ kids' = IF kind = "group"
                     THEN [g \in DOMAIN lists \cup {n} |-> IF g = n THEN <<>> ELSE lists[g]]
                     ELSE lists
          /\ synths' = (synths \ gone) \cup IF kind = "synth" THEN {n} ELSE {}
          /\ paused' = paused \ gone

(* No node moves next to itself or below itself. *)
Move(n, target, where) ==
    /\ Accept(<<"move", n, target, where>>)
    /\ CanMove(n, target, where)
    /\ kids' = With(Detached(n), n, target, where)
    /\ UNCHANGED <<synths, paused>>

FreeNode(n) ==
    /\ Accept(<<"free", n>>)
    /\ CanFree(n)
    /\ Take(Subtree(n)) /\ paused' = paused \ Subtree(n)

FreeAll(g) ==
    /\ Accept(<<"freeAll", g>>)
    /\ CanEmpty(g)
    /\ Take(Below(g)) /\ paused' = paused \ Below(g)

DeepFree(g) ==
    /\ Accept(<<"deepFree", g>>)
    /\ CanEmpty(g)
    /\ LET gone == Below(g) \cap synths
       IN Take(gone) /\ paused' = paused \ gone

SetRun(n, run) ==
    /\ Accept(<<"run", n, run>>)
    /\ n \in IF run THEN paused ELSE Nodes \ paused
    /\ paused' = IF run THEN paused \ {n} ELSE paused \cup {n}
    /\ UNCHANGED <<kids, synths>>

(* The events of the command are out. *)
Settle ==
    /\ cmd # NoCmd /\ cmd' = NoCmd
    /\ UNCHANGED <<kids, synths, paused, requests>>

(* A block: some synths that are not paused ask for a done action.         *)
Ask ==
    /\ cmd = NoCmd /\ requests = <<>>
    /\ requests' # <<>>
    /\ \A i, j \in DOMAIN requests' :
          /\ requests'[i].id \in synths \ paused
          /\ requests'[i].id = requests'[j].id => i = j
    /\ UNCHANGED <<kids, synths, paused, cmd>>

(* What the done action of s frees and pauses. *)
Freed(s, action) ==
    LET near(S) == UNION {Subtree(n) : n \in S}
        empty(S) == UNION {IF n \in Groups THEN Below(n) ELSE {n} : n \in S}
        silence(S) == UNION {IF n \in Groups THEN Below(n) \cap synths ELSE {n} : n \in S}
    IN CASE action = "PauseSelf" -> {}
         [] action \in {"FreeSelf", "FreeSelfPausePrev", "FreeSelfPauseNext"} -> {s}
         [] action = "FreeSelfAndPrev" -> {s} \cup near(Previous(s))
         [] action = "FreeSelfAndNext" -> {s} \cup near(Following(s))
         [] action = "FreeSelfAndFreeAllPrev" -> {s} \cup empty(Previous(s))
         [] action = "FreeSelfAndFreeAllNext" -> {s} \cup empty(Following(s))
         [] action = "FreeSelfToHead" -> {s} \cup near(Earlier(s))
         [] action = "FreeSelfToTail" -> {s} \cup near(Later(s))
         [] action = "FreeSelfAndDeepFreePrev" -> {s} \cup silence(Previous(s))
         [] action = "FreeSelfAndDeepFreeNext" -> {s} \cup silence(Following(s))
         [] action = "FreeAllInGroup" -> Below(Parent(s))
         [] action = "FreeGroup" -> IF Parent(s) = Root THEN {} ELSE Subtree(Parent(s))
Paused(s, action) ==
    CASE action = "PauseSelf" -> {s}
      [] action = "FreeSelfPausePrev" -> Previous(s)
      [] action = "FreeSelfPauseNext" -> Following(s)
      [] OTHER -> {}

(* The oldest request is performed, unless an earlier one freed its synth. *)
Perform ==
    /\ requests # <<>>
    /\ requests' = Tail(requests)
    /\ LET s == Head(requests).id
           action == Head(requests).action
       IN IF s \in synths
          THEN /\ Take(Freed(s, action))
               /\ paused' = (paused \cup Paused(s, action)) \ Freed(s, action)
          ELSE UNCHANGED <<kids, synths, paused>>
    /\ UNCHANGED cmd

Next ==
    \/ \E n, target \in NodeId, kind \in {"synth", "group"},
          where \in {"head", "tail", "before", "after", "replace"} : Add(n, kind, target, where)
    \/ \E n, target \in NodeId, where \in {"head", "tail", "before", "after"} :
          Move(n, target, where)
    \/ \E n \in NodeId : FreeNode(n) \/ FreeAll(n) \/ DeepFree(n)
    \/ \E n \in NodeId, run \in BOOLEAN : SetRun(n, run)
    \/ Settle \/ Ask \/ Perform

Spec == Init /\ [][Next]_vars
=============================================================================
