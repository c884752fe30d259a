------------------------------ MODULE NodeTree ------------------------------
(***************************************************************************)
(* tree.rs: the node tree as the audio thread keeps it, a slotmap of nodes *)
(* doubly linked by slot index, with a free list and a map from client ids *)
(* to slots.  Commands and done actions are sequences of link updates; the *)
(* block in between collects done actions by slot and applies them after   *)
(* the walk, when an earlier one may have freed a later one's synth.       *)
(*                                                                         *)
(* The tree is one record and the Rust methods are operators from a tree   *)
(* to a tree.  A graph is abstracted to what it asks for in a block.       *)
(***************************************************************************)
EXTENDS Integers, SequencesExt, FiniteSets

CONSTANTS
    NodeId,      \* client node ids
    Root,        \* the root group's id
    None,        \* no slot, and the -1 of a report
    NoCmd,       \* no command
    MaxNodes,    \* slots, the root's included
    MaxAsking,   \* most synths that ask for a done action in one block
    Actions,     \* the done actions they may ask for
    Pausing      \* whether commands pause and resume nodes

ASSUME IdAssumption == Root \in NodeId /\ None \notin NodeId /\ None \notin Int
ASSUME SizeAssumption == MaxNodes \in Nat \ {0} /\ MaxAsking \in Nat

DoneActions == {"PauseSelf", "FreeSelf", "FreeSelfAndPrev", "FreeSelfAndNext",
    "FreeSelfAndFreeAllPrev", "FreeSelfAndFreeAllNext", "FreeSelfToHead", "FreeSelfToTail",
    "FreeSelfPausePrev", "FreeSelfPauseNext", "FreeSelfAndDeepFreePrev",
    "FreeSelfAndDeepFreeNext", "FreeAllInGroup", "FreeGroup"}

ASSUME ActionAssumption == Actions \subseteq DoneActions

VARIABLES
    tree,    \* slots, free list, id map, synth count; sink: nodes freed and not yet reported
    done,    \* done actions the latest walk collected and that are yet to apply
    cmd      \* the command just applied, until its events are out

vars == <<tree, done, cmd>>

Slot == 0..(MaxNodes - 1)
Free == [kind |-> "free"]

(* NodeTree::new: index 0 is the root's, and the free list pops 1, 2, ...  *)
NewNode(id, kind) ==
    [kind |-> kind, id |-> id, parent |-> None, prev |-> None, next |-> None,
     head |-> None, tail |-> None, paused |-> FALSE]
Init ==
    /\ tree = [slots |-> [i \in Slot |-> IF i = 0 THEN NewNode(Root, "group") ELSE Free],
               free |-> [i \in 1..(MaxNodes - 1) |-> MaxNodes - i],
               ids |-> [n \in {Root} |-> 0],
               synthCount |-> 0,
               sink |-> <<>>]
    /\ done = <<>> /\ cmd = NoCmd

-----------------------------------------------------------------------------
(* Reading and writing a slot.  A write to a freed slot does nothing.      *)

IsLive(t, i) == i \in Slot /\ t.slots[i] # Free
IsGroup(t, i) == IsLive(t, i) /\ t.slots[i].kind = "group"
IsSynth(t, i) == IsLive(t, i) /\ t.slots[i].kind = "synth"
Synths(t) == {i \in Slot : IsSynth(t, i)}
Get(t, i, link) == IF IsLive(t, i) THEN t.slots[i][link] ELSE None
Put(t, i, link, v) == IF IsLive(t, i) THEN [t EXCEPT !.slots[i][link] = v] ELSE t
PutGroup(t, i, link, v) == IF IsGroup(t, i) THEN Put(t, i, link, v) ELSE t
IdOf(t, i) == IF IsLive(t, i) THEN t.slots[i].id ELSE None

(* insert: into group g between two siblings, either of which may be None. *)
Insert(t, i, g, prev, next) ==
    LET placed == Put(Put(Put(t, i, "parent", g), i, "prev", prev), i, "next", next)
        left == IF prev = None THEN PutGroup(placed, g, "head", i)
                ELSE Put(placed, prev, "next", i)
    IN IF next = None THEN PutGroup(left, g, "tail", i) ELSE Put(left, next, "prev", i)

(* Mutant: a group keeps the tail that leaves. *)
RepairNoTail(t, parent, prev, next, i) ==
    LET around == Put(Put(t, prev, "next", next), next, "prev", prev)
    IN IF Get(around, parent, "head") = i THEN PutGroup(around, parent, "head", next) ELSE around

(* repair_parent: mend the neighbours of a slot that leaves its chain.     *)
RepairParent(t, parent, prev, next, i) ==
    LET around == Put(Put(t, prev, "next", next), next, "prev", prev)
        first == IF Get(around, parent, "head") = i
                 THEN PutGroup(around, parent, "head", next) ELSE around
    IN IF Get(first, parent, "tail") = i THEN PutGroup(first, parent, "tail", prev) ELSE first

Unlink(t, i) ==
    LET out == RepairParent(t, Get(t, i, "parent"), Get(t, i, "prev"), Get(t, i, "next"), i)
    IN Put(Put(Put(out, i, "parent", None), i, "prev", None), i, "next", None)

(* The members of a sequence that are in a set. *)
Those(s, set) ==
    LET upTo[k \in 0..Len(s)] ==
            IF k = 0 THEN <<>>
            ELSE upTo[k - 1] \o IF s[k] \in set THEN <<s[k]>> ELSE <<>>
    IN upTo[Len(s)]

(* The chain of siblings from a slot on, and the children of a group.      *)
Chain(t, first) ==
    LET at[k \in 0..MaxNodes] == IF k = 0 THEN first ELSE Get(t, at[k - 1], "next")
        n == Cardinality({k \in 0..(MaxNodes - 2) : at[k] # None})
    IN [k \in 1..n |-> at[k - 1]]
Children(t, g) == Chain(t, Get(t, g, "head"))

(* A subtree, children before their parent.                                *)
PostOrder(t, top) ==
    LET order[k \in 0..MaxNodes] ==
            [i \in Slot |->
               IF k = 0 THEN <<>>
               ELSE LET below == Children(t, i)
                    IN FlattenSeq([c \in DOMAIN below |-> order[k - 1][below[c]]]) \o <<i>>]
    IN order[MaxNodes][top]

(* node_info_at: what is reported of a node when it is freed.  A neighbour *)
(* freed before it reads as None.                                          *)
Report(t, i) ==
    [id |-> IdOf(t, i), parent |-> IdOf(t, Get(t, i, "parent")),
     prev |-> IdOf(t, Get(t, i, "prev")), next |-> IdOf(t, Get(t, i, "next"))]
(* The removal itself. *)
Remove1(t, i, report) ==
    [slots |-> [t.slots EXCEPT ![i] = Free],
     free |-> Append(t.free, i),
     ids |-> [n \in DOMAIN t.ids \ {report.id} |-> t.ids[n]],
     synthCount |-> IF IsSynth(t, i) /\ t.synthCount > 0 THEN t.synthCount - 1
                    ELSE t.synthCount,
     sink |-> Append(t.sink, report)]

Destroy(t, i) ==
    FoldLeft(LAMBDA u, j : Remove1(u, j, Report(u, j)), t, PostOrder(t, i))

-----------------------------------------------------------------------------
(* Freeing by slot.                                                        *)

(* Mutant: the node is unlinked before its report is taken. *)
FreeUnlinked(t, i) == Destroy(Unlink(t, i), i)

FreeAt(t, i) ==
    RepairParent(Destroy(t, i), Get(t, i, "parent"), Get(t, i, "prev"), Get(t, i, "next"), i)

FreeAllAt(t, g) ==
    LET emptied == FoldLeft(Destroy, t, Children(t, g))
    IN PutGroup(PutGroup(emptied, g, "head", None), g, "tail", None)

(* Mutant: the synths of subgroups are left. *)
DeepFreeChildren(t, g) ==
    LET synths == Those(Children(t, g), Synths(t))
    IN FoldLeft(LAMBDA u, i : Remove1(Unlink(u, i), i, Report(u, i)), t, synths)

(* free_by_index, for each synth below g in the order of the walk.         *)
DeepFreeGroup(t, g) ==
    LET synths == Those(PostOrder(t, g), Synths(t))
    IN FoldLeft(LAMBDA u, i : Remove1(Unlink(u, i), i, Report(u, i)), t, synths)

-----------------------------------------------------------------------------
(* Commands.                                                               *)

(* Mutant: commands between the walk and its done actions. *)
AcceptAlways(command) == cmd' = command /\ UNCHANGED done

(* World::run_one_block applies commands before the walk, each with its    *)
(* events, and the done actions right after it.                            *)
Accept(command) ==
    /\ done = <<>> /\ cmd = NoCmd /\ tree.sink = <<>>
    /\ cmd' = command /\ UNCHANGED done

(* resolve_placement, as the group and the two neighbours of the new place *)
(* once "moved" (None for a new node) has left its chain.                  *)
Resolves(t, target, where) ==
    /\ target \in DOMAIN t.ids
    /\ CASE where \in {"head", "tail"} -> IsGroup(t, t.ids[target])
         [] where \in {"before", "after"} -> Get(t, t.ids[target], "parent") # None
         [] OTHER -> FALSE
DestGroup(t, target, where) ==
    IF where \in {"head", "tail"} THEN t.ids[target] ELSE Get(t, t.ids[target], "parent")
LinkAt(t, i, target, where) ==
    LET at == t.ids[target]
        g == DestGroup(t, target, where)
    IN CASE where = "head" -> Insert(t, i, g, None, Get(t, g, "head"))
         [] where = "tail" -> Insert(t, i, g, Get(t, g, "tail"), None)
         [] where = "before" -> Insert(t, i, g, Get(t, at, "prev"), at)
         [] where = "after" -> Insert(t, i, g, at, Get(t, at, "next"))

(* Popping a slot and writing a node into it.                              *)
Occupy(t, i, id, kind) ==
    [t EXCEPT !.slots[i] = NewNode(id, kind),
              !.ids = [n \in DOMAIN t.ids \cup {id} |-> IF n = id THEN i ELSE t.ids[n]],
              !.synthCount = IF kind = "synth" THEN @ + 1 ELSE @]
Popped(t) == [t EXCEPT !.free = Front(t.free)]

(* add_synth, add_group: a live id, a bad placement or a full tree refuses.*)
CanAdd(id, target, where) ==
    id \notin DOMAIN tree.ids /\ Resolves(tree, target, where) /\ tree.free # <<>>
AddNode(id, kind, target, where) ==
    /\ Accept(<<"add", id, kind, target, where>>)
    /\ CanAdd(id, target, where)
    /\ LET i == Last(tree.free)
       IN tree' = LinkAt(Occupy(Popped(tree), i, id, kind), i, target, where)

(* replace_with_synth, replace_with_group: the slot is taken before the    *)
(* target's subtree is freed.                                              *)
CanReplace(id, target) ==
    /\ id \notin DOMAIN tree.ids
    /\ target \in DOMAIN tree.ids /\ tree.ids[target] # 0
    /\ tree.free # <<>>
ReplaceNode(id, kind, target) ==
    /\ Accept(<<"add", id, kind, target, "replace">>)
    /\ CanReplace(id, target)
    /\ LET i == Last(tree.free)
           at == tree.ids[target]
           vacated == Destroy(Unlink(Popped(tree), at), at)
       IN tree' = Insert(Occupy(vacated, i, id, kind), i, Get(tree, at, "parent"),
                         Get(tree, at, "prev"), Get(tree, at, "next"))

(* is_descendant, or the node itself.                                      *)
IsWithin(t, i, ancestor) ==
    LET up[k \in 0..MaxNodes] == IF k = 0 THEN i ELSE Get(t, up[k - 1], "parent")
    IN \E k \in 0..MaxNodes : up[k] = ancestor

(* move_node. *)
CanMove(id, target, where) ==
    /\ id \in DOMAIN tree.ids /\ tree.ids[id] # 0
    /\ Resolves(tree, target, where)
    /\ where \in {"before", "after"} => target # id
    /\ ~IsWithin(tree, DestGroup(tree, target, where), tree.ids[id])
MoveNode(id, target, where) ==
    /\ Accept(<<"move", id, target, where>>)
    /\ CanMove(id, target, where)
    /\ tree' = LinkAt(Unlink(tree, tree.ids[id]), tree.ids[id], target, where)

(* free_node, free_all, deep_free. *)
CanFree(id) == id \in DOMAIN tree.ids \ {Root}
CanEmpty(id) == id \in DOMAIN tree.ids /\ IsGroup(tree, tree.ids[id])
FreeNode(id) ==
    /\ Accept(<<"free", id>>)
    /\ CanFree(id)
    /\ tree' = FreeAt(tree, tree.ids[id])
FreeAll(id) ==
    /\ Accept(<<"freeAll", id>>)
    /\ CanEmpty(id)
    /\ tree' = FreeAllAt(tree, tree.ids[id])
DeepFree(id) ==
    /\ Accept(<<"deepFree", id>>)
    /\ CanEmpty(id)
    /\ tree' = DeepFreeGroup(tree, tree.ids[id])

(* set_run: only a change of the flag does anything. *)
SetRun(id, run) ==
    /\ Accept(<<"run", id, run>>)
    /\ id \in DOMAIN tree.ids /\ tree.slots[tree.ids[id]].paused = run
    /\ tree' = [tree EXCEPT !.slots[tree.ids[id]].paused = ~run]

-----------------------------------------------------------------------------
(* The block.                                                              *)

(* process_group: every group is entered, every synth that is not itself   *)
(* paused is processed.                                                    *)
Processed(t) == Those(PostOrder(t, 0), {i \in Synths(t) : ~t.slots[i].paused})

(* process: the synths that ask for a done action, in the order of the walk.*)
Process ==
    /\ done = <<>> /\ cmd = NoCmd /\ tree.sink = <<>>
    /\ \E asking \in SUBSET ToSet(Processed(tree)) :
          /\ asking # {} /\ Cardinality(asking) <= MaxAsking
          /\ \E action \in [asking -> Actions] :
                LET order == Those(Processed(tree), asking)
                IN done' = [k \in DOMAIN order |->
                              [slot |-> order[k], id |-> tree.slots[order[k]].id,
                               action |-> action[order[k]]]]
    /\ UNCHANGED <<tree, cmd>>

(* apply_done_action, by what it does to the neighbours of slot i, which   *)
(* are read before the first is freed.                                     *)
FreeIf(t, i) == IF i = None THEN t ELSE FreeAt(t, i)
FreeAllIf(t, i) == IF IsGroup(t, i) THEN FreeAllAt(t, i) ELSE FreeIf(t, i)
DeepFreeIf(t, i) == IF IsGroup(t, i) THEN DeepFreeGroup(t, i) ELSE FreeIf(t, i)
Pause(t, i) == Put(t, i, "paused", TRUE)
FreeChain(t, i, link) ==
    LET freed[k \in 0..MaxNodes] ==
            IF k = 0 THEN t ELSE FreeIf(freed[k - 1], Get(freed[k - 1], i, link))
    IN freed[MaxNodes]

Performed(t, i, action) ==
    LET prev == Get(t, i, "prev")
        next == Get(t, i, "next")
        parent == Get(t, i, "parent")
    IN CASE action = "PauseSelf" -> Pause(t, i)
         [] action = "FreeSelf" -> FreeAt(t, i)
         [] action = "FreeSelfAndPrev" -> FreeAt(FreeIf(t, prev), i)
         [] action = "FreeSelfAndNext" -> FreeAt(FreeIf(t, next), i)
         [] action = "FreeSelfAndFreeAllPrev" -> FreeAt(FreeAllIf(t, prev), i)
         [] action = "FreeSelfAndFreeAllNext" -> FreeAt(FreeAllIf(t, next), i)
         [] action = "FreeSelfToHead" -> FreeAt(FreeChain(t, i, "prev"), i)
         [] action = "FreeSelfToTail" -> FreeAt(FreeChain(t, i, "next"), i)
         [] action = "FreeSelfPausePrev" -> FreeAt(Pause(t, prev), i)
         [] action = "FreeSelfPauseNext" -> FreeAt(Pause(t, next), i)
         [] action = "FreeSelfAndDeepFreePrev" -> FreeAt(DeepFreeIf(t, prev), i)
         [] action = "FreeSelfAndDeepFreeNext" -> FreeAt(DeepFreeIf(t, next), i)
         [] action = "FreeAllInGroup" -> FreeAllAt(t, parent)
         [] action = "FreeGroup" -> IF parent \in {None, 0} THEN t ELSE FreeAt(t, parent)

(* World::apply_done_actions, one request: nothing if its slot no longer   *)
(* holds a synth.                                                          *)
ApplyDoneAction ==
    /\ done # <<>>
    /\ done' = Tail(done)
    /\ tree' = IF IsSynth(tree, Head(done).slot)
               THEN Performed(tree, Head(done).slot, Head(done).action)
               ELSE tree
    /\ UNCHANGED cmd

(* World::drain_freed and the events of a command: the freed nodes are     *)
(* reported and their graphs given back.                                   *)
DrainFreed ==
    /\ done = <<>> /\ (tree.sink # <<>> \/ cmd # NoCmd)
    /\ tree' = [tree EXCEPT !.sink = <<>>] /\ cmd' = NoCmd
    /\ UNCHANGED done

Kinds == {"synth", "group"}
Wheres == {"head", "tail", "before", "after"}
Next ==
    \/ \E id, target \in NodeId, kind \in Kinds, where \in Wheres :
          AddNode(id, kind, target, where)
    \/ \E id, target \in NodeId, kind \in Kinds : ReplaceNode(id, kind, target)
    \/ \E id, target \in NodeId, where \in Wheres : MoveNode(id, target, where)
    \/ \E id \in NodeId : FreeNode(id) \/ FreeAll(id) \/ DeepFree(id)
    \/ Pausing /\ \E id \in NodeId, run \in BOOLEAN : SetRun(id, run)
    \/ Process \/ ApplyDoneAction \/ DrainFreed

Spec == Init /\ [][Next]_vars

-----------------------------------------------------------------------------
(* Properties.                                                             *)

Live == {i \in Slot : IsLive(tree, i)}

(* Type correctness. *)
TypeOK ==
    /\ \A i \in Live :
          /\ tree.slots[i].id \in NodeId /\ tree.slots[i].paused \in BOOLEAN
          /\ \A link \in {"parent", "prev", "next", "head", "tail"} :
                tree.slots[i][link] \in Slot \cup {None}
          /\ IsSynth(tree, i) => tree.slots[i].head = None /\ tree.slots[i].tail = None
    /\ tree.free \in Seq(Slot) /\ DOMAIN tree.ids \subseteq NodeId
    /\ Len(tree.sink) < MaxNodes /\ Len(done) <= MaxAsking

(* The links agree: each names a live slot, next and prev are inverse      *)
(* within one group, a group's head and tail end its chain, and only the   *)
(* root has no parent.                                                     *)
LinksAgree ==
    \A i \in Live :
        LET n == tree.slots[i]
        IN /\ (n.parent = None) = (i = 0)
           /\ \A link \in {"parent", "prev", "next", "head", "tail"} :
                 n[link] \in Live \cup {None}
           /\ i # 0 => IsGroup(tree, n.parent)
           /\ n.next # None => /\ tree.slots[n.next].prev = i
                               /\ tree.slots[n.next].parent = n.parent
           /\ n.prev # None => tree.slots[n.prev].next = i
           /\ i # 0 /\ n.next = None => tree.slots[n.parent].tail = i
           /\ i # 0 /\ n.prev = None => tree.slots[n.parent].head = i
           /\ n.head # None => tree.slots[n.head].parent = i /\ tree.slots[n.head].prev = None
           /\ n.tail # None => tree.slots[n.tail].parent = i /\ tree.slots[n.tail].next = None

(* Every live node is reached from the root, once: no move or free cuts a  *)
(* part of the tree off or ties it into a loop.                            *)
AllReached ==
    LET order == PostOrder(tree, 0)
    IN ToSet(order) = Live /\ Len(order) = Cardinality(Live)

(* The bookkeeping beside the links is exact: each slot is either live or  *)
(* free, once; each live node answers to its own id and no id lingers; and *)
(* the running synth count is the number of synths.                        *)
BooksBalance ==
    /\ ToSet(tree.free) = Slot \ Live /\ Len(tree.free) = Cardinality(Slot \ Live)
    /\ DOMAIN tree.ids = {tree.slots[i].id : i \in Live}
    /\ \A n \in DOMAIN tree.ids : tree.ids[n] \in Live /\ tree.slots[tree.ids[n]].id = n
    /\ tree.synthCount = Cardinality(Synths(tree))

(* A pending done action meets the synth that asked for it or an empty     *)
(* slot: between the walk and the action no other node takes its slot.     *)
AskersKeepTheirSlots ==
    \A k \in DOMAIN done :
        IsLive(tree, done[k].slot) => /\ IsSynth(tree, done[k].slot)
                                      /\ tree.slots[done[k].slot].id = done[k].id

IdsOf(slots) == [k \in DOMAIN slots |-> tree.slots[slots[k]].id]

(* Every node that leaves the tree is reported, once, as it stood when it  *)
(* left: /n_end names its group, and as prev and next the nearest siblings *)
(* that had not gone before it in the same step.  Only the node replaced   *)
(* by another, unlinked first and freed last, names none of the three.     *)
EachEndReported ==
    [][LET new == SubSeq(tree'.sink, Len(tree.sink) + 1, Len(tree'.sink))
           gone == DOMAIN tree.ids \ DOMAIN tree'.ids
           replaced == DOMAIN tree'.ids \ DOMAIN tree.ids # {}
           group(n) == tree.slots[tree.ids[n]].parent
           staying(k) == DOMAIN tree.ids \ {new[j].id : j \in 1..(k - 1)}
           left(k) == <<None>> \o Those(IdsOf(Children(tree, group(new[k].id))), staying(k))
                      \o <<None>>
       IN /\ {new[k].id : k \in DOMAIN new} = gone /\ Len(new) = Cardinality(gone)
          /\ \A k \in DOMAIN new :
                IF replaced /\ k = Len(new)
                THEN {new[k].parent, new[k].prev, new[k].next} = {None}
                ELSE /\ new[k].parent = IdOf(tree, group(new[k].id))
                     /\ \E p \in 2..(Len(left(k)) - 1) :
                           /\ left(k)[p] = new[k].id
                           /\ new[k].prev = left(k)[p - 1] /\ new[k].next = left(k)[p + 1]
      ]_vars

(* The links implement the forest: see NodeForest.                         *)
Forest == INSTANCE NodeForest WITH
    kids <- [g \in {n \in DOMAIN tree.ids : IsGroup(tree, tree.ids[n])} |->
                IdsOf(Children(tree, tree.ids[g]))],
    synths <- {n \in DOMAIN tree.ids : IsSynth(tree, tree.ids[n])},
    paused <- {n \in DOMAIN tree.ids : tree.slots[tree.ids[n]].paused},
    requests <- [k \in DOMAIN done |-> [id |-> done[k].id, action |-> done[k].action]]
ImplementsForest == Forest!Spec

(* Between blocks, the guards on slots and links accept exactly the        *)
(* commands that make sense for the forest: none is refused for a wrong    *)
(* reason, none accepted that would break it.                              *)
RefusalsAgree ==
    done = <<>> /\ cmd = NoCmd =>
    \A id, target \in NodeId :
        /\ \A where \in Wheres :
              /\ CanAdd(id, target, where) <=> Forest!CanAdd(id, target, where)
              /\ CanMove(id, target, where) <=> Forest!CanMove(id, target, where)
        /\ CanReplace(id, target) <=> Forest!CanAdd(id, target, "replace")
        /\ CanFree(id) <=> Forest!CanFree(id)

(* The arena of the tree stays sound through every command and every done  *)
(* action: types, links, reachability and books; and the guards read it    *)
(* aright.                                                                 *)
WellFormed == TypeOK /\ LinksAgree /\ AllReached /\ BooksBalance /\ RefusalsAgree
=============================================================================
