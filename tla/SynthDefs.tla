---- MODULE SynthDefs ----
(***************************************************************************)
(* Synth definitions between the Controller and the World: authored,       *)
(* compiled, installed by id in the World's table, replaced, freed and     *)
(* reclaimed; synth creations that name a definition by id, sent at once,  *)
(* for a later time or in an all-or-nothing batch; and the block loop that *)
(* takes them in. A compiled definition is an object with an identity (an  *)
(* Arc): a name, a serial number and the number of allocation slots its    *)
(* units need. Its strong count is the number of places that hold it.      *)
(*                                                                         *)
(* A Controller call is one step, cut where it pushes a second command.    *)
(* The audio thread takes one command a step, so that pushes, reaping and  *)
(* the NRT thread come between any two.                                    *)
(***************************************************************************)
EXTENDS SampleClock, FiniteSets, TLC

CONSTANTS NIL, Names, MaxSynthDefs, RingCap, TrashCap, MaxNodes, Nodes,
          SlotCounts,    \* the allocation slots a definition may need
          Increments,    \* the OSC units per block the rate filter may give
          Times,         \* the times commands are scheduled for
          Resyncs,       \* the times a host may give its callbacks
          MaxCompiles,   \* bound: compilations in a behaviour
          MaxCalls,      \* bound: calls that push a command
          MaxTime        \* bound: the clock stops there

ASSUME ControlAssumption == /\ NIL \notin Names /\ NIL \notin Nat
                            /\ IsFiniteSet(Names) /\ IsFiniteSet(Nodes)
                            /\ NIL \notin [name : Names, serial : Nat, slots : Nat]
                            /\ MaxSynthDefs \in Nat /\ TrashCap \in Nat /\ MaxNodes \in Nat
                            /\ RingCap \in Nat \ {0}
                            /\ SlotCounts \subseteq Nat /\ Times \subseteq Nat
                            /\ Resyncs \subseteq Int /\ Increments \subseteq Int

VARIABLES
    authored,    \* defs: name -> slots its units will need, or NIL
    compiled,    \* name -> compiled definition, or NIL
    defIds,      \* name -> id, or NIL
    poolSlots,   \* id -> slots of the definition last sent for it
    retiring,    \* Seq of <<definition, id to give back or NIL>>
    freeIds,     \* stack of ids to use again
    nextDefId,
    schedule,    \* time commands are sent for, NIL = at once
    call,        \* the creation synth_new has yet to push, or NIL
    ring,        \* commands on their way
    table,       \* the World's def table: id -> definition, or NIL
    sched, buftime, increment,
    synths,      \* node -> definition its graph holds, or NIL
    phase,       \* "idle", "intake" or "due"
    trash,       \* number of tables in the trash ring
    pending,     \* number of tables in the trash backlog
    compiles, calls

ctl  == <<authored, compiled, defIds, poolSlots, retiring, freeIds, nextDefId, schedule, call>>
rt   == <<table, sched, buftime, increment, synths, phase>>
junk == <<trash, pending>>
vars == <<ctl, ring, rt, junk, compiles, calls>>

Ids == 0 .. MaxSynthDefs - 1

Init == /\ authored = [n \in Names |-> NIL]
        /\ compiled = [n \in Names |-> NIL]
        /\ defIds = [n \in Names |-> NIL]
        /\ poolSlots = [i \in Ids |-> 0]
        /\ retiring = <<>> /\ freeIds = <<>> /\ nextDefId = 0
        /\ schedule = NIL /\ call = NIL
        /\ ring = <<>>
        /\ table = [i \in Ids |-> NIL]
        /\ sched = <<>> /\ buftime = 0 /\ increment = NominalIncrement
        /\ synths = [n \in Nodes |-> NIL]
        /\ phase = "idle"
        /\ trash = 0 /\ pending = 0
        /\ compiles = 0 /\ calls = 0

----------------------------------------------------------------------------
(* Arc::strong_count: the holders of a definition, on both sides.          *)

InRing(d)    == {k \in DOMAIN ring : ring[k].op = "define" /\ ring[k].def = d}
InTable(d)   == {i \in Ids : table[i] = d}
InSynths(d)  == {n \in Nodes : synths[n] = d}
InControl(d) == {n \in Names : compiled[n] = d}
InRetired(d) == {k \in DOMAIN retiring : retiring[k][1] = d}

StrongCount(d) == Cardinality(InRing(d)) + Cardinality(InTable(d)) + Cardinality(InSynths(d))
                  + Cardinality(InControl(d)) + Cardinality(InRetired(d))

----------------------------------------------------------------------------
(* The Controller.                                                         *)

HasRoom(n) == Len(ring) + n <= RingCap

DefineCmd(id, d)    == [op |-> "define", time |-> NIL, id |-> id, def |-> d]
FreeDefCmd(id)      == [op |-> "freedef", time |-> NIL, id |-> id]
FreeCmd(node, time) == [op |-> "free", time |-> time, node |-> node]
ClearCmd            == [op |-> "clear", time |-> NIL]
\* meant: the definition the caller names, for the properties alone.
AddCmd(node, id, aux, meant, time) ==
    [op |-> "add", time |-> time, node |-> node, id |-> id, aux |-> aux, meant |-> meant]

Count == calls < MaxCalls /\ calls' = calls + 1

\* Vec::retain: the members of s that are in S, in their order.
Retained(s, S) ==
    LET kept[k \in 0 .. Len(s)] ==
            IF k = 0 THEN <<>>
            ELSE IF s[k] \in S THEN Append(kept[k - 1], s[k]) ELSE kept[k - 1]
    IN  kept[Len(s)]

\* reap_retired_defs on the list of retired definitions, with ids the stack of
\* free ids: what only the list still holds goes, and gives its id back.
Reap(list, ids) ==
    LET gone == {e \in ToSet(list) : StrongCount(e[1]) <= 1}
        back == Retained(list, {e \in gone : e[2] # NIL})
    IN  /\ retiring' = Retained(list, ToSet(list) \ gone)
        /\ freeIds' = ids \o [k \in DOMAIN back |-> back[k][2]]

\* Mutant: a redefinition that forgets the old form at once.
RetireForgotten(n, id) == retiring

\* An Arc that moves from compiled to retiring keeps its count.
Retire(n, id) == IF compiled[n] = NIL THEN retiring ELSE Append(retiring, <<compiled[n], id>>)

ReapRetiredDefs == /\ retiring # <<>>
                   /\ Reap(retiring, freeIds)
                   /\ UNCHANGED <<authored, compiled, defIds, poolSlots, nextDefId, schedule, call,
                                  ring, rt, junk, compiles, calls>>

InsertDef(n, slots) ==
    /\ call = NIL
    /\ Count
    /\ authored' = [authored EXCEPT ![n] = slots]
    /\ compiled' = [compiled EXCEPT ![n] = NIL]
    /\ Reap(Retire(n, NIL), freeIds)
    /\ UNCHANGED <<defIds, poolSlots, nextDefId, schedule, call, ring, rt, junk, compiles>>

FreeDef(n) ==
    LET id == defIds[n]
    IN  /\ call = NIL
        /\ authored[n] # NIL
        /\ Count
        /\ id # NIL => HasRoom(1)
        /\ ring' = IF id = NIL THEN ring ELSE Append(ring, FreeDefCmd(id))
        /\ authored' = [authored EXCEPT ![n] = NIL]
        /\ compiled' = [compiled EXCEPT ![n] = NIL]
        /\ defIds' = [defIds EXCEPT ![n] = NIL]
        /\ Reap(Retire(n, id),
                IF compiled[n] = NIL /\ id # NIL THEN Append(freeIds, id) ELSE freeIds)
        /\ UNCHANGED <<poolSlots, nextDefId, schedule, call, rt, junk, compiles>>

\* compiled_def's choice of an id: the name's own, a freed one, a new one.
IdFor(n) == IF defIds[n] # NIL THEN defIds[n]
            ELSE IF freeIds # <<>> THEN Last(freeIds)
            ELSE IF nextDefId < MaxSynthDefs THEN nextDefId
            ELSE NIL

\* Mutant: the compiled form is kept although its push was refused.
CompileDefUnsent(n, next) ==
    LET id == IdFor(n)
        d  == [name |-> n, serial |-> compiles, slots |-> authored[n]]
    IN  /\ authored[n] # NIL /\ compiled[n] = NIL
        /\ compiles < MaxCompiles
        /\ compiles' = compiles + 1
        /\ id # NIL
        /\ defIds' = [defIds EXCEPT ![n] = id]
        /\ freeIds' = IF defIds[n] = NIL /\ freeIds # <<>> THEN Front(freeIds) ELSE freeIds
        /\ nextDefId' = IF defIds[n] = NIL /\ freeIds = <<>> THEN nextDefId + 1 ELSE nextDefId
        /\ ring' = IF HasRoom(1) THEN Append(ring, DefineCmd(id, d)) ELSE ring
        /\ poolSlots' = [poolSlots EXCEPT ![id] = d.slots]
        /\ compiled' = [compiled EXCEPT ![n] = d]
        /\ call' = next
        /\ UNCHANGED <<authored, retiring, schedule, rt, junk>>

\* compiled_def for a name that has no compiled form. The id is assigned
\* before the push, and stays assigned when the push is refused.
CompileDef(n, next) ==
    LET id == IdFor(n)
        d  == [name |-> n, serial |-> compiles, slots |-> authored[n]]
    IN  /\ authored[n] # NIL /\ compiled[n] = NIL
        /\ compiles < MaxCompiles
        /\ compiles' = compiles + 1
        /\ id # NIL
        /\ defIds' = [defIds EXCEPT ![n] = id]
        /\ freeIds' = IF defIds[n] = NIL /\ freeIds # <<>> THEN Front(freeIds) ELSE freeIds
        /\ nextDefId' = IF defIds[n] = NIL /\ freeIds = <<>> THEN nextDefId + 1 ELSE nextDefId
        /\ IF HasRoom(1)
           THEN /\ ring' = Append(ring, DefineCmd(id, d))
                /\ poolSlots' = [poolSlots EXCEPT ![id] = d.slots]
                /\ compiled' = [compiled EXCEPT ![n] = d]
                /\ call' = next
           ELSE UNCHANGED <<ring, poolSlots, compiled, call>>
        /\ UNCHANGED <<authored, retiring, schedule, rt, junk>>

EnsureCompiled(n) == call = NIL /\ Count /\ CompileDef(n, NIL)

\* synth_new: the definition first, then the creation in a step of its own.
SynthNew(n, node) ==
    /\ call = NIL
    /\ Count
    /\ \/ CompileDef(n, [name |-> n, node |-> node])
       \/ /\ compiled[n] # NIL
          /\ call' = [name |-> n, node |-> node]
          /\ UNCHANGED <<authored, compiled, defIds, poolSlots, retiring, freeIds, nextDefId, schedule,
                         ring, rt, junk, compiles>>

SynthNewSend ==
    /\ call # NIL
    /\ ring' = IF HasRoom(1)
               THEN Append(ring, AddCmd(call.node, defIds[call.name], compiled[call.name].slots,
                                        compiled[call.name], schedule))
               ELSE ring
    /\ call' = NIL
    /\ UNCHANGED <<authored, compiled, defIds, poolSlots, retiring, freeIds, nextDefId, schedule,
                   rt, junk, compiles, calls>>

\* A batch frees one node and creates another, all or none. The caller has
\* the id from ensure_compiled.
TrySendBatch(gone, n, node) ==
    /\ call = NIL
    /\ Count
    /\ compiled[n] # NIL
    /\ HasRoom(2)
    /\ ring' = ring \o << FreeCmd(gone, schedule),
                          AddCmd(node, defIds[n], poolSlots[defIds[n]], compiled[n], schedule) >>
    /\ UNCHANGED <<ctl, rt, junk, compiles>>

Send(cmd) == /\ call = NIL
             /\ Count
             /\ HasRoom(1)
             /\ ring' = Append(ring, cmd)
             /\ UNCHANGED <<ctl, rt, junk, compiles>>

ClearSched == Send(ClearCmd)

FreeNode(node) == Send(FreeCmd(node, schedule))

BeginScheduled(t) == /\ call = NIL /\ schedule = NIL
                     /\ calls < MaxCalls
                     /\ schedule' = t
                     /\ UNCHANGED <<authored, compiled, defIds, poolSlots, retiring, freeIds, nextDefId,
                                    call, ring, rt, junk, compiles, calls>>

EndScheduled == /\ call = NIL /\ schedule # NIL
                /\ schedule' = NIL
                /\ UNCHANGED <<authored, compiled, defIds, poolSlots, retiring, freeIds, nextDefId,
                               call, ring, rt, junk, compiles, calls>>

----------------------------------------------------------------------------
(* The World. An allocation table without slots owns no heap.              *)

Trashed(aux) ==
    LET n == IF aux > 0 THEN 1 ELSE 0
        fit == IF trash + n <= TrashCap THEN n ELSE 0
    IN  /\ trash' = trash + fit
        /\ pending' = pending + n - fit

BacklogsFlushed == pending = 0

Live == {n \in Nodes : synths[n] # NIL}

\* add_synth: no definition under the id, a table of another size, a node id
\* in use or a full tree fail the creation and retire its table.
Accepts(cmd) == /\ table[cmd.id] # NIL
                /\ cmd.aux = table[cmd.id].slots
                /\ synths[cmd.node] = NIL
                /\ Cardinality(Live) < MaxNodes

AddSynth(cmd) == IF Accepts(cmd)
                 THEN synths' = [synths EXCEPT ![cmd.node] = table[cmd.id]] /\ UNCHANGED junk
                 ELSE Trashed(cmd.aux) /\ UNCHANGED synths

ReleaseSynth(node) ==
    IF synths[node] = NIL
    THEN UNCHANGED <<synths, junk>>
    ELSE /\ synths' = [synths EXCEPT ![node] = NIL]
         /\ Trashed(synths[node].slots)

SetTable(id, def) == table' = [table EXCEPT ![id] = def] /\ UNCHANGED <<synths, junk>>

Apply(cmd) == \/ cmd.op = "define" /\ SetTable(cmd.id, cmd.def)
              \/ cmd.op = "freedef" /\ SetTable(cmd.id, NIL)
              \/ cmd.op = "free" /\ ReleaseSynth(cmd.node) /\ UNCHANGED table
              \/ cmd.op = "add" /\ AddSynth(cmd) /\ UNCHANGED table

\* /clearSched retires the tables of the creations it discards, one by one.
ClearHeap ==
    LET n == Cardinality({k \in DOMAIN sched : sched[k].op = "add" /\ sched[k].aux > 0})
        fit == IF trash + n <= TrashCap THEN n ELSE TrashCap - trash
    IN  /\ trash' = trash + fit
        /\ pending' = pending + n - fit
        /\ sched' = <<>>

StartBlock ==
    /\ phase = "idle"
    /\ buftime < MaxTime
    /\ phase' = "intake"
    /\ LET fit == IF trash + pending <= TrashCap THEN pending ELSE TrashCap - trash
       IN  trash' = trash + fit /\ pending' = pending - fit
    /\ UNCHANGED <<ctl, ring, table, sched, buftime, increment, synths, compiles, calls>>

\* fill_duplex_at before the blocks of a callback: the host's time, and the
\* increment its rate filter gives.
Resync(t, inc) ==
    /\ phase = "idle"
    /\ t # buftime \/ inc # increment
    /\ buftime' = t
    /\ increment' = inc
    /\ UNCHANGED <<ctl, ring, table, sched, synths, phase, junk, compiles, calls>>

\* drain_commands, one pop.
Intake ==
    /\ phase = "intake"
    /\ BacklogsFlushed /\ ring # <<>>
    /\ ring' = Tail(ring)
    /\ LET cmd == Head(ring)
       IN  IF cmd.time # NIL /\ ~SchedFull(sched)
           THEN sched' = SchedPush(sched, cmd) /\ UNCHANGED <<table, synths, junk>>
           ELSE \/ Apply(cmd) /\ UNCHANGED sched
                \/ cmd.op = "clear" /\ ClearHeap /\ UNCHANGED <<table, synths>>
    /\ UNCHANGED <<ctl, buftime, increment, phase, compiles, calls>>

IntakeDone ==
    /\ phase = "intake"
    /\ ~BacklogsFlushed \/ ring = <<>>
    /\ phase' = "due"
    /\ UNCHANGED <<ctl, ring, table, sched, buftime, increment, synths, junk, compiles, calls>>

IsDue == BacklogsFlushed /\ sched # <<>> /\ Head(sched).time <= BlockEnd(buftime, increment)

\* apply_due_scheduled, one pop.
ApplyDue ==
    /\ phase = "due"
    /\ IsDue
    /\ Apply(Head(sched))
    /\ sched' = Tail(sched)
    /\ UNCHANGED <<ctl, ring, buftime, increment, phase, compiles, calls>>

\* The walk, in which a synth may end by itself, and the clock's advance.
EndBlock ==
    /\ phase = "due"
    /\ ~IsDue
    /\ phase' = "idle"
    /\ buftime' = BlockEnd(buftime, increment)
    /\ \/ UNCHANGED <<synths, junk>>
       \/ \E node \in Live : ReleaseSynth(node)
    /\ UNCHANGED <<ctl, ring, table, sched, increment, compiles, calls>>

NrtProcess == /\ trash > 0
              /\ trash' = trash - 1
              /\ UNCHANGED <<ctl, ring, rt, pending, compiles, calls>>

Next == \/ ReapRetiredDefs
        \/ \E n \in Names, s \in SlotCounts : InsertDef(n, s)
        \/ \E n \in Names : FreeDef(n) \/ EnsureCompiled(n)
        \/ \E n \in Names, node \in Nodes : SynthNew(n, node)
        \/ SynthNewSend
        \/ \E n \in Names, gone, node \in Nodes : TrySendBatch(gone, n, node)
        \/ ClearSched
        \/ \E node \in Nodes : FreeNode(node)
        \/ \E t \in Times : BeginScheduled(t)
        \/ EndScheduled
        \/ StartBlock
        \/ \E t \in Resyncs, inc \in Increments : Resync(t, inc)
        \/ Intake \/ IntakeDone \/ ApplyDue \/ EndBlock
        \/ NrtProcess

Spec == Init /\ [][Next]_vars

----------------------------------------------------------------------------
(* What must hold.                                                         *)

Owners(id) == Cardinality({n \in Names : defIds[n] = id})
              + Cardinality({k \in DOMAIN freeIds : freeIds[k] = id})
              + Cardinality({k \in DOMAIN retiring : retiring[k][2] = id})

\* Every id handed out so far belongs to one name, or waits with one retired
\* definition, or is free, and never to two of them: redefinitions, frees,
\* refused pushes and reaping neither lose an id nor give it to two
\* definitions (compiled_def, free_def, reap_retired_defs).
IdsPartition == \A id \in Ids : Owners(id) = IF id < nextDefId THEN 1 ELSE 0

HeldByWorld == {ring[k].def : k \in {j \in DOMAIN ring : ring[j].op = "define"}}
               \cup {table[i] : i \in Ids} \cup {synths[n] : n \in Nodes}

\* The Controller holds every definition that the ring, the table or a graph
\* holds, so the audio thread never drops the last reference and frees one
\* (the promise of reap_retired_defs).
FreedByController ==
    \A d \in HeldByWorld \ {NIL} : InControl(d) \cup InRetired(d) # {}

\* What the table will hold under id when the k-th command of the ring is
\* applied.
ResidentAt(id, k) ==
    LET installs == {j \in 1 .. k - 1 : ring[j].op \in {"define", "freedef"} /\ ring[j].id = id}
        last == ring[CHOOSE j \in installs : \A i \in installs : i <= j]
    IN  IF installs = {} THEN table[id] ELSE IF last.op = "define" THEN last.def ELSE NIL

\* The creation meets the definition its caller named when the k-th command of
\* the ring is the next to apply; whenever between there and the ring's end.
Finds(cmd, k) == ResidentAt(cmd.id, k) = cmd.meant /\ cmd.aux = cmd.meant.slots
FindsFrom(cmd, k) == \A j \in k .. Len(ring) + 1 : Finds(cmd, j)

\* The definition it names is still the compiled form of its name.
Stands(cmd) == compiled[cmd.meant.name] = cmd.meant

\* A creation sent to take effect at once finds the very definition the
\* caller named, and its allocation table has that definition's size,
\* whatever is redefined or freed before and after it in the ring. So does one
\* that waits for its time, in the ring or in the heap, as long as its
\* definition stands. Of one whose definition was freed or redefined before
\* its time nothing is said: it names the id, and builds what the id means by
\* then, a definition of another name if the id was given back and used again.
CreatesFindTheirDef ==
    /\ \A k \in DOMAIN ring :
          ring[k].op = "add" => /\ ring[k].time = NIL => Finds(ring[k], k)
                                /\ Stands(ring[k]) => FindsFrom(ring[k], k)
    /\ \A k \in DOMAIN sched :
          sched[k].op = "add" /\ Stands(sched[k]) => FindsFrom(sched[k], 1)

\* Redefining and freeing are safe while creations are on their way: no id
\* has two owners, and each creation, at once or later, meets the definition
\* it was made from, unless that was given up before its time.
IdsMeanOneDef == IdsPartition /\ CreatesFindTheirDef

Distance(a, b) == IF a < b THEN b - a ELSE a - b

\* A command that is not late lands within a sample of its time, or of what
\* the rate filter lengthened the block by (apply_due_scheduled, block_offset).
LandsInTime ==
    phase = "due" /\ IsDue /\ Head(sched).time >= buftime =>
        Distance(BlockOffset(buftime, Head(sched).time) * UnitsPerSample,
                 Head(sched).time - buftime)
          <= UnitsPerSample + Distance(increment, NominalIncrement)
====
