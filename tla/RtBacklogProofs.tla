-------------------------- MODULE RtBacklogProofs --------------------------
(***************************************************************************)
(* Proofs about RtBacklog, for every number of nodes, buffers, scheduled   *)
(* commands, ring slots and boxes.                                         *)
(***************************************************************************)
EXTENDS RtBacklog, FiniteSetTheorems, SequenceTheorems, TLAPS

-----------------------------------------------------------------------------
(* Lemmas about the operators.                                             *)

(* The boxes carried by a sequence of commands are no more than it has     *)
(* entries: what /clearSched can trash is bounded by the scheduler.        *)
LEMMA BoxesInBound ==
    ASSUME NEW s \in Seq(Command)
    PROVE  /\ BoxesIn(s) \subseteq Box
           /\ IsFiniteSet(BoxesIn(s))
           /\ Cardinality(BoxesIn(s)) <= Len(s)
<1> DEFINE D == {i \in 1..Len(s) : s[i].box # NoBox}
           f == [i \in D |-> s[i].box]
<1>1. DOMAIN s = 1..Len(s) /\ Len(s) \in Nat /\ \A i \in 1..Len(s) : s[i] \in Command
  OBVIOUS
<1>2. BoxesIn(s) \subseteq Box
  BY <1>1 DEF BoxesIn, Command
<1> HIDE DEF D, f
<1>3. IsFiniteSet(1..Len(s)) /\ Cardinality(1..Len(s)) = Len(s)
  <2>1. 1 \in Int /\ Len(s) \in Int
    BY <1>1
  <2>2. IsFiniteSet(1..Len(s))
        /\ Cardinality(1..Len(s)) = IF 1 > Len(s) THEN 0 ELSE Len(s) - 1 + 1
    BY <2>1, FS_Interval, Zenon
  <2> QED
    BY <1>1, <2>2
<1>4. IsFiniteSet(D) /\ Cardinality(D) <= Len(s)
  BY <1>3, FS_Subset DEF D
<1>5. f \in Surjection(D, BoxesIn(s))
  BY <1>1 DEF D, f, Surjection, BoxesIn
<1>6. IsFiniteSet(BoxesIn(s)) /\ Cardinality(BoxesIn(s)) <= Cardinality(D)
  BY <1>4, <1>5, FS_Surjection
<1>7. Cardinality(D) \in Nat /\ Cardinality(BoxesIn(s)) \in Nat
  BY <1>4, <1>6, FS_CardinalityType
<1> QED
  BY <1>1, <1>2, <1>4, <1>6, <1>7

(* Taking one command out of the scheduler leaves a shorter sequence of    *)
(* commands.                                                               *)
LEMMA RemoveAtType ==
    ASSUME NEW s \in Seq(Command), NEW i \in 1..Len(s)
    PROVE  /\ RemoveAt(s, i) \in Seq(Command)
           /\ Len(RemoveAt(s, i)) = Len(s) - 1
<1> DEFINE a == SubSeq(s, 1, i - 1)
           b == SubSeq(s, i + 1, Len(s))
<1>1. a \in Seq(Command) /\ Len(a) = i - 1
  OBVIOUS
<1>2. b \in Seq(Command) /\ Len(b) = Len(s) - i
  OBVIOUS
<1>3. RemoveAt(s, i) = a \o b
  BY DEF RemoveAt
<1> HIDE DEF a, b
<1>4. a \o b \in Seq(Command) /\ Len(a \o b) = Len(a) + Len(b)
  BY <1>1, <1>2, ConcatProperties
<1>5. Len(s) \in Nat /\ i \in Int
  OBVIOUS
<1>6. Len(a) + Len(b) = Len(s) - 1
  BY <1>1, <1>2, <1>5
<1> QED
  BY <1>3, <1>4, <1>6

(* Popping the newest entry of a backlog. *)
LEMMA FrontLast ==
    ASSUME NEW S, NEW s \in Seq(S), s # <<>>
    PROVE  /\ Front(s) \in Seq(S) /\ Len(Front(s)) = Len(s) - 1
           /\ Last(s) \in S
<1>1. Len(s) \in Nat \ {0} /\ \A i \in 1..Len(s) : s[i] \in S
  OBVIOUS
<1>2. \A i \in 1..Len(s) : /\ SubSeq(s, 1, i - 1) \in Seq(S)
                           /\ Len(SubSeq(s, 1, i - 1)) = i - 1
  OBVIOUS
<1>3. Len(s) \in 1..Len(s)
  BY <1>1
<1> QED
  BY <1>1, <1>2, <1>3 DEF Front, Last

(* The answers one operation composes are numbered replies. *)
LEMMA NextRepliesType ==
    ASSUME lastReply \in ReplyNumber, NEW n \in Nat
    PROVE  /\ NextReplies(n) \in Seq(ReplyNumber)
           /\ Len(NextReplies(n)) = n
           /\ (lastReply + n) % ReplyIds \in ReplyNumber
<1>1. \A m \in Nat : m % ReplyIds \in ReplyNumber
  BY ReplyAssumption DEF ReplyNumber
<1>2. lastReply \in Nat
  BY ReplyAssumption DEF ReplyNumber
<1>3. NextReplies(n) \in [1..n -> ReplyNumber]
  BY <1>1, <1>2 DEF NextReplies
<1>4. NextReplies(n) \in Seq(ReplyNumber) /\ Len(NextReplies(n)) = n
  BY <1>3
<1> QED
  BY <1>1, <1>2, <1>4

(* Sets of boxes are finite, so they can be counted. *)
LEMMA BoxSets ==
    ASSUME NEW S \in SUBSET Box
    PROVE  IsFiniteSet(S) /\ Cardinality(S) \in Nat
  BY BoxAssumption, FS_Subset, FS_CardinalityType

LEMMA SingleBox ==
    ASSUME NEW b \in Box
    PROVE  Cardinality({b}) = 1
  BY FS_Singleton

LEMMA NoBoxes == Cardinality({}) = 0
  BY FS_EmptySet

(* Taking G out of S neither creates nor loses a box. *)
LEMMA SplitBoxes ==
    ASSUME NEW S \in SUBSET Box, NEW G \in SUBSET S
    PROVE  Cardinality(S \ G) + Cardinality(G) = Cardinality(S)
<1>1. IsFiniteSet(S) /\ Cardinality(S) \in Nat /\ Cardinality(G) \in Nat
  BY BoxSets
<1>2. Cardinality(S \ G) = Cardinality(S) - Cardinality(S \cap G)
  BY <1>1, FS_Difference
<1>3. S \cap G = G
  OBVIOUS
<1>4. Cardinality(S \ G) = Cardinality(S) - Cardinality(G)
  BY <1>2, <1>3, Zenon
<1> HIDE <1>2
<1> QED
  BY <1>1, <1>4

LEMMA AddBox ==
    ASSUME NEW S \in SUBSET Box, NEW b \in Box
    PROVE  Cardinality(S \cup {b}) <= Cardinality(S) + 1
<1>1. IsFiniteSet(S) /\ Cardinality(S) \in Nat
  BY BoxSets
<1>2. Cardinality(S \cup {b}) = IF b \in S THEN Cardinality(S) ELSE Cardinality(S) + 1
  BY <1>1, FS_AddElement, Zenon
<1> QED
  BY <1>1, <1>2

LEMMA SlotBox ==
    ASSUME slots \in [0..(MaxBuffers - 1) -> Box \cup {NoBox}], NEW i \in DOMAIN slots
    PROVE  /\ {slots[i]} \ {NoBox} \in SUBSET Box
           /\ Cardinality({slots[i]} \ {NoBox}) <= 1
<1>1. CASE slots[i] = NoBox
  <2>1. {slots[i]} \ {NoBox} = {}
    BY <1>1
  <2> QED
    BY <2>1, NoBoxes
<1>2. CASE slots[i] # NoBox
  <2>1. {slots[i]} \ {NoBox} = {slots[i]} /\ slots[i] \in Box
    BY <1>2
  <2> QED
    BY <2>1, SingleBox
<1> QED
  BY <1>1, <1>2

-----------------------------------------------------------------------------
(* The invariant behind the bound on the trash backlog.                    *)

LEMMA CapacityType == SchedulerCapacity \in Nat /\ SchedulerCapacity >= 1
  BY OptionsAssumption DEF SchedulerCapacity, AtLeastOne

(* What handing over leaves behind. *)
LEMMA HandOverType ==
    ASSUME lastReply \in ReplyNumber, NEW boxes, NEW n \in Nat, NEW then,
           HandOver(boxes, n, then)
    PROVE  /\ pc' = "emit" /\ resume' = then /\ out' = boxes
           /\ answers' \in Seq(ReplyNumber) /\ lastReply' \in ReplyNumber
  BY NextRepliesType DEF HandOver

(* The world's tables are well formed and within their capacities. *)
WorldOK ==
    /\ slots \in [0..(MaxBuffers - 1) -> Box \cup {NoBox}]
    /\ writes \in SUBSET Box /\ Cardinality(writes) <= MaxBuffers
    /\ synths \in SUBSET Box /\ Cardinality(synths) <= MaxNodes - 1
    /\ paused \in SUBSET synths /\ traced \in SUBSET synths

(* The boxes that can reach the trash backlog without a new command. *)
Load == Cardinality(out) + Cardinality(synths) + Cardinality(writes)
LoadLimit == SchedulerCapacity + (MaxNodes - 1) + MaxBuffers

LEMMA Sizes ==
    ASSUME WorldOK
    PROVE  /\ Cardinality(synths) \in Nat /\ Cardinality(writes) \in Nat
           /\ MaxNodes \in Nat /\ MaxBuffers \in Nat
           /\ SchedulerCapacity \in Nat /\ SchedulerCapacity >= 1
  BY BoxSets, CapacityType, OptionsAssumption DEF WorldOK

(* A command that only releases boxes it holds itself, or that a slot or   *)
(* the scheduler held, adds no more of them than the scheduler can hold.   *)
LEMMA ReleaseAccounted ==
    ASSUME WorldOK, UNCHANGED <<synths, writes>>, out' \in SUBSET Box,
           Cardinality(out') <= SchedulerCapacity
    PROVE  Load' <= LoadLimit
<1>1. Cardinality(out') \in Nat
  BY BoxSets
<1> QED
  BY <1>1, Sizes DEF Load, LoadLimit, WorldOK

(* One command, applied when the gate is open, leaves at most as many      *)
(* boxes to hand over as the reserved capacity can absorb.                 *)
Accounted(then) ==
    /\ \E n \in Nat : HandOver(out', n, then)
    /\ out' \in SUBSET Box
    /\ WorldOK' /\ Load' <= LoadLimit

LEMMA InstallAccounted ==
    ASSUME WorldOK, NEW c \in Command, NEW then, Install(c, then)
    PROVE  Accounted(then)
<1>1. c.box \in Box
  BY DEF Install, Command, BoxOps, PlainOps
<1>2. out' \in SUBSET Box /\ Cardinality(out') <= 1
  BY <1>1, SlotBox, SingleBox DEF Install, HandOver, WorldOK
<1>3. HandOver(out', 0, then)
  BY DEF Install, HandOver
<1>4. WorldOK'
  BY <1>1 DEF Install, WorldOK
<1>5. Cardinality(out') <= SchedulerCapacity
  BY <1>2, BoxSets, Sizes
<1> QED
  BY <1>2, <1>3, <1>4, <1>5, ReleaseAccounted DEF Install, Accounted

LEMMA FreeSlotAccounted ==
    ASSUME WorldOK, NEW c \in Command, NEW then, FreeSlot(c, then)
    PROVE  Accounted(then)
<1>1. out' \in SUBSET Box /\ Cardinality(out') <= 1
  <2>1. CASE c.index \in DOMAIN slots
    <3>1. out' = {slots[c.index]} \ {NoBox}
      BY <2>1 DEF FreeSlot, HandOver
    <3> QED
      BY <2>1, <3>1, SlotBox DEF WorldOK
  <2>2. CASE c.index \notin DOMAIN slots
    <3>1. out' = {}
      BY <2>2 DEF FreeSlot, HandOver
    <3> QED
      BY <3>1, NoBoxes
  <2> QED
    BY <2>1, <2>2
<1>2. HandOver(out', 0, then)
  BY DEF FreeSlot, HandOver
<1>3. WorldOK'
  BY DEF FreeSlot, WorldOK
<1>4. Cardinality(out') <= SchedulerCapacity
  BY <1>1, BoxSets, Sizes
<1> QED
  BY <1>1, <1>2, <1>3, <1>4, ReleaseAccounted DEF FreeSlot, Accounted

LEMMA BeginWriteAccounted ==
    ASSUME WorldOK, NEW c \in Command, NEW then, BeginWrite(c, then)
    PROVE  Accounted(then)
<1>1. c.box \in Box
  BY DEF BeginWrite, Command, BoxOps, PlainOps
<1>2. CASE Cardinality(writes) < MaxBuffers
  <2>1. /\ writes' = writes \cup {c.box} /\ out' = {} /\ HandOver(out', 0, then)
        /\ UNCHANGED <<slots, synths, paused, traced>>
    BY <1>2 DEF BeginWrite, HandOver
  <2>2. /\ Cardinality(writes \cup {c.box}) <= Cardinality(writes) + 1
        /\ Cardinality(writes \cup {c.box}) \in Nat
    BY <1>1, AddBox, BoxSets DEF WorldOK
  <2>3. Cardinality(writes') <= MaxBuffers /\ Cardinality(writes') \in Nat
    BY <1>2, <2>1, <2>2, Sizes
  <2>4. WorldOK'
    BY <1>1, <2>1, <2>3 DEF WorldOK
  <2>5. Load' <= LoadLimit
    BY <2>1, <2>3, <2>4, Sizes, NoBoxes DEF Load, LoadLimit, WorldOK
  <2> QED
    BY <2>1, <2>4, <2>5 DEF Accounted
<1>3. CASE ~(Cardinality(writes) < MaxBuffers)
  <2>1. out' = {c.box} /\ HandOver(out', 0, then) /\ UNCHANGED worldVars
    BY <1>3 DEF BeginWrite, HandOver, worldVars
  <2>2. WorldOK'
    BY <2>1 DEF WorldOK, worldVars
  <2>3. Cardinality(out') <= SchedulerCapacity
    BY <1>1, <2>1, SingleBox, Sizes
  <2> QED
    BY <1>1, <2>1, <2>2, <2>3, ReleaseAccounted DEF Accounted, worldVars
<1> QED
  BY <1>2, <1>3

LEMMA SpliceAccounted ==
    ASSUME WorldOK, NEW c \in Command, NEW then, Splice(c, then)
    PROVE  Accounted(then)
<1>1. c.box \in Box /\ out' = {c.box} /\ HandOver(out', 0, then) /\ UNCHANGED worldVars
  BY DEF Splice, Command, BoxOps, PlainOps, HandOver
<1>2. WorldOK'
  BY <1>1 DEF WorldOK, worldVars
<1>3. Cardinality(out') <= SchedulerCapacity
  BY <1>1, SingleBox, Sizes
<1> QED
  BY <1>1, <1>2, <1>3, ReleaseAccounted DEF Accounted, worldVars

LEMMA AddSynthAccounted ==
    ASSUME WorldOK, NEW c \in Command, NEW then, AddSynth(c, then)
    PROVE  Accounted(then)
<1>1. c.box \in Box
  BY DEF AddSynth, Command, BoxOps, PlainOps
<1>2. CASE HandOver({c.box}, 0, then) /\ UNCHANGED <<synths, paused, traced>>
  <2>1. out' = {c.box} /\ HandOver(out', 0, then) /\ UNCHANGED worldVars
    BY <1>2 DEF AddSynth, HandOver, worldVars
  <2>2. WorldOK'
    BY <2>1 DEF WorldOK, worldVars
  <2>3. Cardinality(out') <= SchedulerCapacity
    BY <1>1, <2>1, SingleBox, Sizes
  <2> QED
    BY <1>1, <2>1, <2>2, <2>3, ReleaseAccounted DEF Accounted, worldVars
<1>3. ASSUME Cardinality(synths) < MaxNodes - 1, NEW replaced \in SUBSET synths,
             synths' = (synths \ replaced) \cup {c.box},
             paused' = paused \ replaced, traced' = traced \ replaced,
             HandOver(replaced, 0, then)
      PROVE  Accounted(then)
  <2>1. out' = replaced /\ HandOver(out', 0, then) /\ UNCHANGED <<slots, writes>>
    BY <1>3 DEF AddSynth, HandOver
  <2>2. Cardinality(synths \ replaced) + Cardinality(replaced) = Cardinality(synths)
    BY SplitBoxes DEF WorldOK
  <2>3. Cardinality(synths') <= Cardinality(synths \ replaced) + 1
    BY <1>1, <1>3, AddBox DEF WorldOK
  <2>4. /\ Cardinality(replaced) \in Nat /\ Cardinality(synths \ replaced) \in Nat
        /\ Cardinality(synths') \in Nat
    BY <1>1, <1>3, BoxSets DEF WorldOK
  <2>5. Cardinality(replaced) + Cardinality(synths') <= MaxNodes - 1
    BY <1>3, <2>2, <2>3, <2>4, Sizes
  <2>6. WorldOK'
    BY <1>1, <1>3, <2>1, <2>4, <2>5, Sizes DEF WorldOK
  <2>7. Load' <= LoadLimit
    BY <2>1, <2>4, <2>5, Sizes DEF Load, LoadLimit, WorldOK
  <2> QED
    BY <2>1, <2>6, <2>7 DEF Accounted, WorldOK
<1> QED
  BY <1>2, <1>3 DEF AddSynth

(* Synths leave the tree: what they held is still counted, in "out". *)
LEMMA GoneAccounted ==
    ASSUME WorldOK, NEW gone \in SUBSET synths, NEW n \in Nat, NEW then,
           synths' = synths \ gone, paused' \in SUBSET synths', traced' \in SUBSET synths',
           UNCHANGED <<slots, writes>>, HandOver(gone, n, then)
    PROVE  /\ Accounted(then)
           /\ Load' = Cardinality(synths) + Cardinality(writes)
<1>1. out' = gone
  BY DEF HandOver
<1>2. Cardinality(synths \ gone) + Cardinality(gone) = Cardinality(synths)
  BY SplitBoxes DEF WorldOK
<1>3. Cardinality(gone) \in Nat /\ Cardinality(synths \ gone) \in Nat
  BY BoxSets DEF WorldOK
<1>4. WorldOK'
  BY <1>2, <1>3, Sizes DEF WorldOK
<1>5. Load' = Cardinality(synths) + Cardinality(writes)
  BY <1>1, <1>2, <1>3, Sizes DEF Load
<1>6. Load' <= LoadLimit
  BY <1>5, Sizes DEF LoadLimit, WorldOK
<1> QED
  BY <1>1, <1>4, <1>5, <1>6 DEF Accounted, WorldOK

LEMMA FreeNodesAccounted ==
    ASSUME WorldOK, NEW c \in Command, NEW then, FreeNodes(c, then)
    PROVE  Accounted(then)
<1>1. PICK gone \in SUBSET synths :
         /\ synths' = synths \ gone /\ paused' = paused \ gone
         /\ traced' = traced \ gone /\ HandOver(gone, 0, then)
  BY DEF FreeNodes
<1>2. paused' \in SUBSET synths' /\ traced' \in SUBSET synths'
  BY <1>1 DEF WorldOK
<1> QED
  BY <1>1, <1>2, GoneAccounted DEF FreeNodes

(* Commands without a box. *)
LEMMA NothingReleased ==
    ASSUME WorldOK, NEW n \in Nat, NEW then, out' = {}, HandOver(out', n, then),
           slots' = slots, writes' = writes, synths' = synths,
           paused' \in SUBSET synths, traced' \in SUBSET synths
    PROVE  Accounted(then)
<1>1. WorldOK'
  BY DEF WorldOK
<1>2. Cardinality(out') <= SchedulerCapacity
  BY <1>1, NoBoxes, Sizes
<1> QED
  BY <1>1, <1>2, ReleaseAccounted DEF Accounted

LEMMA ClearAccounted ==
    ASSUME WorldOK, NEW held \in Seq(Command), Len(held) <= SchedulerCapacity,
           NEW then, HandOver(BoxesIn(held), 0, then), UNCHANGED worldVars
    PROVE  Accounted(then)
<1>1. out' = BoxesIn(held) /\ HandOver(out', 0, then) /\ WorldOK'
  BY DEF HandOver, WorldOK, worldVars
<1>2. /\ BoxesIn(held) \in SUBSET Box /\ Cardinality(BoxesIn(held)) <= Len(held)
      /\ Cardinality(BoxesIn(held)) \in Nat /\ Len(held) \in Nat
  BY BoxesInBound, BoxSets
<1>3. Cardinality(out') <= SchedulerCapacity
  BY <1>1, <1>2, Sizes
<1> QED
  BY <1>1, <1>2, <1>3, ReleaseAccounted DEF Accounted, worldVars

LEMMA ApplyAccounted ==
    ASSUME WorldOK, NEW c \in Command, NEW held \in Seq(Command),
           Len(held) <= SchedulerCapacity, NEW then, Apply(c, held, then)
    PROVE  /\ Accounted(then)
           /\ sched' \in Seq(Command) /\ Len(sched') <= SchedulerCapacity
<1>1. ASSUME Query(c, then) PROVE Accounted(then)
  <2>1. PICK n \in 1..TreeCapacity : out' = {} /\ HandOver(out', n, then)
    BY <1>1 DEF Query, HandOver
  <2>2. n \in Nat
    BY <2>1, ReplyAssumption
  <2>3. slots' = slots /\ writes' = writes /\ synths' = synths
        /\ UNCHANGED <<paused, traced>>
    BY <1>1 DEF Query, worldVars
  <2>4. paused' \in SUBSET synths /\ traced' \in SUBSET synths
    BY <2>3 DEF WorldOK
  <2> QED
    BY <2>1, <2>2, <2>3, <2>4, NothingReleased
<1>2. ASSUME TraceNode(c, then) PROVE Accounted(then)
  <2>1. slots' = slots /\ writes' = writes /\ synths' = synths
        /\ 0 \in Nat /\ out' = {} /\ HandOver(out', 0, then)
    BY <1>2 DEF TraceNode, HandOver
  <2>2. paused' \in SUBSET synths /\ traced' \in SUBSET synths
    BY <1>2 DEF TraceNode, WorldOK
  <2> QED
    BY <2>1, <2>2, NothingReleased
<1>3. ASSUME NodeRun(c, then) PROVE Accounted(then)
  <2>1. slots' = slots /\ writes' = writes /\ synths' = synths
        /\ 0 \in Nat /\ out' = {} /\ HandOver(out', 0, then)
    BY <1>3 DEF NodeRun, HandOver
  <2>2. paused' \in SUBSET synths /\ traced' \in SUBSET synths
    BY <1>3 DEF NodeRun, WorldOK
  <2> QED
    BY <2>1, <2>2, NothingReleased
<1>4. ASSUME Flat(c, then) PROVE Accounted(then)
  <2>1. slots' = slots /\ writes' = writes /\ synths' = synths
        /\ UNCHANGED <<paused, traced>>
        /\ 0 \in Nat /\ out' = {} /\ HandOver(out', 0, then)
    BY <1>4 DEF Flat, worldVars, HandOver
  <2>2. paused' \in SUBSET synths /\ traced' \in SUBSET synths
    BY <2>1 DEF WorldOK
  <2> QED
    BY <2>1, <2>2, NothingReleased
<1>5. CASE c.op = "clear" /\ sched' = <<>> /\ HandOver(BoxesIn(held), 0, then)
           /\ UNCHANGED worldVars
  <2>1. Accounted(then)
    BY <1>5, ClearAccounted
  <2>2. sched' \in Seq(Command) /\ Len(sched') <= SchedulerCapacity
    BY <1>5, Sizes
  <2> QED
    BY <2>1, <2>2
<1>6. CASE /\ \/ Install(c, then) \/ FreeSlot(c, then) \/ BeginWrite(c, then)
              \/ Splice(c, then) \/ AddSynth(c, then) \/ FreeNodes(c, then)
              \/ Query(c, then) \/ TraceNode(c, then) \/ NodeRun(c, then)
              \/ Flat(c, then)
           /\ sched' = held
  <2>1. Accounted(then)
    BY <1>1, <1>2, <1>3, <1>4, <1>6, InstallAccounted, FreeSlotAccounted,
       BeginWriteAccounted, SpliceAccounted, AddSynthAccounted, FreeNodesAccounted
  <2> QED
    BY <1>6, <2>1
<1> QED
  BY <1>5, <1>6 DEF Apply

-----------------------------------------------------------------------------
(* TrashInv is inductive.                                                  *)

LEMMA TrashInvFacts ==
    ASSUME TrashInv
    PROVE  /\ TypeOK /\ WorldOK
           /\ Len(pendingTrash) \in Nat /\ Len(trashRing) \in Nat
           /\ Cardinality(out) \in Nat
           /\ Len(pendingTrash) + Load <= LoadLimit
<1>1. TypeOK /\ WorldOK
  BY DEF TrashInv, TypeOK, WorldOK
<1>2. Len(pendingTrash) \in Nat /\ Len(trashRing) \in Nat /\ Cardinality(out) \in Nat
  BY <1>1, BoxSets DEF TypeOK
<1>3. Len(pendingTrash) + Load <= LoadLimit
  BY <1>1, <1>2, Sizes DEF TrashInv, Load, LoadLimit
<1> QED
  BY <1>1, <1>2, <1>3

(* The converse, for the state after a step. *)
LEMMA TrashInvFrom ==
    ASSUME TypeOK', WorldOK', pc' # "emit" => out' = {} /\ answers' = <<>>,
           Len(pendingTrash') + Load' <= LoadLimit
    PROVE  TrashInv'
<1>1. Len(pendingTrash') \in Nat /\ Cardinality(out') \in Nat
  BY BoxSets DEF TypeOK
<1>2. Cardinality(synths') \in Nat /\ Cardinality(writes') \in Nat
  BY BoxSets DEF WorldOK
<1>3. Len(pendingTrash') + Cardinality(out') + Cardinality(synths') + Cardinality(writes')
         <= LoadLimit
  BY <1>1, <1>2, Sizes DEF Load
<1> QED
  BY <1>3 DEF TrashInv, WorldOK, LoadLimit

(* An operation that hands over. *)
LEMMA HandedOver ==
    ASSUME TrashInv, NEW then \in {"intake", "due", "drive", "flushTrash"},
           Accounted(then), Len(pendingTrash) + Load' <= LoadLimit,
           trashRing' = trashRing, pendingTrash' = pendingTrash, UNCHANGED replyVars,
           cmdRing' \in Seq(Command), Len(cmdRing') <= CommandCapacity,
           sched' \in Seq(Command), Len(sched') <= SchedulerCapacity
    PROVE  TrashInv'
<1>1. PICK n \in Nat : HandOver(out', n, then)
  BY DEF Accounted
<1>2. /\ pc' = "emit" /\ resume' = then
      /\ answers' \in Seq(ReplyNumber) /\ lastReply' \in ReplyNumber
  BY <1>1, HandOverType DEF TrashInv, TypeOK
<1>3. TypeOK'
  BY <1>2 DEF TypeOK, TrashInv, Accounted, WorldOK, replyVars
<1> QED
  BY <1>2, <1>3, TrashInvFrom DEF Accounted

(* A step that leaves the heap and what is to be handed over alone. *)
LEMMA HeapUnchanged ==
    ASSUME TrashInv, TypeOK', UNCHANGED <<worldVars, out, answers, pendingTrash>>,
           pc = "emit" => pc' = "emit" \/ (out = {} /\ answers = <<>>)
    PROVE  TrashInv'
<1>1. WorldOK'
  BY TrashInvFacts DEF WorldOK, worldVars
<1>2. Len(pendingTrash') + Load' <= LoadLimit
  BY TrashInvFacts DEF Load, worldVars
<1>3. pc' # "emit" => out' = {} /\ answers' = <<>>
  BY DEF TrashInv
<1> QED
  BY <1>1, <1>2, <1>3, TrashInvFrom

LEMMA TrashInvInit == Init => TrashInv
<1> SUFFICES ASSUME Init PROVE TrashInv
  OBVIOUS
<1>1. TypeOK
  BY OptionsAssumption, RingAssumption, ReplyAssumption, CapacityType
     DEF Init, TypeOK, ReplyNumber
<1>2. Cardinality(out) = 0 /\ Cardinality(synths) = 0 /\ Cardinality(writes) = 0
  BY NoBoxes DEF Init
<1>3. Len(pendingTrash) = 0 /\ out = {} /\ answers = <<>>
  BY DEF Init
<1> QED
  BY <1>1, <1>2, <1>3, OptionsAssumption, CapacityType DEF TrashInv

(* The two flushes at the start of a block move a box or an answer from    *)
(* the backlog to its ring.                                                *)
LEMMA FlushTrashKeeps == TrashInv /\ FlushTrash => TrashInv'
<1> SUFFICES ASSUME TrashInv, FlushTrash PROVE TrashInv'
  OBVIOUS
<1>1. out' = out /\ UNCHANGED worldVars /\ WorldOK /\ WorldOK'
  BY TrashInvFacts DEF FlushTrash, emitVars, worldVars, WorldOK
<1>2. /\ pendingTrash \in Seq(Box)
      /\ trashRing \in Seq(Box) /\ Len(trashRing) <= TrashCapacity
  BY DEF TrashInv, TypeOK
<1>3. /\ pendingTrash' \in Seq(Box) /\ Len(pendingTrash') <= Len(pendingTrash)
      /\ trashRing' \in Seq(Box) /\ Len(trashRing') <= TrashCapacity
  <2>1. CASE pendingTrash # <<>> /\ Len(trashRing) < TrashCapacity
    <3>1. /\ trashRing' = Append(trashRing, Last(pendingTrash))
          /\ pendingTrash' = Front(pendingTrash)
      BY <1>2, <2>1, RingAssumption DEF FlushTrash
    <3>2. /\ Last(pendingTrash) \in Box /\ Front(pendingTrash) \in Seq(Box)
          /\ Len(Front(pendingTrash)) = Len(pendingTrash) - 1
      BY <1>2, <2>1, FrontLast
    <3>3. trashRing' \in Seq(Box) /\ Len(trashRing') = Len(trashRing) + 1
      BY <1>2, <3>1, <3>2
    <3> QED
      BY <1>2, <2>1, <3>1, <3>2, <3>3, RingAssumption
  <2>2. CASE UNCHANGED trashVars
    BY <1>2, <2>2 DEF trashVars
  <2> QED
    BY <2>1, <2>2 DEF FlushTrash
<1>4. TypeOK'
  BY <1>3 DEF FlushTrash, TrashInv, TypeOK, worldVars, intakeVars, replyVars, emitVars
<1>5. Len(pendingTrash') + Load' <= LoadLimit
  <2>1. Load' = Load /\ Load \in Nat /\ LoadLimit \in Int
    BY <1>1, TrashInvFacts, Sizes DEF Load, LoadLimit, worldVars
  <2>2. Len(pendingTrash') \in Nat /\ Len(pendingTrash) \in Nat
    BY <1>3, TrashInvFacts
  <2> QED
    BY <1>3, <2>1, <2>2, TrashInvFacts
<1>6. out' = {} /\ answers' = <<>>
  BY DEF FlushTrash, TrashInv, emitVars
<1> QED
  BY <1>1, <1>4, <1>5, <1>6, TrashInvFrom

LEMMA FlushRepliesKeeps == TrashInv /\ FlushReplies => TrashInv'
<1> SUFFICES ASSUME TrashInv, FlushReplies PROVE TrashInv'
  OBVIOUS
<1>1. /\ pendingReplies' \in Seq(ReplyNumber)
      /\ replyRing' \in Seq(ReplyNumber) /\ Len(replyRing') <= ReplyCapacity
  <2>1. /\ pendingReplies \in Seq(ReplyNumber)
        /\ replyRing \in Seq(ReplyNumber) /\ Len(replyRing) <= ReplyCapacity
    BY DEF TrashInv, TypeOK
  <2>2. CASE pendingReplies # <<>> /\ Len(replyRing) < ReplyCapacity
             /\ replyRing' = Append(replyRing, Head(pendingReplies))
             /\ pendingReplies' = Tail(pendingReplies)
    <3>1. Head(pendingReplies) \in ReplyNumber
      BY <2>1, <2>2
    <3>2. replyRing' \in Seq(ReplyNumber) /\ Len(replyRing') = Len(replyRing) + 1
      BY <2>1, <2>2, <3>1
    <3> QED
      BY <2>1, <2>2, <3>2, RingAssumption
  <2>3. CASE UNCHANGED replyVars
    BY <2>1, <2>3 DEF replyVars
  <2> QED
    BY <2>2, <2>3 DEF FlushReplies
<1>2. TypeOK'
  BY <1>1 DEF FlushReplies, TrashInv, TypeOK, worldVars, intakeVars, trashVars, emitVars
<1> QED
  BY <1>2, HeapUnchanged DEF FlushReplies, trashVars, emitVars

(* Steps of the other two threads, and steps that only move the block on. *)
LEMMA OthersKeep ==
    TrashInv /\ (Push \/ NrtDrop \/ NrtPollReply) => TrashInv'
<1>1. ASSUME TrashInv, Push PROVE TrashInv'
  <2>1. cmdRing' \in Seq(Command) /\ Len(cmdRing') <= CommandCapacity
    BY <1>1, RingAssumption DEF Push, TrashInv, TypeOK
  <2>2. TypeOK'
    BY <1>1, <2>1 DEF Push, TrashInv, TypeOK, worldVars, trashVars, replyVars, emitVars
  <2> QED
    BY <1>1, <2>2, HeapUnchanged DEF Push, trashVars, emitVars
<1>2. ASSUME TrashInv, NrtDrop PROVE TrashInv'
  <2>1. trashRing' \in Seq(Box) /\ Len(trashRing') <= TrashCapacity
    BY <1>2, RingAssumption DEF NrtDrop, TrashInv, TypeOK
  <2>2. TypeOK'
    BY <1>2, <2>1 DEF NrtDrop, TrashInv, TypeOK, worldVars, intakeVars, replyVars, emitVars
  <2> QED
    BY <1>2, <2>2, HeapUnchanged DEF NrtDrop, emitVars
<1>3. ASSUME TrashInv, NrtPollReply PROVE TrashInv'
  <2>1. replyRing' \in Seq(ReplyNumber) /\ Len(replyRing') <= ReplyCapacity
    BY <1>3, RingAssumption DEF NrtPollReply, TrashInv, TypeOK
  <2>2. TypeOK'
    BY <1>3, <2>1
       DEF NrtPollReply, TrashInv, TypeOK, worldVars, intakeVars, trashVars, emitVars
  <2> QED
    BY <1>3, <2>2, HeapUnchanged DEF NrtPollReply, trashVars, emitVars
<1> QED
  BY <1>1, <1>2, <1>3

LEMMA PhasesKeep ==
    TrashInv /\ (EndIntake \/ EndDue \/ EndEmit) => TrashInv'
<1> SUFFICES ASSUME TrashInv, EndIntake \/ EndDue \/ EndEmit PROVE TrashInv'
  OBVIOUS
<1>1. /\ UNCHANGED <<resume, worldVars, intakeVars, trashVars, replyVars, emitVars>>
      /\ pc' \in {"due", "walk", resume}
      /\ pc = "emit" => out = {} /\ answers = <<>>
  BY DEF EndIntake, EndDue, EndEmit
<1>2. TypeOK'
  BY <1>1 DEF TrashInv, TypeOK, worldVars, intakeVars, trashVars, replyVars, emitVars
<1> QED
  BY <1>1, <1>2, HeapUnchanged DEF trashVars, emitVars

(* A command applied from the ring or the scheduler: the gate is open, so  *)
(* nothing is waiting to be trashed.                                       *)
LEMMA CommandsKeep == TrashInv /\ (Intake \/ ApplyDue) => TrashInv'
<1>1. ASSUME TrashInv, Len(pendingTrash) = 0,
             NEW c \in Command, NEW held \in Seq(Command), Len(held) <= SchedulerCapacity,
             NEW then \in {"intake", "due"}, Apply(c, held, then),
             cmdRing' \in Seq(Command), Len(cmdRing') <= CommandCapacity,
             UNCHANGED <<trashVars, replyVars>>
      PROVE  TrashInv'
  <2>1. /\ Accounted(then)
        /\ sched' \in Seq(Command) /\ Len(sched') <= SchedulerCapacity
    BY <1>1, ApplyAccounted, TrashInvFacts
  <2>2. Load' \in Nat /\ Load' <= LoadLimit
    BY <2>1, BoxSets DEF Accounted, WorldOK, Load
  <2>3. Len(pendingTrash) + Load' <= LoadLimit
    BY <1>1, <2>2
  <2>4. then \in {"intake", "due", "drive", "flushTrash"}
    BY <1>1
  <2>5. trashRing' = trashRing /\ pendingTrash' = pendingTrash /\ UNCHANGED replyVars
    BY <1>1 DEF trashVars
  <2> QED
    BY <1>1, <2>1, <2>3, <2>4, <2>5, HandedOver
<1>2. ASSUME TrashInv, Intake PROVE TrashInv'
  <2>1. /\ cmdRing \in Seq(Command) /\ Len(cmdRing) <= CommandCapacity /\ cmdRing # <<>>
        /\ sched \in Seq(Command) /\ Len(sched) <= SchedulerCapacity
        /\ Len(pendingTrash) = 0
    BY <1>2 DEF Intake, BacklogsFlushed, TrashInv, TypeOK
  <2> DEFINE c == Head(cmdRing)
  <2>2. /\ c \in Command
        /\ cmdRing' \in Seq(Command) /\ Len(cmdRing') <= CommandCapacity
    BY <1>2, <2>1, RingAssumption DEF Intake
  <2>3. CASE c.timed /\ Len(sched) < SchedulerCapacity
    <3>1. sched' = Append(sched, c) /\ UNCHANGED <<pc, resume, worldVars, emitVars>>
      BY <1>2, <2>3 DEF Intake
    <3>2. sched' \in Seq(Command) /\ Len(sched') <= SchedulerCapacity
      BY <2>1, <2>2, <2>3, <3>1, CapacityType
    <3>3. TypeOK'
      BY <1>2, <2>2, <3>1, <3>2
         DEF Intake, TrashInv, TypeOK, worldVars, trashVars, replyVars, emitVars
    <3>4. UNCHANGED <<worldVars, out, answers, pendingTrash>>
      BY <1>2, <3>1 DEF Intake, trashVars, emitVars
    <3> QED
      BY <1>2, <3>1, <3>3, <3>4, HeapUnchanged
  <2>4. CASE Apply(c, sched, "intake")
    BY <1>1, <1>2, <2>1, <2>2, <2>4 DEF Intake
  <2> QED
    BY <1>2, <2>3, <2>4 DEF Intake
<1>3. ASSUME TrashInv, ApplyDue PROVE TrashInv'
  <2>1. /\ cmdRing' \in Seq(Command) /\ Len(cmdRing') <= CommandCapacity
        /\ sched \in Seq(Command) /\ Len(sched) <= SchedulerCapacity
        /\ Len(pendingTrash) = 0
    BY <1>3 DEF ApplyDue, BacklogsFlushed, TrashInv, TypeOK
  <2>2. PICK i \in 1..Len(sched) : Apply(sched[i], RemoveAt(sched, i), "due")
    BY <1>3 DEF ApplyDue
  <2>3. /\ sched[i] \in Command
        /\ RemoveAt(sched, i) \in Seq(Command)
        /\ Len(RemoveAt(sched, i)) <= SchedulerCapacity
    BY <2>1, <2>2, RemoveAtType, CapacityType
  <2> QED
    BY <1>1, <1>3, <2>1, <2>2, <2>3 DEF ApplyDue
<1> QED
  BY <1>2, <1>3

(* A box leaves "out" as it enters the ring or the backlog. *)
LEMMA TrashBoxKeeps == TrashInv /\ TrashBox => TrashInv'
<1> SUFFICES ASSUME TrashInv, TrashBox PROVE TrashInv'
  OBVIOUS
<1>1. PICK b \in out :
        /\ out' = out \ {b}
        /\ IF Len(trashRing) < TrashCapacity
           THEN trashRing' = Append(trashRing, b) /\ UNCHANGED pendingTrash
           ELSE pendingTrash' = Append(pendingTrash, b) /\ UNCHANGED trashRing
  BY DEF TrashBox
<1>2. out \in SUBSET Box /\ b \in Box /\ out' \in SUBSET Box
  BY <1>1 DEF TrashInv, TypeOK
<1>3. Cardinality(out') = Cardinality(out) - 1
  <2>1. {b} \in SUBSET out
    BY <1>1
  <2>2. /\ Cardinality(out \ {b}) + Cardinality({b}) = Cardinality(out)
        /\ Cardinality(out \ {b}) \in Nat /\ Cardinality(out) \in Nat
    BY <1>2, <2>1, SplitBoxes, BoxSets
  <2>3. Cardinality({b}) = 1
    BY <1>2, SingleBox
  <2> QED
    BY <1>1, <2>2, <2>3
<1>4. /\ pendingTrash' \in Seq(Box) /\ Len(pendingTrash') \in Nat
      /\ Len(pendingTrash') <= Len(pendingTrash) + 1
      /\ trashRing' \in Seq(Box) /\ Len(trashRing') <= TrashCapacity
  <2>1. /\ pendingTrash \in Seq(Box)
        /\ trashRing \in Seq(Box) /\ Len(trashRing) <= TrashCapacity
    BY DEF TrashInv, TypeOK
  <2>2. CASE /\ Len(trashRing) < TrashCapacity
             /\ trashRing' = Append(trashRing, b) /\ UNCHANGED pendingTrash
    BY <1>2, <2>1, <2>2, RingAssumption
  <2>3. CASE pendingTrash' = Append(pendingTrash, b) /\ UNCHANGED trashRing
    BY <1>2, <2>1, <2>3
  <2> QED
    BY <1>1, <2>2, <2>3
<1>5. TypeOK'
  BY <1>2, <1>4 DEF TrashBox, TrashInv, TypeOK, worldVars, intakeVars, replyVars
<1>6. UNCHANGED worldVars /\ WorldOK'
  BY TrashInvFacts DEF TrashBox, worldVars, WorldOK
<1>7. Len(pendingTrash') + Load' <= LoadLimit
  <2>1. Load' = Load - 1
    BY <1>3, <1>6, TrashInvFacts, Sizes DEF Load, worldVars
  <2>2. Load \in Nat /\ LoadLimit \in Int
    BY TrashInvFacts, Sizes DEF Load, LoadLimit
  <2> QED
    BY <1>4, <2>1, <2>2, TrashInvFacts
<1>8. pc' = "emit"
  BY DEF TrashBox
<1> QED
  BY <1>5, <1>6, <1>7, <1>8, TrashInvFrom

LEMMA SendReplyKeeps == TrashInv /\ SendReply => TrashInv'
<1> SUFFICES ASSUME TrashInv, SendReply PROVE TrashInv'
  OBVIOUS
<1>1. /\ answers \in Seq(ReplyNumber) /\ answers # <<>>
      /\ pendingReplies \in Seq(ReplyNumber)
      /\ replyRing \in Seq(ReplyNumber) /\ Len(replyRing) <= ReplyCapacity
  BY DEF SendReply, TrashInv, TypeOK
<1>2. Head(answers) \in ReplyNumber /\ answers' \in Seq(ReplyNumber)
  BY <1>1 DEF SendReply
<1>3. /\ pendingReplies' \in Seq(ReplyNumber)
      /\ replyRing' \in Seq(ReplyNumber) /\ Len(replyRing') <= ReplyCapacity
  <2>1. CASE /\ Len(replyRing) < ReplyCapacity
             /\ replyRing' = Append(replyRing, Head(answers)) /\ UNCHANGED pendingReplies
    BY <1>1, <1>2, <2>1, RingAssumption
  <2>2. CASE /\ pendingReplies' = Append(pendingReplies, Head(answers))
             /\ UNCHANGED replyRing
    BY <1>1, <1>2, <2>2
  <2> QED
    BY <2>1, <2>2 DEF SendReply
<1>4. TypeOK'
  BY <1>2, <1>3 DEF SendReply, TrashInv, TypeOK, worldVars, intakeVars, trashVars
<1>5. UNCHANGED worldVars /\ WorldOK'
  BY TrashInvFacts DEF SendReply, worldVars, WorldOK
<1>6. Len(pendingTrash') + Load' <= LoadLimit
  BY <1>5, TrashInvFacts DEF SendReply, Load, worldVars, trashVars
<1>7. pc' = "emit"
  BY DEF SendReply
<1> QED
  BY <1>4, <1>5, <1>6, <1>7, TrashInvFrom

(* Synths that end during the walk, and copies that finish, carry their    *)
(* boxes from the world to "out".                                          *)
LEMMA WalkKeeps == TrashInv /\ Walk => TrashInv'
<1> SUFFICES ASSUME TrashInv, Walk PROVE TrashInv'
  OBVIOUS
<1> DEFINE dumped == traced \ paused
           records == TraceLength * Cardinality(dumped)
           sent == IF records < TreeCapacity THEN records ELSE TreeCapacity
<1>1. /\ out = {} /\ cmdRing' = cmdRing /\ sched' = sched /\ UNCHANGED replyVars
      /\ trashRing' = trashRing /\ pendingTrash' = pendingTrash
      /\ UNCHANGED <<slots, writes>>
  BY DEF Walk, TrashInv, intakeVars, trashVars
<1>2. PICK gone \in SUBSET synths, off \in SUBSET synths, on \in SUBSET synths :
        /\ synths' = synths \ gone
        /\ paused' = ((paused \cup off) \ on) \ gone
        /\ traced' = (traced \ dumped) \ gone
        /\ HandOver(gone, sent, "drive")
  BY Zenon DEF Walk
<1>3. paused' \in SUBSET synths' /\ traced' \in SUBSET synths'
  BY <1>2, TrashInvFacts DEF WorldOK
<1>4. sent \in Nat
  <2>1. dumped \in SUBSET Box
    BY TrashInvFacts DEF WorldOK
  <2>2. Cardinality(dumped) \in Nat
    BY <2>1, BoxSets
  <2>3. records \in Nat
    BY <2>2, ReplyAssumption
  <2> QED
    BY <2>3, ReplyAssumption
<1> HIDE DEF sent
<1>5. Accounted("drive") /\ Load' = Cardinality(synths) + Cardinality(writes)
  BY <1>1, <1>2, <1>3, <1>4, GoneAccounted, TrashInvFacts
<1>6. Len(pendingTrash) + Load' <= LoadLimit
  BY <1>1, <1>5, TrashInvFacts, Sizes, NoBoxes DEF Load
<1> QED
  BY <1>1, <1>5, <1>6, HandedOver DEF TrashInv, TypeOK

LEMMA DriveWritesKeeps == TrashInv /\ DriveWrites => TrashInv'
<1> SUFFICES ASSUME TrashInv, DriveWrites PROVE TrashInv'
  OBVIOUS
<1>1. /\ out = {} /\ cmdRing' = cmdRing /\ sched' = sched /\ UNCHANGED replyVars
      /\ trashRing' = trashRing /\ pendingTrash' = pendingTrash
      /\ UNCHANGED <<slots, synths, paused, traced>>
  BY DEF DriveWrites, TrashInv, intakeVars, trashVars
<1>2. PICK done \in SUBSET writes :
        writes' = writes \ done /\ HandOver(done, 0, "flushTrash")
  BY DEF DriveWrites
<1>3. /\ done \in SUBSET Box /\ Cardinality(done) \in Nat
      /\ Cardinality(writes \ done) \in Nat
      /\ Cardinality(writes \ done) + Cardinality(done) = Cardinality(writes)
  BY TrashInvFacts, SplitBoxes, BoxSets DEF WorldOK
<1>4. out' = done /\ HandOver(out', 0, "flushTrash")
  BY <1>2 DEF HandOver
<1>5. WorldOK'
  BY <1>1, <1>2, <1>3, TrashInvFacts, Sizes, SMTT(30) DEF WorldOK
<1>6. Load' = Cardinality(synths) + Cardinality(writes)
  BY <1>1, <1>2, <1>3, <1>4, TrashInvFacts, Sizes DEF Load
<1>7. Len(pendingTrash) + Load' <= LoadLimit
  BY <1>1, <1>6, TrashInvFacts, Sizes, NoBoxes DEF Load
<1>8. Accounted("flushTrash")
  <2>1. Load' <= LoadLimit
    BY <1>6, <1>7, TrashInvFacts, Sizes DEF LoadLimit
  <2> QED
    BY <1>3, <1>4, <1>5, <2>1 DEF Accounted
<1> QED
  BY <1>1, <1>7, <1>8, HandedOver DEF TrashInv, TypeOK

LEMMA TrashInvStep == TrashInv /\ [Next]_vars => TrashInv'
<1> SUFFICES ASSUME TrashInv, [Next]_vars PROVE TrashInv'
  OBVIOUS
<1>1. CASE UNCHANGED vars
  BY <1>1 DEF TrashInv, TypeOK, vars, worldVars, intakeVars, trashVars, replyVars, emitVars
<1>2. CASE Push \/ NrtDrop \/ NrtPollReply
  BY <1>2, OthersKeep
<1>3. CASE Audio
  BY <1>3, FlushTrashKeeps, FlushRepliesKeeps, CommandsKeep, PhasesKeep, TrashBoxKeeps,
     SendReplyKeeps, WalkKeeps, DriveWritesKeeps DEF Audio
<1> QED
  BY <1>1, <1>2, <1>3 DEF Next

-----------------------------------------------------------------------------
(* Theorems.                                                               *)

(* The accounting of boxes holds throughout: whatever arrives, fails, ends *)
(* by itself or is never collected, the boxes that can still reach the     *)
(* trash backlog are no more than it was sized for.                        *)
THEOREM TrashInvariant == Spec => []TrashInv
<1>1. Init => TrashInv
  BY TrashInvInit
<1>2. TrashInv /\ [Next]_vars => TrashInv'
  BY TrashInvStep
<1> QED
  BY <1>1, <1>2, PTL DEF Spec

(* Every variable of the traffic keeps its type.                           *)
THEOREM TypeCorrect == Spec => []TypeOK
<1>1. TrashInv => TypeOK
  BY DEF TrashInv
<1> QED
  BY <1>1, TrashInvariant, PTL

(* World.pending_trash never outgrows the capacity World::new reserves for *)
(* it, for any number of nodes, buffers, scheduled commands and ring slots *)
(* and however slow the NRT thread is: no push to it reallocates.          *)
THEOREM TrashBounded == Spec => []PendingTrashBounded
<1>1. TrashInv => PendingTrashBounded
  <2> SUFFICES ASSUME TrashInv PROVE PendingTrashBounded
    OBVIOUS
  <2>1. LoadLimit <= PendingTrashCapacity
    BY OptionsAssumption
       DEF LoadLimit, PendingTrashCapacity, SchedulerCapacity, AtLeastOne
  <2>2. Load \in Nat /\ LoadLimit \in Nat /\ PendingTrashCapacity \in Nat
    BY TrashInvFacts, Sizes, OptionsAssumption DEF Load, LoadLimit, PendingTrashCapacity
  <2> QED
    BY <2>1, <2>2, TrashInvFacts DEF PendingTrashBounded
<1> QED
  BY <1>1, TrashInvariant, PTL

-----------------------------------------------------------------------------
(* The reply path implements the FIFO of ReplyQueue.                       *)

(* Moving the head of t to the end of s. *)
LEMMA MoveHead ==
    ASSUME NEW S, NEW s \in Seq(S), NEW t \in Seq(S), t # <<>>
    PROVE  Append(s, Head(t)) \o Tail(t) = s \o t
<1>1. Head(t) \in S /\ Tail(t) \in Seq(S) /\ t = <<Head(t)>> \o Tail(t)
  OBVIOUS
<1>2. <<Head(t)>> \in Seq(S) /\ Append(s, Head(t)) = s \o <<Head(t)>>
  BY <1>1, AppendIsConcat
<1>3. (s \o <<Head(t)>>) \o Tail(t) = s \o (<<Head(t)>> \o Tail(t))
  BY <1>1, <1>2, ConcatAssociative
<1> QED
  BY <1>1, <1>2, <1>3

(* Dropping the head of s before or after something joins behind it. *)
LEMMA TailOfConcat ==
    ASSUME NEW S, NEW s \in Seq(S), NEW t \in Seq(S), s # <<>>
    PROVE  s \o t # <<>> /\ Tail(s \o t) = Tail(s) \o t
  OBVIOUS

InFlight == replyRing \o pendingReplies \o answers

(* An operation appends its answers behind those in flight. *)
LEMMA HandOverComposes ==
    ASSUME TypeOK, answers = <<>>, UNCHANGED replyVars,
           NEW boxes, NEW n \in Nat, NEW then, HandOver(boxes, n, then)
    PROVE  [Queue!Next]_InFlight
<1> DEFINE R == replyRing \o pendingReplies
           A == NextReplies(n)
<1>1. R \in Seq(ReplyNumber)
  BY ConcatProperties DEF TypeOK
<1>2. A \in Seq(ReplyNumber) /\ Len(A) = n
  BY NextRepliesType DEF TypeOK
<1>3. replyRing' \o pendingReplies' = R /\ answers' = A
  BY DEF replyVars, HandOver
<1>4. InFlight' = R \o A /\ InFlight = R \o <<>>
  BY <1>3 DEF InFlight
<1> HIDE DEF R, A
<1>5. InFlight = R
  BY <1>1, <1>4, ConcatEmptySeq
<1>6. CASE n = 0
  <2>1. A = <<>>
    BY <1>2, <1>6, EmptySeq
  <2> QED
    BY <1>4, <2>1
<1>7. CASE n > 0
  <2>1. Len(InFlight') = Len(R) + n /\ Len(R) \in Nat
    <3>1. Len(R \o A) = Len(R) + Len(A)
      BY <1>1, <1>2, ConcatProperties, Zenon
    <3> QED
      BY <1>1, <1>2, <1>4, <3>1
  <2>2. SubSeq(R \o A, 1, Len(R)) = R
    BY <1>1, <1>2
  <2>3. Len(InFlight') > Len(InFlight) /\ SubSeq(InFlight', 1, Len(InFlight)) = InFlight
    <3>1. Len(InFlight') > Len(InFlight)
      BY <1>5, <1>7, <2>1
    <3>2. SubSeq(InFlight', 1, Len(InFlight)) = InFlight
      BY <1>4, <1>5, <2>2, Zenon
    <3> QED
      BY <3>1, <3>2
  <2> QED
    BY <2>3, Zenon DEF Queue!Next, Queue!Compose, InFlight
<1> QED
  BY <1>6, <1>7

LEMMA CommandComposes ==
    ASSUME TrashInv, Intake \/ ApplyDue
    PROVE  [Queue!Next]_InFlight
<1>1. /\ pc # "emit" /\ answers = <<>> /\ TypeOK /\ WorldOK /\ UNCHANGED replyVars
      /\ sched \in Seq(Command) /\ Len(sched) <= SchedulerCapacity
      /\ cmdRing \in Seq(Command)
  BY TrashInvFacts DEF Intake, ApplyDue, TrashInv, TypeOK
<1>2. ASSUME NEW c \in Command, NEW held \in Seq(Command), Len(held) <= SchedulerCapacity,
             NEW then, Apply(c, held, then)
      PROVE  [Queue!Next]_InFlight
  <2>1. PICK n \in Nat : HandOver(out', n, then)
    BY <1>1, <1>2, ApplyAccounted DEF Accounted
  <2> QED
    BY <1>1, <2>1, HandOverComposes
<1>3. CASE Intake
  <2>1. cmdRing # <<>> /\ Head(cmdRing) \in Command
    BY <1>1, <1>3 DEF Intake
  <2>2. CASE Apply(Head(cmdRing), sched, "intake")
    BY <1>1, <1>2, <2>1, <2>2
  <2>3. CASE UNCHANGED emitVars
    BY <1>1, <2>3 DEF InFlight, replyVars, emitVars
  <2> QED
    BY <1>3, <2>2, <2>3 DEF Intake
<1>4. CASE ApplyDue
  <2>1. PICK i \in 1..Len(sched) : Apply(sched[i], RemoveAt(sched, i), "due")
    BY <1>4 DEF ApplyDue
  <2>2. /\ sched[i] \in Command
        /\ RemoveAt(sched, i) \in Seq(Command)
        /\ Len(RemoveAt(sched, i)) <= SchedulerCapacity
    BY <1>1, <2>1, RemoveAtType, CapacityType
  <2> QED
    BY <1>2, <2>1, <2>2
<1> QED
  BY <1>3, <1>4

LEMMA WalkComposes ==
    ASSUME TrashInv, Walk \/ DriveWrites
    PROVE  [Queue!Next]_InFlight
<1>1. answers = <<>> /\ TypeOK /\ WorldOK /\ UNCHANGED replyVars
  BY TrashInvFacts DEF Walk, DriveWrites, TrashInv
<1>2. CASE DriveWrites
  <2>1. PICK done : HandOver(done, 0, "flushTrash")
    BY <1>2 DEF DriveWrites
  <2> QED
    BY <1>1, <2>1, HandOverComposes
<1>3. CASE Walk
  <2> DEFINE records == TraceLength * Cardinality(traced \ paused)
             sent == IF records < TreeCapacity THEN records ELSE TreeCapacity
  <2>1. PICK gone : HandOver(gone, sent, "drive")
    BY <1>3, Zenon DEF Walk
  <2>2. sent \in Nat
    <3>1. traced \ paused \in SUBSET Box
      BY <1>1 DEF WorldOK
    <3>2. Cardinality(traced \ paused) \in Nat
      BY <3>1, BoxSets
    <3>3. records \in Nat
      BY <3>2, ReplyAssumption
    <3> QED
      BY <3>3, ReplyAssumption
  <2> HIDE DEF sent
  <2> QED
    BY <1>1, <2>1, <2>2, HandOverComposes
<1> QED
  BY <1>2, <1>3

(* An answer that moves from one part of the path to the next stays in its *)
(* place in the order.                                                     *)
LEMMA MovesStutter ==
    ASSUME TypeOK, FlushReplies \/ SendReply
    PROVE  InFlight' = InFlight
<1>1. /\ replyRing \in Seq(ReplyNumber) /\ pendingReplies \in Seq(ReplyNumber)
      /\ answers \in Seq(ReplyNumber)
  BY DEF TypeOK
<1>2. CASE FlushReplies
  <2>1. answers' = answers
    BY <1>2 DEF FlushReplies, emitVars
  <2>2. CASE /\ pendingReplies # <<>>
             /\ replyRing' = Append(replyRing, Head(pendingReplies))
             /\ pendingReplies' = Tail(pendingReplies)
    <3>1. replyRing' \o pendingReplies' = replyRing \o pendingReplies
      BY <1>1, <2>2, MoveHead
    <3> QED
      BY <2>1, <3>1 DEF InFlight
  <2>3. CASE UNCHANGED replyVars
    BY <2>1, <2>3 DEF InFlight, replyVars
  <2> QED
    BY <1>2, <2>2, <2>3 DEF FlushReplies
<1>3. CASE SendReply
  <2>1. answers # <<>> /\ answers' = Tail(answers)
    BY <1>3 DEF SendReply
  <2>2. CASE /\ pendingReplies = <<>>
             /\ replyRing' = Append(replyRing, Head(answers)) /\ UNCHANGED pendingReplies
    <3>1. replyRing \o pendingReplies = replyRing
      BY <1>1, <2>2, ConcatEmptySeq
    <3>2. replyRing' \in Seq(ReplyNumber)
      BY <1>1, <2>1, <2>2
    <3>3. replyRing' \o pendingReplies' = replyRing'
      BY <2>2, <3>2, ConcatEmptySeq
    <3>4. replyRing' \o answers' = replyRing \o answers
      BY <1>1, <2>1, <2>2, MoveHead
    <3> QED
      BY <3>1, <3>3, <3>4 DEF InFlight
  <2>3. CASE pendingReplies' = Append(pendingReplies, Head(answers)) /\ UNCHANGED replyRing
    <3>1. pendingReplies' \o answers' = pendingReplies \o answers
      BY <1>1, <2>1, <2>3, MoveHead
    <3>2. pendingReplies' \in Seq(ReplyNumber) /\ answers' \in Seq(ReplyNumber)
      BY <1>1, <2>1, <2>3
    <3>3. InFlight' = replyRing \o (pendingReplies' \o answers')
      <4>1. (replyRing \o pendingReplies') \o answers'
               = replyRing \o (pendingReplies' \o answers')
        BY <1>1, <3>2, ConcatAssociative, SMTT(30)
      <4>2. replyRing' = replyRing
        BY <2>3
      <4> QED
        BY <4>1, <4>2, Zenon DEF InFlight
    <3>4. InFlight = replyRing \o (pendingReplies \o answers)
      BY <1>1, ConcatAssociative DEF InFlight
    <3> QED
      BY <3>1, <3>3, <3>4
  <2> QED
    BY <1>3, <2>2, <2>3 DEF SendReply
<1> QED
  BY <1>2, <1>3

LEMMA PollDelivers ==
    ASSUME TypeOK, NrtPollReply
    PROVE  Queue!Next
<1>1. /\ replyRing \in Seq(ReplyNumber) /\ pendingReplies \in Seq(ReplyNumber)
      /\ answers \in Seq(ReplyNumber) /\ replyRing # <<>>
  BY DEF TypeOK, NrtPollReply
<1>2. /\ replyRing' = Tail(replyRing)
      /\ pendingReplies' = pendingReplies /\ answers' = answers
  BY DEF NrtPollReply, emitVars
<1>3. /\ replyRing \o pendingReplies \in Seq(ReplyNumber)
      /\ replyRing \o pendingReplies # <<>>
      /\ Tail(replyRing \o pendingReplies) = replyRing' \o pendingReplies'
  BY <1>1, <1>2, ConcatProperties, TailOfConcat
<1>4. InFlight # <<>> /\ InFlight' = Tail(InFlight)
  BY <1>1, <1>2, <1>3, TailOfConcat, SMTT(30) DEF InFlight
<1> QED
  BY <1>4 DEF Queue!Next, Queue!Deliver, InFlight

(* Whatever is full and whoever is slow, answers reach Nrt::poll_reply in  *)
(* the order they were composed, each exactly once: the path through the   *)
(* reply ring and its backlog implements the FIFO of ReplyQueue.           *)
THEOREM RepliesFifo == Spec => RepliesAreFifo
<1>1. Init => Queue!Init
  <2> SUFFICES ASSUME Init PROVE InFlight = <<>>
    BY DEF Queue!Init, InFlight
  <2>1. <<>> \in Seq(ReplyNumber) /\ <<>> \o <<>> = <<>>
    BY ConcatEmptySeq, EmptySeq
  <2> QED
    BY <2>1 DEF Init, InFlight
<1>2. TrashInv /\ [Next]_vars => [Queue!Next]_InFlight
  <2> SUFFICES ASSUME TrashInv, [Next]_vars PROVE [Queue!Next]_InFlight
    OBVIOUS
  <2>1. TypeOK
    BY DEF TrashInv
  <2>2. CASE Intake \/ ApplyDue
    BY <2>2, CommandComposes
  <2>3. CASE Walk \/ DriveWrites
    BY <2>3, WalkComposes
  <2>4. CASE FlushReplies \/ SendReply
    BY <2>1, <2>4, MovesStutter
  <2>5. CASE NrtPollReply
    BY <2>1, <2>5, PollDelivers
  <2>6. CASE Push \/ NrtDrop \/ FlushTrash \/ EndIntake \/ EndDue \/ EndEmit \/ TrashBox
             \/ UNCHANGED vars
    <3>1. UNCHANGED <<replyRing, pendingReplies, answers>>
      BY <2>6 DEF Push, NrtDrop, FlushTrash, EndIntake, EndDue, EndEmit, TrashBox, vars,
                  replyVars, emitVars
    <3> QED
      BY <3>1 DEF InFlight
  <2> QED
    BY <2>2, <2>3, <2>4, <2>5, <2>6 DEF Next, Audio
<1>3. Init /\ []TrashInv /\ [][Next]_vars => Queue!Init /\ [][Queue!Next]_InFlight
  BY <1>1, <1>2, PTL
<1>4. Spec => Queue!Init /\ [][Queue!Next]_InFlight
  BY <1>3, TrashInvariant, PTL DEF Spec
<1> QED
  BY <1>4 DEF RepliesAreFifo, Queue!Spec, InFlight

-----------------------------------------------------------------------------
(* What the queues hold as they grow and shrink.                           *)

LEMMA AppendHolds ==
    ASSUME NEW S, NEW s \in Seq(S), NEW x \in S
    PROVE  /\ ToSet(s) \subseteq ToSet(Append(s, x))
           /\ x \in ToSet(Append(s, x))
<1>1. /\ DOMAIN s = 1..Len(s) /\ Len(s) \in Nat
      /\ DOMAIN Append(s, x) = 1..(Len(s) + 1)
      /\ \A i \in 1..Len(s) : Append(s, x)[i] = s[i]
      /\ Append(s, x)[Len(s) + 1] = x
  OBVIOUS
<1>2. Len(s) + 1 \in 1..(Len(s) + 1) /\ 1..Len(s) \subseteq 1..(Len(s) + 1)
  BY <1>1
<1> QED
  BY <1>1, <1>2 DEF ToSet

LEMMA TailHolds ==
    ASSUME NEW S, NEW s \in Seq(S), s # <<>>
    PROVE  ToSet(s) \subseteq ToSet(Tail(s)) \cup {Head(s)}
<1>1. /\ DOMAIN s = 1..Len(s) /\ Len(s) \in Nat \ {0} /\ Head(s) = s[1]
      /\ DOMAIN Tail(s) = 1..(Len(s) - 1)
      /\ \A i \in 1..(Len(s) - 1) : Tail(s)[i] = s[i + 1]
  OBVIOUS
<1>2. ASSUME NEW i \in 1..Len(s), i # 1
      PROVE  s[i] \in ToSet(Tail(s))
  <2>1. i - 1 \in 1..(Len(s) - 1) /\ (i - 1) + 1 = i
    BY <1>1, <1>2
  <2>2. Tail(s)[i - 1] = s[i]
    BY <1>1, <2>1
  <2> QED
    BY <1>1, <2>1, <2>2 DEF ToSet
<1>3. \A x \in ToSet(s) : x \in ToSet(Tail(s)) \cup {Head(s)}
  BY <1>1, <1>2 DEF ToSet
<1> QED
  BY <1>3

LEMMA FrontHolds ==
    ASSUME NEW S, NEW s \in Seq(S), s # <<>>
    PROVE  ToSet(s) \subseteq ToSet(Front(s)) \cup {Last(s)}
<1>1. /\ DOMAIN s = 1..Len(s) /\ Len(s) \in Nat \ {0} /\ Last(s) = s[Len(s)]
      /\ DOMAIN Front(s) = 1..(Len(s) - 1)
      /\ \A i \in 1..(Len(s) - 1) : Front(s)[i] = s[i]
  BY DEF Front, Last
<1>2. ASSUME NEW i \in 1..Len(s), i # Len(s)
      PROVE  s[i] \in ToSet(Front(s))
  <2>1. i \in 1..(Len(s) - 1)
    <3>1. Len(s) \in Nat
      OBVIOUS
    <3> QED
      BY <1>2, <3>1
  <2> QED
    BY <1>1, <2>1 DEF ToSet
<1>3. \A x \in ToSet(s) : x \in ToSet(Front(s)) \cup {Last(s)}
  BY <1>1, <1>2 DEF ToSet
<1> QED
  BY <1>3

LEMMA RemoveHolds ==
    ASSUME NEW s \in Seq(Command), NEW k \in 1..Len(s)
    PROVE  ToSet(s) \subseteq ToSet(RemoveAt(s, k)) \cup {s[k]}
<1> DEFINE a == SubSeq(s, 1, k - 1)
           b == SubSeq(s, k + 1, Len(s))
           r == RemoveAt(s, k)
<1>1. /\ DOMAIN s = 1..Len(s) /\ Len(s) \in Nat /\ k \in Nat
      /\ a \in Seq(Command) /\ Len(a) = k - 1 /\ \A i \in 1..(k - 1) : a[i] = s[i]
  OBVIOUS
<1>2. /\ b \in Seq(Command) /\ Len(b) = Len(s) - k
      /\ \A i \in 1..(Len(s) - k) : b[i] = s[k + i]
  OBVIOUS
<1>3. r = a \o b
  BY DEF RemoveAt
<1> HIDE DEF a, b, r
<1>4. /\ DOMAIN r = 1..(Len(s) - 1)
      /\ \A i \in 1..(k - 1) : r[i] = a[i]
      /\ \A i \in k..(Len(s) - 1) : r[i] = b[i - (k - 1)]
  <2>1. /\ Len(r) = (k - 1) + (Len(s) - k) /\ r \in Seq(Command)
        /\ \A i \in 1..((k - 1) + (Len(s) - k)) :
              r[i] = IF i <= k - 1 THEN a[i] ELSE b[i - (k - 1)]
    <3>1. /\ a \o b \in Seq(Command) /\ Len(a \o b) = Len(a) + Len(b)
          /\ \A i \in 1..(Len(a) + Len(b)) :
                (a \o b)[i] = IF i <= Len(a) THEN a[i] ELSE b[i - Len(a)]
      BY <1>1, <1>2, ConcatProperties, Zenon
    <3>2. Len(a) = k - 1 /\ Len(b) = Len(s) - k
      BY <1>1, <1>2
    <3> QED
      BY <1>3, <3>1, <3>2, Zenon
  <2>2. (k - 1) + (Len(s) - k) = Len(s) - 1
    BY <1>1
  <2>3. DOMAIN r = 1..(Len(s) - 1)
    BY <2>1, <2>2
  <2>4. ASSUME NEW i \in 1..(k - 1)
        PROVE  r[i] = a[i]
    BY <1>1, <2>1, <2>2
  <2>5. ASSUME NEW i \in k..(Len(s) - 1)
        PROVE  r[i] = b[i - (k - 1)]
    BY <1>1, <2>1, <2>2
  <2> QED
    BY <2>3, <2>4, <2>5
<1>5. ASSUME NEW i \in 1..Len(s), i # k
      PROVE  s[i] \in ToSet(r)
  <2>1. CASE i < k
    <3>1. i \in 1..(k - 1) /\ i \in DOMAIN r /\ r[i] = s[i]
      BY <1>1, <1>4, <2>1
    <3> QED
      BY <3>1 DEF ToSet
  <2>2. CASE i > k
    <3>1. /\ i - 1 \in k..(Len(s) - 1) /\ i - 1 \in DOMAIN r
          /\ i - k \in 1..(Len(s) - k)
      BY <1>1, <1>4, <2>2
    <3>2. r[i - 1] = b[(i - 1) - (k - 1)] /\ (i - 1) - (k - 1) = i - k /\ k + (i - k) = i
      BY <1>1, <1>4, <3>1
    <3>3. r[i - 1] = s[i]
      BY <1>2, <3>1, <3>2
    <3> QED
      BY <3>1, <3>3 DEF ToSet
  <2> QED
    BY <1>1, <1>5, <2>1, <2>2
<1> QED
  BY <1>1, <1>5 DEF ToSet, r

(* The boxes of commands are those of the set of commands. *)
LEMMA BoxesOf ==
    ASSUME NEW s
    PROVE  BoxesIn(s) = {c.box : c \in ToSet(s)} \ {NoBox}
  BY DEF BoxesIn, ToSet

-----------------------------------------------------------------------------
(* Boxes leave the audio thread through the trash ring only.               *)

World == Installed \cup writes \cup synths
Carried(c) == {c.box} \ {NoBox}

(* A command brings its box and leaves every box it meets somewhere.       *)
Conserved(c, held) ==
    World \cup Carried(c) \cup BoxesIn(held) \subseteq World' \cup out' \cup BoxesIn(sched')

LEMMA PlainCarriesNothing ==
    ASSUME NEW c \in Command, c.op \notin BoxOps
    PROVE  Carried(c) = {}
  BY DEF Command, Carried, BoxOps, PlainOps

LEMMA SlotConserved ==
    ASSUME slots \in [0..(MaxBuffers - 1) -> Box \cup {NoBox}],
           NEW i \in DOMAIN slots, NEW b, slots' = [slots EXCEPT ![i] = b]
    PROVE  Installed \subseteq Installed' \cup ({slots[i]} \ {NoBox}) /\ ({b} \ {NoBox}) \subseteq Installed'
<1>1. /\ DOMAIN slots' = DOMAIN slots /\ slots'[i] = b
      /\ \A j \in DOMAIN slots : j # i => slots'[j] = slots[j]
  OBVIOUS
<1> QED
  BY <1>1 DEF Installed

LEMMA ApplyConserves ==
    ASSUME WorldOK, NEW c \in Command, NEW held, NEW then, Apply(c, held, then)
    PROVE  Conserved(c, held)
<1>1. CASE Install(c, then) /\ sched' = held
  <2>1. writes' = writes /\ synths' = synths
    BY <1>1 DEF Install
  <2>2. CASE c.index \in DOMAIN slots
    <3>1. slots' = [slots EXCEPT ![c.index] = c.box] /\ out' = {slots[c.index]} \ {NoBox}
      BY <1>1, <2>2 DEF Install, HandOver
    <3>2. Installed \subseteq Installed' \cup out' /\ Carried(c) \subseteq Installed'
      BY <2>2, <3>1, SlotConserved DEF WorldOK, Carried
    <3> QED
      BY <1>1, <2>1, <3>2 DEF Conserved, World
  <2>3. CASE c.index \notin DOMAIN slots
    <3>1. slots' = slots /\ out' = {c.box}
      BY <1>1, <2>3 DEF Install, HandOver
    <3> QED
      BY <1>1, <2>1, <3>1 DEF Conserved, World, Installed, Carried
  <2> QED
    BY <2>2, <2>3
<1>2. CASE FreeSlot(c, then) /\ sched' = held
  <2>1. writes' = writes /\ synths' = synths /\ Carried(c) = {}
    BY <1>2, PlainCarriesNothing DEF FreeSlot, BoxOps
  <2>2. CASE c.index \in DOMAIN slots
    <3>1. slots' = [slots EXCEPT ![c.index] = NoBox] /\ out' = {slots[c.index]} \ {NoBox}
      BY <1>2, <2>2 DEF FreeSlot, HandOver
    <3>2. Installed \subseteq Installed' \cup out'
      BY <2>2, <3>1, SlotConserved DEF WorldOK
    <3> QED
      BY <1>2, <2>1, <3>2 DEF Conserved, World
  <2>3. CASE c.index \notin DOMAIN slots
    <3>1. slots' = slots
      BY <1>2, <2>3 DEF FreeSlot
    <3> QED
      BY <1>2, <2>1, <3>1 DEF Conserved, World, Installed
  <2> QED
    BY <2>2, <2>3
<1>3. CASE BeginWrite(c, then) /\ sched' = held
  <2>1. slots' = slots /\ synths' = synths
    BY <1>3 DEF BeginWrite
  <2>2. writes \cup {c.box} \subseteq writes' \cup out'
    BY <1>3 DEF BeginWrite, HandOver
  <2> QED
    BY <1>3, <2>1, <2>2 DEF Conserved, World, Installed, Carried
<1>4. CASE Splice(c, then) /\ sched' = held
  BY <1>4 DEF Splice, HandOver, Conserved, World, Installed, Carried, worldVars
<1>5. CASE AddSynth(c, then) /\ sched' = held
  <2>1. slots' = slots /\ writes' = writes
    BY <1>5 DEF AddSynth
  <2>2. synths \cup {c.box} \subseteq synths' \cup out'
    BY <1>5 DEF AddSynth, HandOver
  <2> QED
    BY <1>5, <2>1, <2>2 DEF Conserved, World, Installed, Carried
<1>6. CASE FreeNodes(c, then) /\ sched' = held
  <2>1. slots' = slots /\ writes' = writes /\ Carried(c) = {}
    BY <1>6, PlainCarriesNothing DEF FreeNodes, BoxOps
  <2>2. synths \subseteq synths' \cup out'
    BY <1>6 DEF FreeNodes, HandOver
  <2> QED
    BY <1>6, <2>1, <2>2 DEF Conserved, World, Installed
<1>7. CASE (Query(c, then) \/ TraceNode(c, then) \/ NodeRun(c, then) \/ Flat(c, then))
           /\ sched' = held
  <2>1. slots' = slots /\ writes' = writes /\ synths' = synths
    BY <1>7 DEF Query, TraceNode, NodeRun, Flat, worldVars
  <2>2. Carried(c) = {}
    BY <1>7, PlainCarriesNothing DEF Query, TraceNode, NodeRun, Flat, BoxOps
  <2> QED
    BY <1>7, <2>1, <2>2 DEF Conserved, World, Installed
<1>8. CASE c.op = "clear" /\ HandOver(BoxesIn(held), 0, then) /\ UNCHANGED worldVars
  <2>1. Carried(c) = {}
    BY <1>8, PlainCarriesNothing DEF BoxOps
  <2> QED
    BY <1>8, <2>1 DEF Conserved, World, Installed, HandOver, worldVars
<1> QED
  BY <1>1, <1>2, <1>3, <1>4, <1>5, <1>6, <1>7, <1>8 DEF Apply

(* What the other threads see of the boxes. *)
Queued == BoxesIn(cmdRing) \cup BoxesIn(sched) \cup ToSet(trashRing) \cup ToSet(pendingTrash)
Kept == InUse \subseteq InUse'

LEMMA InUseIs ==
    /\ InUse = Queued \cup World \cup out
    /\ InUse' = Queued' \cup World' \cup out'
  BY DEF InUse, Queued, World

LEMMA IntakeKeeps ==
    ASSUME TrashInv, Intake
    PROVE  Kept
<1> DEFINE c == Head(cmdRing)
<1>1. /\ cmdRing \in Seq(Command) /\ cmdRing # <<>> /\ cmdRing' = Tail(cmdRing)
      /\ sched \in Seq(Command) /\ c \in Command
      /\ out = {} /\ trashRing' = trashRing /\ pendingTrash' = pendingTrash /\ WorldOK
  BY TrashInvFacts DEF Intake, TrashInv, TypeOK, trashVars
<1>2. BoxesIn(cmdRing) \subseteq BoxesIn(cmdRing') \cup Carried(c)
  <2>1. ToSet(cmdRing) \subseteq ToSet(cmdRing') \cup {c}
    BY <1>1, TailHolds
  <2> QED
    BY <2>1, BoxesOf DEF Carried
<1> HIDE DEF c
<1>3. CASE sched' = Append(sched, c) /\ UNCHANGED <<worldVars, out>>
  <2>1. ToSet(sched) \subseteq ToSet(sched') /\ c \in ToSet(sched')
    BY <1>1, <1>3, AppendHolds
  <2>2. BoxesIn(sched) \cup Carried(c) \subseteq BoxesIn(sched')
    BY <2>1, BoxesOf DEF Carried
  <2>3. World' = World /\ out' = out
    BY <1>3 DEF World, Installed, worldVars
  <2> QED
    BY <1>1, <1>2, <2>2, <2>3, InUseIs DEF Queued, Kept
<1>4. CASE Apply(c, sched, "intake")
  <2>1. Conserved(c, sched)
    BY <1>1, <1>4, ApplyConserves
  <2> QED
    BY <1>1, <1>2, <2>1, InUseIs DEF Conserved, Queued, Kept
<1> QED
  BY <1>3, <1>4 DEF Intake, c, emitVars

LEMMA ApplyDueKeeps ==
    ASSUME TrashInv, ApplyDue
    PROVE  Kept
<1>1. /\ cmdRing' = cmdRing /\ sched \in Seq(Command)
      /\ out = {} /\ trashRing' = trashRing /\ pendingTrash' = pendingTrash /\ WorldOK
  BY TrashInvFacts DEF ApplyDue, TrashInv, TypeOK, trashVars
<1>2. PICK i \in 1..Len(sched) : Apply(sched[i], RemoveAt(sched, i), "due")
  BY DEF ApplyDue
<1>3. sched[i] \in Command
  BY <1>1, <1>2
<1>4. Conserved(sched[i], RemoveAt(sched, i))
  BY <1>1, <1>2, <1>3, ApplyConserves
<1>5. BoxesIn(sched) \subseteq BoxesIn(RemoveAt(sched, i)) \cup Carried(sched[i])
  <2>1. ToSet(sched) \subseteq ToSet(RemoveAt(sched, i)) \cup {sched[i]}
    BY <1>1, <1>2, RemoveHolds
  <2> QED
    BY <2>1, BoxesOf DEF Carried
<1> QED
  BY <1>1, <1>4, <1>5, InUseIs DEF Conserved, Queued, Kept

(* Handing a box over, and flushing the backlog, move it one queue on.     *)
LEMMA HandingOverKeeps ==
    ASSUME TrashInv, TrashBox \/ FlushTrash
    PROVE  Kept
<1>1. trashRing \in Seq(Box) /\ pendingTrash \in Seq(Box) /\ out \in SUBSET Box
  BY DEF TrashInv, TypeOK
<1>2. World' = World /\ cmdRing' = cmdRing /\ sched' = sched
  BY DEF TrashBox, FlushTrash, World, Installed, worldVars, intakeVars
<1>3. CASE TrashBox
  <2>1. PICK b \in out :
          /\ out' = out \ {b}
          /\ \/ trashRing' = Append(trashRing, b) /\ UNCHANGED pendingTrash
             \/ pendingTrash' = Append(pendingTrash, b) /\ UNCHANGED trashRing
    BY <1>3 DEF TrashBox
  <2>2. /\ ToSet(trashRing) \subseteq ToSet(Append(trashRing, b))
        /\ b \in ToSet(Append(trashRing, b))
        /\ ToSet(pendingTrash) \subseteq ToSet(Append(pendingTrash, b))
        /\ b \in ToSet(Append(pendingTrash, b))
    BY <1>1, <2>1, AppendHolds
  <2> QED
    BY <1>2, <2>1, <2>2, InUseIs DEF Queued, Kept
<1>4. CASE FlushTrash
  <2>1. out' = out
    BY <1>4 DEF FlushTrash, emitVars
  <2>2. CASE /\ pendingTrash # <<>>
             /\ trashRing' = Append(trashRing, Last(pendingTrash))
             /\ pendingTrash' = Front(pendingTrash)
    <3>1. Last(pendingTrash) \in Box
      BY <1>1, <2>2, FrontLast
    <3>2. /\ ToSet(trashRing) \cup {Last(pendingTrash)} \subseteq ToSet(trashRing')
          /\ ToSet(pendingTrash) \subseteq ToSet(pendingTrash') \cup {Last(pendingTrash)}
      BY <1>1, <2>2, <3>1, AppendHolds, FrontHolds
    <3> QED
      BY <1>2, <2>1, <3>2, InUseIs DEF Queued, Kept
  <2>3. CASE UNCHANGED trashVars
    BY <1>2, <2>1, <2>3, InUseIs DEF Queued, Kept, trashVars
  <2> QED
    BY <1>4, <2>2, <2>3 DEF FlushTrash
<1> QED
  BY <1>3, <1>4

(* Synths that end and copies that finish are handed over. *)
LEMMA EndingKeeps ==
    ASSUME TrashInv, Walk \/ DriveWrites
    PROVE  Kept
<1>1. out = {} /\ Queued' = Queued /\ Installed' = Installed
  BY DEF Walk, DriveWrites, TrashInv, Queued, Installed, intakeVars, trashVars
<1>2. CASE Walk
  <2>1. PICK gone : synths' = synths \ gone /\ out' = gone
    BY <1>2, Zenon DEF Walk, HandOver
  <2>2. writes' = writes
    BY <1>2 DEF Walk
  <2> QED
    BY <1>1, <2>1, <2>2, InUseIs DEF World, Kept
<1>3. CASE DriveWrites
  <2>1. PICK done : writes' = writes \ done /\ out' = done
    BY <1>3 DEF DriveWrites, HandOver
  <2>2. synths' = synths
    BY <1>3 DEF DriveWrites
  <2> QED
    BY <1>1, <2>1, <2>2, InUseIs DEF World, Kept
<1> QED
  BY <1>2, <1>3

LEMMA OthersKeepBoxes ==
    ASSUME TrashInv,
           Push \/ NrtPollReply \/ FlushReplies \/ EndIntake \/ EndDue \/ SendReply \/ EndEmit
    PROVE  Kept
<1>1. BoxesIn(cmdRing) \subseteq BoxesIn(cmdRing')
  <2>1. CASE Push
    <3>1. PICK c \in Command : cmdRing' = Append(cmdRing, c)
      BY <2>1 DEF Push
    <3>2. ToSet(cmdRing) \subseteq ToSet(cmdRing')
      BY <3>1, AppendHolds DEF TrashInv, TypeOK
    <3> QED
      BY <3>2, BoxesOf
  <2>2. CASE cmdRing' = cmdRing
    BY <2>2
  <2> QED
    BY <2>1, <2>2 DEF NrtPollReply, FlushReplies, EndIntake, EndDue, SendReply, EndEmit, intakeVars
<1>2. /\ sched' = sched /\ trashRing' = trashRing /\ pendingTrash' = pendingTrash
      /\ UNCHANGED <<worldVars, out>>
  BY DEF Push, NrtPollReply, FlushReplies, EndIntake, EndDue, SendReply, EndEmit,
         intakeVars, trashVars, emitVars
<1>3. World' = World /\ out' = out
  BY <1>2 DEF World, Installed, worldVars
<1> QED
  BY <1>1, <1>2, <1>3, InUseIs DEF Queued, Kept

(* Whatever the clients, the units and the host do, a box that was given   *)
(* to the audio thread is dropped by Nrt::process and nowhere else: it     *)
(* leaves the engine only as the head of the trash ring, for every         *)
(* capacity of the rings, the tables and the scheduler (World::trash).     *)
THEOREM AudioFreesNothing == Spec => FreedOnlyByNrt
<1>1. TrashInv /\ [Next]_vars
        => [\A b \in InUse \ InUse' : trashRing # <<>> /\ b = Head(trashRing)]_vars
  <2> SUFFICES ASSUME TrashInv, [Next]_vars
               PROVE  [\A b \in InUse \ InUse' : trashRing # <<>> /\ b = Head(trashRing)]_vars
    OBVIOUS
  <2>1. CASE UNCHANGED vars
    BY <2>1
  <2>2. CASE NrtDrop
    <3>1. /\ trashRing \in Seq(Box) /\ trashRing # <<>> /\ trashRing' = Tail(trashRing)
          /\ cmdRing' = cmdRing /\ sched' = sched /\ pendingTrash' = pendingTrash
          /\ World' = World /\ out' = out
      BY <2>2 DEF NrtDrop, TrashInv, TypeOK, World, Installed, worldVars, intakeVars, emitVars
    <3>2. ToSet(trashRing) \subseteq ToSet(trashRing') \cup {Head(trashRing)}
      BY <3>1, TailHolds
    <3> QED
      BY <3>1, <3>2, InUseIs DEF Queued
  <2>3. CASE Next /\ ~NrtDrop
    <3>1. Kept
      BY <2>3, IntakeKeeps, ApplyDueKeeps, HandingOverKeeps, EndingKeeps, OthersKeepBoxes
         DEF Next, Audio
    <3> QED
      BY <3>1 DEF Kept
  <2> QED
    BY <2>1, <2>2, <2>3
<1>2. Init /\ []TrashInv /\ [][Next]_vars
        => [][\A b \in InUse \ InUse' : trashRing # <<>> /\ b = Head(trashRing)]_vars
  BY <1>1, PTL
<1> QED
  BY <1>2, TrashInvariant, PTL DEF Spec, FreedOnlyByNrt

-----------------------------------------------------------------------------
(* The reply backlog, when no unit resumes a synth.                        *)

(* What the next walk may add: a full dump if a flagged synth is running.  *)
Owed == IF traced \subseteq paused THEN 0 ELSE TreeCapacity

(* Commands add at most a whole tree dump, and only to an empty backlog;   *)
(* a walk pays what was owed, after which only a command, hence an open    *)
(* gate, can make another dump due.                                        *)
RepliesInv == Len(pendingReplies) + Len(answers) + Owed <= PendingRepliesCapacity

LEMMA ReplySizes ==
    ASSUME TypeOK
    PROVE  /\ Len(pendingReplies) \in Nat /\ Len(answers) \in Nat
           /\ TreeCapacity \in Nat /\ PendingRepliesCapacity = 2 * TreeCapacity
           /\ Owed \in {0, TreeCapacity} /\ Owed' \in {0, TreeCapacity}
  BY ReplyAssumption DEF TypeOK, Owed, PendingRepliesCapacity

(* One command is answered with at most a whole tree. *)
LEMMA ApplyAnswers ==
    ASSUME TypeOK, NEW c, NEW held, NEW then, Apply(c, held, then)
    PROVE  Len(answers') \in 0..TreeCapacity
<1>1. PICK n \in 0..TreeCapacity : answers' = NextReplies(n)
  <2>1. 0 \in 0..TreeCapacity /\ 1..TreeCapacity \subseteq 0..TreeCapacity
    BY ReplyAssumption
  <2>2. CASE Query(c, then)
    BY <2>1, <2>2 DEF Query, HandOver
  <2>3. CASE ~Query(c, then)
    <3>1. answers' = NextReplies(0)
      BY <2>3 DEF Apply, Install, FreeSlot, BeginWrite, Splice, AddSynth, FreeNodes,
                  TraceNode, NodeRun, Flat, HandOver
    <3> QED
      BY <2>1, <3>1
  <2> QED
    BY <2>2, <2>3
<1>2. n \in Nat /\ lastReply \in ReplyNumber
  BY <1>1, ReplyAssumption DEF TypeOK
<1> QED
  BY <1>1, <1>2, NextRepliesType

LEMMA CommandsRepliesInv ==
    ASSUME TrashInv, TypeOK', RepliesInv, Intake \/ ApplyDue
    PROVE  RepliesInv'
<1>1. /\ TypeOK /\ pendingReplies = <<>> /\ pendingReplies' = <<>> /\ answers = <<>>
  BY DEF Intake, ApplyDue, TrashInv, BacklogsFlushed, replyVars
<1>2. Len(answers') \in 0..TreeCapacity
  <2>1. CASE answers' = answers
    BY <1>1, <2>1, ReplyAssumption
  <2>2. CASE \E c, held, then : Apply(c, held, then)
    BY <1>1, <2>2, ApplyAnswers
  <2> QED
    BY <2>1, <2>2 DEF Intake, ApplyDue, emitVars
<1>3. Len(pendingReplies') = 0
  BY <1>1
<1> QED
  BY <1>1, <1>2, <1>3, ReplySizes DEF RepliesInv, PendingRepliesCapacity

LEMMA WalkRepliesInv ==
    ASSUME TrashInv, RepliesInv, Walk, "unit_resume" \notin Ops
    PROVE  RepliesInv'
<1> DEFINE dumped == traced \ paused
           records == TraceLength * Cardinality(dumped)
           sent == IF records < TreeCapacity THEN records ELSE TreeCapacity
<1>1. /\ TypeOK /\ answers = <<>> /\ pendingReplies' = pendingReplies
  BY DEF Walk, TrashInv, replyVars
<1>2. PICK gone, off :
        /\ paused' = (paused \cup off) \ gone
        /\ traced' = (traced \ dumped) \ gone
        /\ HandOver(gone, sent, "drive")
  <2> DEFINE allowed(op) == IF op \in Ops /\ synths \ paused # {} THEN synths ELSE {}
  <2>1. PICK gone \in SUBSET allowed("unit_free"), off \in SUBSET allowed("unit_pause"),
             on \in SUBSET allowed("unit_resume") :
          /\ paused' = ((paused \cup off) \ on) \ gone
          /\ traced' = (traced \ dumped) \ gone
          /\ HandOver(gone, sent, "drive")
    BY DEF Walk
  <2>2. on = {}
    BY <2>1
  <2> QED
    BY <2>1, <2>2
<1>3. Owed' = 0
  BY <1>2 DEF Owed
<1>4. sent \in Nat /\ sent <= Owed
  <2>1. dumped \in SUBSET Box
    BY <1>1 DEF TypeOK
  <2>2. Cardinality(dumped) \in Nat
    BY <2>1, BoxSets
  <2>3. records \in Nat
    BY <2>2, ReplyAssumption
  <2>4. CASE traced \subseteq paused
    <3>1. dumped = {}
      BY <2>4
    <3>2. records = 0
      BY <3>1, NoBoxes, ReplyAssumption
    <3> QED
      BY <2>4, <3>2, ReplyAssumption DEF Owed
  <2>5. CASE ~(traced \subseteq paused)
    BY <2>3, <2>5, ReplyAssumption DEF Owed
  <2> QED
    BY <2>4, <2>5
<1> HIDE DEF sent
<1>5. Len(answers') = sent
  BY <1>1, <1>2, <1>4, NextRepliesType DEF HandOver, TypeOK
<1>6. Len(answers) = 0
  BY <1>1
<1> QED
  BY <1>1, <1>3, <1>4, <1>5, <1>6, ReplySizes DEF RepliesInv, PendingRepliesCapacity

LEMMA MovingRepliesInv ==
    ASSUME TrashInv, RepliesInv, FlushReplies \/ SendReply
    PROVE  RepliesInv'
<1>1. TypeOK /\ UNCHANGED <<traced, paused>>
  BY DEF FlushReplies, SendReply, TrashInv, worldVars
<1>2. Owed' = Owed
  BY <1>1 DEF Owed
<1>3. /\ pendingReplies \in Seq(ReplyNumber) /\ answers \in Seq(ReplyNumber)
  BY <1>1 DEF TypeOK
<1>4. CASE FlushReplies
  <2>1. answers' = answers
    BY <1>4 DEF FlushReplies, emitVars
  <2>2. CASE pendingReplies # <<>> /\ pendingReplies' = Tail(pendingReplies)
    <3>1. Len(pendingReplies') = Len(pendingReplies) - 1
      BY <1>3, <2>2
    <3> QED
      BY <1>1, <1>2, <2>1, <3>1, ReplySizes DEF RepliesInv, PendingRepliesCapacity
  <2>3. CASE pendingReplies' = pendingReplies
    BY <1>2, <2>1, <2>3 DEF RepliesInv, PendingRepliesCapacity
  <2> QED
    BY <1>4, <2>2, <2>3 DEF FlushReplies, replyVars
<1>5. CASE SendReply
  <2>1. Head(answers) \in ReplyNumber /\ Len(answers') = Len(answers) - 1
    BY <1>3, <1>5 DEF SendReply
  <2>2. Len(pendingReplies') <= Len(pendingReplies) + 1 /\ Len(pendingReplies') \in Nat
    <3>1. CASE pendingReplies' = pendingReplies
      BY <1>3, <3>1
    <3>2. CASE pendingReplies' = Append(pendingReplies, Head(answers))
      BY <1>3, <2>1, <3>2
    <3> QED
      BY <1>5, <3>1, <3>2 DEF SendReply
  <2> QED
    BY <1>1, <1>2, <2>1, <2>2, ReplySizes DEF RepliesInv, PendingRepliesCapacity
<1> QED
  BY <1>4, <1>5

LEMMA OtherRepliesInv ==
    ASSUME TrashInv, RepliesInv,
           \/ Push \/ NrtDrop \/ NrtPollReply \/ FlushTrash \/ EndIntake \/ EndDue
           \/ TrashBox \/ EndEmit \/ DriveWrites \/ UNCHANGED vars
    PROVE  RepliesInv'
<1>1. /\ pendingReplies' = pendingReplies /\ UNCHANGED <<traced, paused>>
  BY DEF Push, NrtDrop, NrtPollReply, FlushTrash, EndIntake, EndDue, TrashBox, EndEmit,
         DriveWrites, vars, replyVars, worldVars
<1>2. Owed' = Owed
  BY <1>1 DEF Owed
<1>3. Len(answers') = Len(answers)
  <2>1. CASE DriveWrites
    <3>1. answers = <<>> /\ answers' = NextReplies(0)
      BY <2>1 DEF DriveWrites, TrashInv, HandOver
    <3>2. Len(NextReplies(0)) = 0
      BY NextRepliesType DEF TrashInv, TypeOK
    <3> QED
      BY <3>1, <3>2
  <2>2. CASE answers' = answers
    BY <2>2
  <2> QED
    BY <2>1, <2>2 DEF Push, NrtDrop, NrtPollReply, FlushTrash, EndIntake, EndDue, TrashBox,
                      EndEmit, vars, emitVars
<1> QED
  BY <1>1, <1>2, <1>3 DEF RepliesInv, PendingRepliesCapacity

(* World.pending_replies never outgrows the capacity World::new reserves   *)
(* for it, for every tree capacity and length of a dump and however slow   *)
(* the NRT thread is, as long as no unit resumes a synth: a Pause unit may *)
(* bring back a flagged synth while the gate is shut, and its dump is then *)
(* one more than the reserve was sized for.                                *)
THEOREM RepliesBounded ==
    ASSUME "unit_resume" \notin Ops
    PROVE  Spec => []PendingRepliesBounded
<1>1. Init => RepliesInv
  <2> SUFFICES ASSUME Init PROVE RepliesInv
    OBVIOUS
  <2>1. Len(pendingReplies) = 0 /\ Len(answers) = 0 /\ Owed = 0
    BY DEF Init, Owed
  <2> QED
    BY <2>1, ReplyAssumption DEF RepliesInv, PendingRepliesCapacity
<1>2. TrashInv /\ TrashInv' /\ RepliesInv /\ [Next]_vars => RepliesInv'
  <2> SUFFICES ASSUME TrashInv, TypeOK', RepliesInv, [Next]_vars PROVE RepliesInv'
    BY DEF TrashInv
  <2> QED
    BY CommandsRepliesInv, WalkRepliesInv, MovingRepliesInv, OtherRepliesInv DEF Next, Audio
<1>3. TrashInv /\ RepliesInv => PendingRepliesBounded
  <2> SUFFICES ASSUME TrashInv, RepliesInv PROVE PendingRepliesBounded
    OBVIOUS
  <2>1. TypeOK
    BY DEF TrashInv
  <2> QED
    BY <2>1, ReplySizes DEF RepliesInv, PendingRepliesBounded
<1> QED
  BY <1>1, <1>2, <1>3, TrashInvariant, PTL DEF Spec

-----------------------------------------------------------------------------
(* A box has one holder.                                                   *)

Distinct(s) == \A i, j \in DOMAIN s : s[i] = s[j] => i = j
DistinctBoxes(s) ==
    \A i, j \in DOMAIN s : s[i].box = s[j].box /\ s[i].box # NoBox => i = j
Apart(A, B) == A \cap B = {}

(* r is s without its k-th element. *)
Without(r, s, k) ==
    /\ Len(s) \in Nat /\ k \in 1..Len(s)
    /\ DOMAIN s = 1..Len(s) /\ DOMAIN r = 1..(Len(s) - 1)
    /\ \A i \in 1..(Len(s) - 1) : r[i] = IF i < k THEN s[i] ELSE s[i + 1]

LEMMA TailWithout ==
    ASSUME NEW S, NEW s \in Seq(S), s # <<>>
    PROVE  Without(Tail(s), s, 1) /\ Head(s) = s[1]
<1>1. /\ DOMAIN s = 1..Len(s) /\ Len(s) \in Nat /\ Len(s) # 0 /\ Head(s) = s[1]
      /\ DOMAIN Tail(s) = 1..(Len(s) - 1)
      /\ \A i \in 1..(Len(s) - 1) : Tail(s)[i] = s[i + 1]
  OBVIOUS
<1>2. \A i \in 1..(Len(s) - 1) : ~(i < 1)
  BY <1>1
<1>3. 1 \in 1..Len(s)
  BY <1>1
<1> QED
  BY <1>1, <1>2, <1>3, Zenon DEF Without

LEMMA FrontWithout ==
    ASSUME NEW S, NEW s \in Seq(S), s # <<>>
    PROVE  Without(Front(s), s, Len(s)) /\ Last(s) = s[Len(s)]
<1>1. /\ DOMAIN s = 1..Len(s) /\ Len(s) \in Nat /\ Len(s) # 0 /\ Last(s) = s[Len(s)]
      /\ DOMAIN Front(s) = 1..(Len(s) - 1)
      /\ \A i \in 1..(Len(s) - 1) : Front(s)[i] = s[i]
  BY DEF Front, Last
<1>2. \A i \in 1..(Len(s) - 1) : i < Len(s)
  BY <1>1
<1>3. Len(s) \in 1..Len(s)
  BY <1>1
<1> QED
  BY <1>1, <1>2, <1>3, Zenon DEF Without

LEMMA RemoveWithout ==
    ASSUME NEW s \in Seq(Command), NEW k \in 1..Len(s)
    PROVE  Without(RemoveAt(s, k), s, k)
<1> DEFINE a == SubSeq(s, 1, k - 1)
           b == SubSeq(s, k + 1, Len(s))
           r == RemoveAt(s, k)
<1>1. /\ DOMAIN s = 1..Len(s) /\ Len(s) \in Nat /\ k \in Nat
      /\ a \in Seq(Command) /\ Len(a) = k - 1 /\ \A i \in 1..(k - 1) : a[i] = s[i]
  OBVIOUS
<1>2. /\ b \in Seq(Command) /\ Len(b) = Len(s) - k
      /\ \A i \in 1..(Len(s) - k) : b[i] = s[k + i]
  OBVIOUS
<1>3. r = a \o b
  BY DEF RemoveAt
<1> HIDE DEF a, b, r
<1>4. /\ r \in Seq(Command) /\ Len(r) = Len(a) + Len(b)
      /\ \A i \in 1..(Len(a) + Len(b)) : r[i] = IF i <= Len(a) THEN a[i] ELSE b[i - Len(a)]
  BY <1>1, <1>2, <1>3, ConcatProperties, Zenon
<1>5. Len(a) + Len(b) = Len(s) - 1
  BY <1>1, <1>2
<1>6. ASSUME NEW i \in 1..(Len(s) - 1)
      PROVE  r[i] = IF i < k THEN s[i] ELSE s[i + 1]
  <2>1. CASE i < k
    <3>1. i <= Len(a) /\ i \in 1..(k - 1)
      BY <1>1, <2>1
    <3> QED
      BY <1>1, <1>4, <1>5, <2>1, <3>1
  <2>2. CASE ~(i < k)
    <3>1. ~(i <= Len(a)) /\ i - Len(a) \in 1..(Len(s) - k) /\ k + (i - Len(a)) = i + 1
      BY <1>1, <2>2
    <3>2. r[i] = b[i - Len(a)]
      BY <1>4, <1>5, <3>1
    <3>3. b[i - Len(a)] = s[i + 1]
      BY <1>2, <3>1
    <3> QED
      BY <2>2, <3>2, <3>3
  <2> QED
    BY <2>1, <2>2
<1>7. DOMAIN r = 1..(Len(s) - 1)
  BY <1>4, <1>5
<1> QED
  BY <1>1, <1>6, <1>7 DEF Without, r

(* Taking an element out keeps the others apart, and apart from it. *)
LEMMA WithoutKeeps ==
    ASSUME NEW s, NEW r, NEW k, Without(r, s, k)
    PROVE  /\ ToSet(r) \subseteq ToSet(s) /\ s[k] \in ToSet(s)
           /\ Distinct(s) => Distinct(r) /\ s[k] \notin ToSet(r)
           /\ DistinctBoxes(s) => DistinctBoxes(r) /\ Apart(Carried(s[k]), BoxesIn(r))
<1> DEFINE at(i) == IF i < k THEN i ELSE i + 1
<1>1. ASSUME NEW i \in DOMAIN r
      PROVE  at(i) \in DOMAIN s /\ at(i) # k /\ r[i] = s[at(i)]
  <2>1. i \in 1..(Len(s) - 1) /\ k \in 1..Len(s) /\ Len(s) \in Nat
    BY <1>1 DEF Without
  <2>2. at(i) \in 1..Len(s) /\ at(i) # k
    BY <2>1
  <2> QED
    BY <2>1, <2>2 DEF Without
<1>2. ASSUME NEW i \in DOMAIN r, NEW j \in DOMAIN r, at(i) = at(j)
      PROVE  i = j
  <2>1. i \in Int /\ j \in Int /\ k \in Int
    BY <1>2 DEF Without
  <2> QED
    BY <1>2, <2>1
<1>3. k \in DOMAIN s
  BY DEF Without
<1> HIDE DEF at
<1>4. ToSet(r) \subseteq ToSet(s) /\ s[k] \in ToSet(s)
  BY <1>1, <1>3 DEF ToSet
<1>5. Distinct(s) => Distinct(r) /\ s[k] \notin ToSet(r)
  BY <1>1, <1>2, <1>3 DEF Distinct, ToSet
<1>6. ASSUME DistinctBoxes(s) PROVE DistinctBoxes(r)
  BY <1>1, <1>2, <1>6 DEF DistinctBoxes
<1>7. ASSUME DistinctBoxes(s) PROVE Apart(Carried(s[k]), BoxesIn(r))
  <2> SUFFICES ASSUME NEW i \in DOMAIN r, r[i].box = s[k].box, s[k].box # NoBox
               PROVE  FALSE
    BY DEF Apart, Carried, BoxesIn
  <2>1. at(i) \in DOMAIN s /\ at(i) # k /\ s[at(i)].box = s[k].box
    BY <1>1
  <2> QED
    BY <1>3, <1>7, <2>1 DEF DistinctBoxes
<1> QED
  BY <1>4, <1>5, <1>6, <1>7

LEMMA AppendKeeps ==
    ASSUME NEW S, NEW s \in Seq(S), NEW x \in S
    PROVE  /\ ToSet(Append(s, x)) = ToSet(s) \cup {x}
           /\ Distinct(s) /\ x \notin ToSet(s) => Distinct(Append(s, x))
           /\ DistinctBoxes(s) /\ Apart(Carried(x), BoxesIn(s)) => DistinctBoxes(Append(s, x))
<1> DEFINE r == Append(s, x)
<1>1. /\ DOMAIN s = 1..Len(s) /\ Len(s) \in Nat
      /\ DOMAIN r = DOMAIN s \cup {Len(s) + 1} /\ Len(s) + 1 \notin DOMAIN s
      /\ \A i \in DOMAIN s : r[i] = s[i]
      /\ r[Len(s) + 1] = x
  OBVIOUS
<1> HIDE DEF r
<1>2. ToSet(r) = ToSet(s) \cup {x}
  BY <1>1 DEF ToSet
<1>3. Distinct(s) /\ x \notin ToSet(s) => Distinct(r)
  BY <1>1 DEF Distinct, ToSet
<1>4. DistinctBoxes(s) /\ Apart(Carried(x), BoxesIn(s)) => DistinctBoxes(r)
  BY <1>1 DEF DistinctBoxes, Apart, Carried, BoxesIn
<1> QED
  BY <1>2, <1>3, <1>4 DEF r

-----------------------------------------------------------------------------
(* The boxes of the slots, the copies and the synths, and those handed     *)
(* over, are different ones.                                               *)
WorldApart ==
    /\ \A i, j \in DOMAIN slots : slots[i] = slots[j] /\ slots[i] # NoBox => i = j
    /\ Apart(Installed, writes) /\ Apart(Installed, synths) /\ Apart(writes, synths)
    /\ Apart(World, out)

Commands == BoxesIn(cmdRing) \cup BoxesIn(sched)
Trash == ToSet(trashRing) \cup ToSet(pendingTrash)

AllApart ==
    /\ WorldApart
    /\ DistinctBoxes(cmdRing) /\ DistinctBoxes(sched) /\ Apart(BoxesIn(cmdRing), BoxesIn(sched))
    /\ Distinct(trashRing) /\ Distinct(pendingTrash) /\ Apart(ToSet(trashRing), ToSet(pendingTrash))
    /\ Apart(Commands, World \cup out)
    /\ Apart(Commands \cup World \cup out, Trash)

(* A box moves between the slots, the copies, the synths and "out" whole.  *)
LEMMA SlotApart ==
    ASSUME slots \in [0..(MaxBuffers - 1) -> Box \cup {NoBox}], WorldApart,
           NEW k \in DOMAIN slots, NEW b, slots' = [slots EXCEPT ![k] = b],
           b = NoBox \/ b \notin Installed
    PROVE  /\ \A i, j \in DOMAIN slots' : slots'[i] = slots'[j] /\ slots'[i] # NoBox => i = j
           /\ Installed' \subseteq (Installed \ {slots[k]}) \cup ({b} \ {NoBox})
<1>1. /\ DOMAIN slots' = DOMAIN slots /\ slots'[k] = b
      /\ \A j \in DOMAIN slots : j # k => slots'[j] = slots[j]
  OBVIOUS
<1>2. \A j \in DOMAIN slots : j # k /\ slots[j] # NoBox => slots[j] # slots[k]
  BY DEF WorldApart
<1>3. Installed' \subseteq (Installed \ {slots[k]}) \cup ({b} \ {NoBox})
  BY <1>1, <1>2 DEF Installed
<1>4. ASSUME NEW i \in DOMAIN slots', NEW j \in DOMAIN slots',
             slots'[i] = slots'[j], slots'[i] # NoBox
      PROVE  i = j
  BY <1>1, <1>4 DEF WorldApart, Installed
<1> QED
  BY <1>3, <1>4

(* One command keeps the boxes of the world apart and brings no box but    *)
(* its own and, for /clearSched, the scheduler's.                          *)
LEMMA ApplyApart ==
    ASSUME WorldOK, WorldApart, out = {}, NEW c \in Command, NEW held, NEW then,
           Apply(c, held, then), DistinctBoxes(held),
           Apart(Carried(c), World \cup BoxesIn(held)), Apart(World, BoxesIn(held))
    PROVE  /\ WorldApart' /\ DistinctBoxes(sched') /\ Apart(BoxesIn(sched'), World' \cup out')
           /\ World' \cup out' \cup BoxesIn(sched') \subseteq World \cup Carried(c) \cup BoxesIn(held)
<1>1. ASSUME WorldApart', World' \cup out' \subseteq World \cup Carried(c), sched' = held
      PROVE  /\ WorldApart' /\ DistinctBoxes(sched') /\ Apart(BoxesIn(sched'), World' \cup out')
             /\ World' \cup out' \cup BoxesIn(sched')
                  \subseteq World \cup Carried(c) \cup BoxesIn(held)
  BY <1>1 DEF Apart
<1>2. CASE Install(c, then) /\ sched' = held
  <2>1. writes' = writes /\ synths' = synths /\ c.box \in Box /\ Carried(c) = {c.box}
    BY <1>2, BoxAssumption DEF Install, Command, BoxOps, PlainOps, Carried
  <2>2. CASE c.index \in DOMAIN slots
    <3>1. slots' = [slots EXCEPT ![c.index] = c.box] /\ out' = {slots[c.index]} \ {NoBox}
      BY <1>2, <2>2 DEF Install, HandOver
    <3>2. /\ \A i, j \in DOMAIN slots' : slots'[i] = slots'[j] /\ slots'[i] # NoBox => i = j
          /\ Installed' \subseteq (Installed \ {slots[c.index]}) \cup ({c.box} \ {NoBox})
      BY <2>1, <2>2, <3>1, SlotApart DEF WorldOK, World, Apart
    <3>3. out' \subseteq Installed
      BY <2>2, <3>1 DEF Installed
    <3>4. WorldApart'
      BY <2>1, <3>1, <3>2, <3>3 DEF WorldApart, World, Apart
    <3> QED
      BY <1>1, <1>2, <2>1, <3>2, <3>3, <3>4 DEF World
  <2>3. CASE c.index \notin DOMAIN slots
    <3>1. slots' = slots /\ out' = {c.box}
      BY <1>2, <2>3 DEF Install, HandOver
    <3>2. WorldApart' /\ World' = World
      BY <2>1, <3>1 DEF WorldApart, World, Apart, Installed
    <3> QED
      BY <1>1, <1>2, <2>1, <3>1, <3>2
  <2> QED
    BY <2>2, <2>3
<1>3. CASE FreeSlot(c, then) /\ sched' = held
  <2>1. writes' = writes /\ synths' = synths
    BY <1>3 DEF FreeSlot
  <2>2. CASE c.index \in DOMAIN slots
    <3>1. slots' = [slots EXCEPT ![c.index] = NoBox] /\ out' = {slots[c.index]} \ {NoBox}
      BY <1>3, <2>2 DEF FreeSlot, HandOver
    <3>2. /\ \A i, j \in DOMAIN slots' : slots'[i] = slots'[j] /\ slots'[i] # NoBox => i = j
          /\ Installed' \subseteq (Installed \ {slots[c.index]}) \cup ({NoBox} \ {NoBox})
      BY <2>2, <3>1, SlotApart DEF WorldOK
    <3>3. out' \subseteq Installed
      BY <2>2, <3>1 DEF Installed
    <3>4. WorldApart'
      BY <2>1, <3>1, <3>2, <3>3 DEF WorldApart, World, Apart
    <3> QED
      BY <1>1, <1>3, <2>1, <3>2, <3>3, <3>4 DEF World
  <2>3. CASE c.index \notin DOMAIN slots
    <3>1. slots' = slots /\ out' = {}
      BY <1>3, <2>3 DEF FreeSlot, HandOver
    <3>2. WorldApart' /\ World' = World
      BY <2>1, <3>1 DEF WorldApart, World, Apart, Installed
    <3> QED
      BY <1>1, <1>3, <3>1, <3>2
  <2> QED
    BY <2>2, <2>3
<1>4. CASE BeginWrite(c, then) /\ sched' = held
  <2>1. /\ slots' = slots /\ synths' = synths /\ Installed' = Installed
        /\ c.box \in Box /\ Carried(c) = {c.box}
    BY <1>4, BoxAssumption DEF BeginWrite, Command, BoxOps, PlainOps, Carried, Installed
  <2>2. \/ writes' = writes \cup {c.box} /\ out' = {}
        \/ writes' = writes /\ out' = {c.box}
    BY <1>4 DEF BeginWrite, HandOver
  <2>3. WorldApart'
    BY <2>1, <2>2 DEF WorldApart, World, Apart
  <2> QED
    BY <1>1, <1>4, <2>1, <2>2, <2>3 DEF World
<1>5. CASE Splice(c, then) /\ sched' = held
  <2>1. /\ UNCHANGED worldVars /\ out' = {c.box} /\ c.box \in Box /\ Carried(c) = {c.box}
    BY <1>5, BoxAssumption DEF Splice, Command, BoxOps, PlainOps, Carried, HandOver
  <2>2. WorldApart' /\ World' = World
    BY <2>1 DEF WorldApart, World, Apart, Installed, worldVars
  <2> QED
    BY <1>1, <1>5, <2>1, <2>2
<1>6. CASE AddSynth(c, then) /\ sched' = held
  <2>1. /\ slots' = slots /\ writes' = writes /\ Installed' = Installed
        /\ c.box \in Box /\ Carried(c) = {c.box}
    BY <1>6, BoxAssumption DEF AddSynth, Command, BoxOps, PlainOps, Carried, Installed
  <2>2. \/ synths' = synths /\ out' = {c.box}
        \/ \E replaced \in SUBSET synths :
             synths' = (synths \ replaced) \cup {c.box} /\ out' = replaced
    BY <1>6 DEF AddSynth, HandOver
  <2>3. WorldApart'
    BY <2>1, <2>2 DEF WorldApart, World, Apart
  <2> QED
    BY <1>1, <1>6, <2>1, <2>2, <2>3 DEF World
<1>7. CASE FreeNodes(c, then) /\ sched' = held
  <2>1. slots' = slots /\ writes' = writes /\ Installed' = Installed
    BY <1>7 DEF FreeNodes, Installed
  <2>2. \E gone \in SUBSET synths : synths' = synths \ gone /\ out' = gone
    BY <1>7 DEF FreeNodes, HandOver
  <2>3. WorldApart'
    BY <2>1, <2>2 DEF WorldApart, World, Apart
  <2> QED
    BY <1>1, <1>7, <2>1, <2>2, <2>3 DEF World
<1>8. CASE (Query(c, then) \/ TraceNode(c, then) \/ NodeRun(c, then) \/ Flat(c, then))
           /\ sched' = held
  <2>1. slots' = slots /\ writes' = writes /\ synths' = synths /\ out' = {}
    BY <1>8 DEF Query, TraceNode, NodeRun, Flat, worldVars, HandOver
  <2>2. WorldApart' /\ World' = World
    BY <2>1 DEF WorldApart, World, Apart, Installed
  <2> QED
    BY <1>1, <1>8, <2>1, <2>2
<1>9. CASE c.op = "clear" /\ sched' = <<>> /\ HandOver(BoxesIn(held), 0, then)
           /\ UNCHANGED worldVars
  <2>1. out' = BoxesIn(held) /\ World' = World
    BY <1>9 DEF HandOver, World, Installed, worldVars
  <2>2. WorldApart'
    BY <1>9, <2>1 DEF WorldApart, World, Apart, Installed, worldVars
  <2>3. BoxesIn(sched') = {} /\ DistinctBoxes(sched')
    BY <1>9 DEF BoxesIn, DistinctBoxes
  <2> QED
    BY <2>1, <2>2, <2>3 DEF Apart
<1> QED
  BY <1>2, <1>3, <1>4, <1>5, <1>6, <1>7, <1>8, <1>9 DEF Apply

LEMMA InitApart == Init => AllApart
<1> SUFFICES ASSUME Init PROVE AllApart
  OBVIOUS
<1>1. /\ Installed = {} /\ writes = {} /\ synths = {} /\ out = {}
      /\ \A i \in DOMAIN slots : slots[i] = NoBox
  BY DEF Init, Installed
<1>2. /\ BoxesIn(cmdRing) = {} /\ BoxesIn(sched) = {}
      /\ ToSet(trashRing) = {} /\ ToSet(pendingTrash) = {}
      /\ DistinctBoxes(cmdRing) /\ DistinctBoxes(sched)
      /\ Distinct(trashRing) /\ Distinct(pendingTrash)
  BY DEF Init, BoxesIn, ToSet, DistinctBoxes, Distinct
<1> QED
  BY <1>1, <1>2 DEF AllApart, WorldApart, World, Apart, Commands, Trash

(* The trash queues do not change while a command is applied. *)
LEMMA CommandApart ==
    ASSUME WorldOK, AllApart, out = {}, NEW c \in Command, NEW held, NEW then,
           Apply(c, held, then), DistinctBoxes(held), DistinctBoxes(cmdRing'),
           UNCHANGED trashVars,
           Carried(c) \cup BoxesIn(held) \cup BoxesIn(cmdRing') \subseteq Commands,
           Apart(Carried(c), BoxesIn(held)),
           Apart(BoxesIn(cmdRing'), Carried(c) \cup BoxesIn(held))
    PROVE  AllApart'
<1>1. Apart(Carried(c), World \cup BoxesIn(held)) /\ Apart(World, BoxesIn(held))
  BY DEF AllApart, Apart
<1>2. /\ WorldApart' /\ DistinctBoxes(sched') /\ Apart(BoxesIn(sched'), World' \cup out')
      /\ World' \cup out' \cup BoxesIn(sched') \subseteq World \cup Carried(c) \cup BoxesIn(held)
  BY <1>1, ApplyApart DEF AllApart
<1>3. Apart(BoxesIn(cmdRing'), World' \cup out' \cup BoxesIn(sched'))
  BY <1>2 DEF AllApart, Apart
<1>4. Apart(Commands' \cup World' \cup out', Trash)
  BY <1>2 DEF AllApart, Apart, Commands
<1>5. trashRing' = trashRing /\ pendingTrash' = pendingTrash /\ Trash' = Trash
  BY DEF trashVars, Trash
<1>6. Apart(Commands', World' \cup out') /\ Apart(BoxesIn(cmdRing'), BoxesIn(sched'))
  BY <1>2, <1>3 DEF Apart, Commands
<1> QED
  BY <1>2, <1>4, <1>5, <1>6 DEF AllApart

LEMMA IntakeApart ==
    ASSUME TrashInv, AllApart, Intake
    PROVE  AllApart'
<1> DEFINE c == Head(cmdRing)
<1>1. /\ cmdRing \in Seq(Command) /\ cmdRing # <<>> /\ cmdRing' = Tail(cmdRing)
      /\ sched \in Seq(Command) /\ c \in Command
      /\ out = {} /\ UNCHANGED trashVars /\ WorldOK
  BY TrashInvFacts DEF Intake, TrashInv, TypeOK
<1>2. /\ DistinctBoxes(cmdRing') /\ Apart(Carried(c), BoxesIn(cmdRing'))
      /\ BoxesIn(cmdRing') \cup Carried(c) \subseteq BoxesIn(cmdRing)
  <2>1. Without(cmdRing', cmdRing, 1) /\ c = cmdRing[1]
    BY <1>1, TailWithout
  <2>2. /\ DistinctBoxes(cmdRing') /\ Apart(Carried(c), BoxesIn(cmdRing'))
        /\ ToSet(cmdRing') \cup {c} \subseteq ToSet(cmdRing)
    BY <2>1, WithoutKeeps DEF AllApart
  <2> QED
    BY <2>2, BoxesOf DEF Carried
<1> HIDE DEF c
<1>3. /\ DistinctBoxes(sched) /\ Apart(BoxesIn(cmdRing), BoxesIn(sched))
  BY DEF AllApart
<1>4. CASE Apply(c, sched, "intake")
  <2>1. /\ Carried(c) \cup BoxesIn(sched) \cup BoxesIn(cmdRing') \subseteq Commands
        /\ Apart(Carried(c), BoxesIn(sched))
        /\ Apart(BoxesIn(cmdRing'), Carried(c) \cup BoxesIn(sched))
    BY <1>2, <1>3 DEF Apart, Commands
  <2> QED
    BY <1>1, <1>2, <1>3, <1>4, <2>1, CommandApart
<1>5. CASE sched' = Append(sched, c) /\ UNCHANGED <<worldVars, out>>
  <2>1. DistinctBoxes(sched') /\ BoxesIn(sched') = BoxesIn(sched) \cup Carried(c)
    <3>1. ToSet(sched') = ToSet(sched) \cup {c}
      BY <1>1, <1>5, AppendKeeps
    <3>2. Apart(Carried(c), BoxesIn(sched))
      BY <1>2, <1>3 DEF Apart
    <3>3. DistinctBoxes(sched')
      BY <1>1, <1>3, <1>5, <3>2, AppendKeeps
    <3> QED
      BY <3>1, <3>3, BoxesOf DEF Carried
  <2>2. World' = World /\ out' = out /\ WorldApart'
    BY <1>5 DEF AllApart, WorldApart, World, Installed, Apart, worldVars
  <2>3. trashRing' = trashRing /\ pendingTrash' = pendingTrash /\ Trash' = Trash
    BY <1>1 DEF trashVars, Trash
  <2>4. Commands' \subseteq Commands /\ Apart(BoxesIn(cmdRing'), BoxesIn(sched'))
    BY <1>2, <1>3, <2>1 DEF Commands, Apart
  <2> QED
    BY <1>2, <2>1, <2>2, <2>3, <2>4 DEF AllApart, Apart
<1> QED
  BY <1>4, <1>5 DEF Intake, c, emitVars

LEMMA ApplyDueApart ==
    ASSUME TrashInv, AllApart, ApplyDue
    PROVE  AllApart'
<1>1. /\ cmdRing' = cmdRing /\ sched \in Seq(Command)
      /\ out = {} /\ UNCHANGED trashVars /\ WorldOK
  BY TrashInvFacts DEF ApplyDue, TrashInv, TypeOK
<1>2. PICK i \in 1..Len(sched) : Apply(sched[i], RemoveAt(sched, i), "due")
  BY DEF ApplyDue
<1> DEFINE c == sched[i]
           held == RemoveAt(sched, i)
<1>3. c \in Command
  BY <1>1, <1>2
<1>4. /\ DistinctBoxes(held) /\ Apart(Carried(c), BoxesIn(held))
      /\ BoxesIn(held) \cup Carried(c) \subseteq BoxesIn(sched)
  <2>1. Without(held, sched, i)
    BY <1>1, <1>2, RemoveWithout
  <2>2. /\ DistinctBoxes(held) /\ Apart(Carried(c), BoxesIn(held))
        /\ ToSet(held) \cup {c} \subseteq ToSet(sched)
    BY <2>1, WithoutKeeps DEF AllApart
  <2> QED
    BY <2>2, BoxesOf DEF Carried
<1>5. Apply(c, held, "due")
  BY <1>2
<1> HIDE DEF c, held
<1>6. /\ Carried(c) \cup BoxesIn(held) \cup BoxesIn(cmdRing') \subseteq Commands
      /\ Apart(BoxesIn(cmdRing'), Carried(c) \cup BoxesIn(held))
      /\ DistinctBoxes(cmdRing')
  BY <1>1, <1>4 DEF AllApart, Apart, Commands
<1> QED
  BY <1>1, <1>3, <1>4, <1>5, <1>6, CommandApart

LEMMA PushApart ==
    ASSUME TrashInv, AllApart, Push
    PROVE  AllApart'
<1>1. PICK c \in Command : c.box \notin InUse /\ cmdRing' = Append(cmdRing, c)
  BY DEF Push
<1>2. cmdRing \in Seq(Command)
  BY DEF TrashInv, TypeOK
<1>3. Apart(Carried(c), Queued \cup World \cup out)
  BY <1>1, InUseIs DEF Apart, Carried
<1>4. DistinctBoxes(cmdRing') /\ BoxesIn(cmdRing') = BoxesIn(cmdRing) \cup Carried(c)
  <2>1. ToSet(cmdRing') = ToSet(cmdRing) \cup {c}
    BY <1>1, <1>2, AppendKeeps
  <2>2. Apart(Carried(c), BoxesIn(cmdRing))
    BY <1>3 DEF Apart, Queued
  <2>3. DistinctBoxes(cmdRing')
    BY <1>1, <1>2, <2>2, AppendKeeps DEF AllApart
  <2> QED
    BY <2>1, <2>3, BoxesOf DEF Carried
<1>5. /\ sched' = sched /\ trashRing' = trashRing /\ pendingTrash' = pendingTrash
      /\ World' = World /\ out' = out /\ WorldApart' /\ Trash' = Trash
  BY DEF Push, AllApart, WorldApart, World, Installed, Apart, Trash, worldVars, trashVars, emitVars
<1>6. Commands' = Commands \cup Carried(c)
  BY <1>4, <1>5 DEF Commands
<1> QED
  BY <1>3, <1>4, <1>5, <1>6 DEF AllApart, Apart, Queued, Trash

LEMMA TrashApart ==
    ASSUME TrashInv, AllApart, TrashBox \/ FlushTrash \/ NrtDrop
    PROVE  AllApart'
<1>1. trashRing \in Seq(Box) /\ pendingTrash \in Seq(Box) /\ out \in SUBSET Box
  BY DEF TrashInv, TypeOK
<1>2. /\ cmdRing' = cmdRing /\ sched' = sched /\ World' = World /\ Commands' = Commands
      /\ UNCHANGED worldVars /\ out' \subseteq out
  BY DEF TrashBox, FlushTrash, NrtDrop, World, Installed, Commands, worldVars, intakeVars,
         emitVars
<1>3. WorldApart'
  BY <1>2 DEF AllApart, WorldApart, World, Installed, Apart, worldVars
<1>4. ASSUME Distinct(trashRing'), Distinct(pendingTrash'),
             Apart(ToSet(trashRing'), ToSet(pendingTrash')), Apart(out', Trash'),
             Trash' \subseteq Trash \cup out
      PROVE  AllApart'
  <2>1. Apart(Commands \cup World, out)
    BY DEF AllApart, WorldApart, Apart
  <2>2. Apart(Commands' \cup World' \cup out', Trash')
    BY <1>2, <1>4, <2>1 DEF AllApart, Apart
  <2> QED
    BY <1>2, <1>3, <1>4, <2>2 DEF AllApart, Apart
<1>5. CASE TrashBox
  <2>1. PICK b \in out :
          /\ out' = out \ {b}
          /\ \/ trashRing' = Append(trashRing, b) /\ UNCHANGED pendingTrash
             \/ pendingTrash' = Append(pendingTrash, b) /\ UNCHANGED trashRing
    BY <1>5 DEF TrashBox
  <2>2. b \notin ToSet(trashRing) /\ b \notin ToSet(pendingTrash)
    BY <2>1 DEF AllApart, Apart, Trash
  <2>3. /\ ToSet(Append(trashRing, b)) = ToSet(trashRing) \cup {b}
        /\ ToSet(Append(pendingTrash, b)) = ToSet(pendingTrash) \cup {b}
        /\ Distinct(Append(trashRing, b)) /\ Distinct(Append(pendingTrash, b))
    BY <1>1, <2>1, <2>2, AppendKeeps DEF AllApart
  <2> QED
    BY <1>4, <2>1, <2>2, <2>3 DEF AllApart, Apart, Trash
<1>6. CASE FlushTrash
  <2>1. out' = out
    BY <1>6 DEF FlushTrash, emitVars
  <2>2. CASE /\ pendingTrash # <<>>
             /\ trashRing' = Append(trashRing, Last(pendingTrash))
             /\ pendingTrash' = Front(pendingTrash)
    <3> DEFINE b == Last(pendingTrash)
    <3>1. /\ b \in Box /\ Distinct(pendingTrash') /\ b \notin ToSet(pendingTrash')
          /\ ToSet(pendingTrash') \cup {b} \subseteq ToSet(pendingTrash)
      <4>1. b \in Box
        BY <1>1, <2>2, FrontLast
      <4>2. Without(pendingTrash', pendingTrash, Len(pendingTrash))
            /\ b = pendingTrash[Len(pendingTrash)]
        BY <1>1, <2>2, FrontWithout
      <4> QED
        BY <4>1, <4>2, WithoutKeeps DEF AllApart
    <3> HIDE DEF b
    <3>2. b \notin ToSet(trashRing)
      BY <3>1 DEF AllApart, Apart
    <3>3. /\ ToSet(trashRing') = ToSet(trashRing) \cup {b} /\ Distinct(trashRing')
      BY <1>1, <2>2, <3>1, <3>2, AppendKeeps DEF AllApart, b
    <3> QED
      BY <1>4, <2>1, <3>1, <3>3 DEF AllApart, Apart, Trash
  <2>3. CASE UNCHANGED trashVars
    BY <1>4, <2>1, <2>3 DEF AllApart, Apart, Trash, trashVars
  <2> QED
    BY <1>6, <2>2, <2>3 DEF FlushTrash
<1>7. CASE NrtDrop
  <2>1. out' = out /\ trashRing # <<>> /\ trashRing' = Tail(trashRing)
        /\ pendingTrash' = pendingTrash
    BY <1>7 DEF NrtDrop, emitVars
  <2>2. Without(trashRing', trashRing, 1)
    BY <1>1, <2>1, TailWithout
  <2>3. Distinct(trashRing') /\ ToSet(trashRing') \subseteq ToSet(trashRing)
    BY <2>2, WithoutKeeps DEF AllApart
  <2> QED
    BY <1>4, <2>1, <2>3 DEF AllApart, Apart, Trash
<1> QED
  BY <1>5, <1>6, <1>7

LEMMA OthersApart ==
    ASSUME TrashInv, AllApart,
           \/ NrtPollReply \/ FlushReplies \/ EndIntake \/ EndDue \/ SendReply \/ EndEmit
           \/ Walk \/ DriveWrites \/ UNCHANGED vars
    PROVE  AllApart'
<1>1. /\ cmdRing' = cmdRing /\ sched' = sched /\ trashRing' = trashRing
      /\ pendingTrash' = pendingTrash /\ slots' = slots /\ Installed' = Installed
      /\ Commands' = Commands /\ Trash' = Trash
  BY DEF NrtPollReply, FlushReplies, EndIntake, EndDue, SendReply, EndEmit, Walk, DriveWrites,
         vars, worldVars, intakeVars, trashVars, Installed, Commands, Trash
<1>2. \/ synths' = synths /\ writes' = writes /\ out' = out
      \/ out = {} /\ writes' = writes /\ out' \subseteq synths /\ synths' = synths \ out'
      \/ out = {} /\ synths' = synths /\ out' \subseteq writes /\ writes' = writes \ out'
  <2>1. CASE Walk
    <3>1. PICK gone \in SUBSET synths : synths' = synths \ gone /\ out' = gone
      BY <2>1, Zenon DEF Walk, HandOver
    <3>2. out = {} /\ writes' = writes
      BY <2>1 DEF Walk, TrashInv
    <3> QED
      BY <3>1, <3>2
  <2>2. CASE DriveWrites
    <3>1. PICK done \in SUBSET writes : writes' = writes \ done /\ out' = done
      BY <2>2 DEF DriveWrites, HandOver
    <3>2. out = {} /\ synths' = synths
      BY <2>2 DEF DriveWrites, TrashInv
    <3> QED
      BY <3>1, <3>2
  <2>3. CASE ~Walk /\ ~DriveWrites
    BY <2>3 DEF NrtPollReply, FlushReplies, EndIntake, EndDue, SendReply, EndEmit, vars,
                worldVars, emitVars
  <2> QED
    BY <2>1, <2>2, <2>3
<1>3. WorldApart' /\ World' \cup out' \subseteq World \cup out
  BY <1>1, <1>2 DEF AllApart, WorldApart, World, Apart
<1> QED
  BY <1>1, <1>3 DEF AllApart, Apart

LEMMA StepApart == TrashInv /\ AllApart /\ [Next]_vars => AllApart'
  BY IntakeApart, ApplyDueApart, PushApart, TrashApart, OthersApart DEF Next, Audio

(* Sets of places with at most one member. *)
LEMMA CountOne ==
    ASSUME NEW S, \A i, j \in S : i = j
    PROVE  /\ Cardinality(S) \in {0, 1}
           /\ S = {} => Cardinality(S) = 0
<1>1. CASE S = {}
  BY <1>1, FS_EmptySet
<1>2. CASE S # {}
  <2>1. PICK x \in S : S = {x}
    BY <1>2
  <2> QED
    BY <1>2, <2>1, FS_Singleton
<1> QED
  BY <1>1, <1>2

LEMMA OneHolderFromApart == TypeOK /\ AllApart => OneHolder
<1> SUFFICES ASSUME TypeOK, AllApart, NEW b \in Box PROVE Holders(b) <= 1
  BY DEF OneHolder
<1> DEFINE inRing == {i \in DOMAIN cmdRing : cmdRing[i].box = b}
           inSched == {i \in DOMAIN sched : sched[i].box = b}
           inSlots == {i \in DOMAIN slots : slots[i] = b}
           inTrash == {i \in DOMAIN trashRing : trashRing[i] = b}
           inPending == {i \in DOMAIN pendingTrash : pendingTrash[i] = b}
           inSets == {s \in {1, 2, 3} : b \in <<writes, synths, out>>[s]}
<1>1. b # NoBox
  BY BoxAssumption
<1>2. /\ \A i, j \in inRing : i = j
      /\ \A i, j \in inSched : i = j
      /\ \A i, j \in inSlots : i = j
      /\ \A i, j \in inTrash : i = j
      /\ \A i, j \in inPending : i = j
  BY <1>1 DEF AllApart, WorldApart, DistinctBoxes, Distinct
<1>3. \A i, j \in inSets : i = j
  <2>1. ~(b \in writes /\ b \in synths) /\ ~(b \in writes \cup synths /\ b \in out)
    BY DEF AllApart, WorldApart, World, Apart
  <2> QED
    BY <2>1
<1>4. /\ inRing # {} => b \in BoxesIn(cmdRing)
      /\ inSched # {} => b \in BoxesIn(sched)
      /\ inSlots # {} => b \in Installed
      /\ inTrash # {} => b \in ToSet(trashRing)
      /\ inPending # {} => b \in ToSet(pendingTrash)
  BY <1>1 DEF BoxesIn, Installed, ToSet
<1>5. inSets # {} => b \in writes \cup synths \cup out
  OBVIOUS
<1>6. /\ Cardinality(inRing) \in {0, 1} /\ (inRing = {} => Cardinality(inRing) = 0)
      /\ Cardinality(inSched) \in {0, 1} /\ (inSched = {} => Cardinality(inSched) = 0)
      /\ Cardinality(inSlots) \in {0, 1} /\ (inSlots = {} => Cardinality(inSlots) = 0)
      /\ Cardinality(inTrash) \in {0, 1} /\ (inTrash = {} => Cardinality(inTrash) = 0)
      /\ Cardinality(inPending) \in {0, 1} /\ (inPending = {} => Cardinality(inPending) = 0)
      /\ Cardinality(inSets) \in {0, 1} /\ (inSets = {} => Cardinality(inSets) = 0)
  BY <1>2, <1>3, CountOne
<1>7. /\ inRing # {} => inSched = {} /\ inSlots = {} /\ inTrash = {} /\ inPending = {} /\ inSets = {}
      /\ inSched # {} => inSlots = {} /\ inTrash = {} /\ inPending = {} /\ inSets = {}
      /\ inSlots # {} => inTrash = {} /\ inPending = {} /\ inSets = {}
      /\ inTrash # {} => inPending = {} /\ inSets = {}
      /\ inPending # {} => inSets = {}
  <2>1. /\ b \in BoxesIn(cmdRing) => b \notin BoxesIn(sched)
        /\ b \in BoxesIn(cmdRing) \cup BoxesIn(sched) =>
             b \notin Installed /\ b \notin writes \cup synths \cup out
        /\ b \in Installed => b \notin writes \cup synths \cup out
        /\ b \in BoxesIn(cmdRing) \cup BoxesIn(sched) \cup Installed \cup writes \cup synths \cup out =>
             b \notin ToSet(trashRing) /\ b \notin ToSet(pendingTrash)
        /\ b \in ToSet(trashRing) => b \notin ToSet(pendingTrash)
    BY DEF AllApart, WorldApart, World, Apart, Commands, Trash
  <2> HIDE DEF inRing, inSched, inSlots, inTrash, inPending, inSets
  <2> QED
    BY <1>4, <1>5, <2>1
<1> HIDE DEF inRing, inSched, inSlots, inTrash, inPending, inSets
<1>8. Cardinality(inRing) + Cardinality(inSched) + Cardinality(inSlots) + Cardinality(inTrash)
        + Cardinality(inPending) + Cardinality(inSets) <= 1
  BY <1>6, <1>7
<1> QED
  BY <1>8 DEF Holders, inRing, inSched, inSlots, inTrash, inPending, inSets

(* Every box given to the engine has one holder at a time, whichever of    *)
(* the three threads moves it, for every capacity and any number of boxes: *)
(* it is never handed over twice, so Nrt drops it once (World::apply,      *)
(* World::trash, apply_done_action, drive_writes).                         *)
THEOREM BoxesHeldOnce == Spec => []OneHolder
<1>1. Init => AllApart
  BY InitApart
<1>2. TrashInv /\ AllApart /\ [Next]_vars => AllApart'
  BY StepApart
<1>3. TrashInv /\ AllApart => OneHolder
  BY OneHolderFromApart DEF TrashInv
<1> QED
  BY <1>1, <1>2, <1>3, TrashInvariant, PTL DEF Spec
==============================================================================
