------------------------------ MODULE RtBacklog ------------------------------
(***************************************************************************)
(* The traffic between the audio thread (World), the control thread        *)
(* (Controller) and the NRT thread (Nrt): the command ring, the scheduler, *)
(* the trash and reply rings, the two backlogs the audio thread keeps when *)
(* a ring is full, and the gate that stops command intake while a backlog  *)
(* is not empty (world.rs: drain_commands, backlogs_flushed).              *)
(*                                                                         *)
(* A Box is a heap object that travels with a command: a buffer, a stream  *)
(* or recording endpoint, or a synth's allocation table.  The audio thread *)
(* must hand every Box back through the trash ring and may not let its     *)
(* backlogs outgrow the capacity reserved for them at construction.        *)
(*                                                                         *)
(* A step of the audio thread is one ring operation, so the two other      *)
(* threads interleave with the pops and pushes inside a control block.     *)
(* What a synth computes is abstracted to which synths end, pause, resume  *)
(* or answer a trace; a synth is named by its allocation table (a synth    *)
(* without one owns no heap and is not represented).  When a scheduled     *)
(* command falls due is left open here: any of them may.                   *)
(***************************************************************************)
EXTENDS Integers, SequencesExt, FiniteSets

CONSTANTS
    Box,              \* the heap objects of one run
    NoBox,            \* "no heap object"
    MaxNodes,         \* Options::max_nodes
    MaxBuffers,       \* Options::max_buffers
    MaxScheduled,     \* Options::max_scheduled
    CommandCapacity,  \* slots of the command ring
    TrashCapacity,    \* slots of the trash ring
    ReplyCapacity,    \* slots of the reply ring
    TreeCapacity,     \* most replies of one query, and of one block's traces
    TraceLength,      \* records in one synth's trace dump
    ReplyIds,         \* replies are numbered modulo this bound
    Ops               \* the operations the clients and the units perform

(* Options are unsigned; engine() gives every ring at least one slot, and  *)
(* ReplyIds must only exceed the number of replies in flight.              *)
ASSUME BoxAssumption == IsFiniteSet(Box) /\ NoBox \notin Box
ASSUME OptionsAssumption ==
    /\ MaxNodes \in Nat /\ MaxBuffers \in Nat /\ MaxScheduled \in Nat
    /\ MaxNodes >= 1
ASSUME RingAssumption ==
    /\ CommandCapacity \in Nat \ {0}
    /\ TrashCapacity \in Nat \ {0}
    /\ ReplyCapacity \in Nat \ {0}
ASSUME ReplyAssumption ==
    /\ TreeCapacity \in Nat \ {0}
    /\ TraceLength \in Nat
    /\ ReplyIds \in Nat \ {0}

VARIABLES
    pc,              \* where the audio thread is in World::run_one_block
    resume,          \* where it continues after handing over "out" and "answers"
    cmdRing,         \* command ring: Controller -> World
    sched,           \* commands held by the Scheduler
    slots,           \* buffer table
    writes,          \* recordings of the /b_write copies in flight
    synths,          \* allocation tables of the live synths
    paused,          \* the paused ones
    traced,          \* the ones a /n_trace has flagged
    out,             \* boxes the current operation has yet to trash
    answers,         \* replies the current operation has yet to send
    trashRing,       \* trash ring: World -> Nrt
    pendingTrash,    \* World.pending_trash
    replyRing,       \* reply ring: World -> Nrt
    pendingReplies,  \* World.pending_replies
    lastReply        \* number of the latest reply composed

worldVars == <<slots, writes, synths, paused, traced>>
intakeVars == <<cmdRing, sched>>
trashVars == <<trashRing, pendingTrash>>
replyVars == <<replyRing, pendingReplies>>
emitVars == <<out, answers, lastReply>>
vars == <<pc, resume, worldVars, intakeVars, trashVars, replyVars, emitVars>>

AtLeastOne(n) == IF n < 1 THEN 1 ELSE n
SchedulerCapacity == AtLeastOne(MaxScheduled)
PendingTrashCapacity == 2 * MaxScheduled + 2 * MaxBuffers + MaxNodes
PendingRepliesCapacity == 2 * TreeCapacity

(* Commands, by what they do to the heap and to the reply ring.  "install" *)
(* is SetBuffer/CueStream/CueRecording, "free" FreeBuffer/CloseRecording,  *)
(* "splice" WriteBufferRegion, "remove" FreeNode/FreeAll/DeepFree, "query" *)
(* every getter, "flat" a command without a Box, a reply or a freed node.  *)
BoxOps == {"install", "write", "splice", "new"}
PlainOps == {"free", "remove", "clear", "query", "trace", "run", "flat"}
UnitOps == {"unit_pause", "unit_resume", "unit_free"}
Command ==
    [op : BoxOps \cap Ops, box : Box, index : 0..MaxBuffers, timed : BOOLEAN]
        \cup
    [op : PlainOps \cap Ops, box : {NoBox}, index : 0..MaxBuffers, timed : BOOLEAN]
BoxesIn(commands) == {commands[i].box : i \in DOMAIN commands} \ {NoBox}
Installed == {slots[i] : i \in DOMAIN slots} \ {NoBox}

(* The boxes the control thread has given away and Nrt has not yet freed.  *)
InUse == BoxesIn(cmdRing) \cup BoxesIn(sched) \cup Installed \cup writes
         \cup synths \cup out \cup ToSet(trashRing) \cup ToSet(pendingTrash)

NextReplies(n) == [i \in 1..n |-> (lastReply + i) % ReplyIds]

Init ==
    /\ pc = "flushTrash" /\ resume = "intake"
    /\ cmdRing = <<>> /\ sched = <<>>
    /\ slots = [i \in 0..(MaxBuffers - 1) |-> NoBox]
    /\ writes = {} /\ synths = {} /\ paused = {} /\ traced = {}
    /\ out = {} /\ answers = <<>> /\ lastReply = 0
    /\ trashRing = <<>> /\ pendingTrash = <<>>
    /\ replyRing = <<>> /\ pendingReplies = <<>>

-----------------------------------------------------------------------------
(* The control thread.                                                     *)

(* Controller::push: a full ring refuses the command (QueueFull) and the   *)
(* control thread keeps its box.                                           *)
Push ==
    /\ Len(cmdRing) < CommandCapacity
    /\ \E c \in Command :
          /\ c.box \notin InUse
          /\ c.op \notin {"install", "free"} => c.index = 0
          /\ cmdRing' = Append(cmdRing, c)
    /\ UNCHANGED <<pc, resume, sched, worldVars, trashVars, replyVars, emitVars>>

-----------------------------------------------------------------------------
(* The NRT thread.                                                         *)

(* One round of the loop in Nrt::process: the Box is dropped here.         *)
NrtDrop ==
    /\ trashRing # <<>>
    /\ trashRing' = Tail(trashRing)
    /\ UNCHANGED <<pc, resume, worldVars, intakeVars, pendingTrash, replyVars, emitVars>>

(* Nrt::poll_reply. *)
NrtPollReply ==
    /\ replyRing # <<>>
    /\ replyRing' = Tail(replyRing)
    /\ UNCHANGED <<pc, resume, worldVars, intakeVars, trashVars, pendingReplies, emitVars>>

-----------------------------------------------------------------------------
(* The audio thread: the start of a block.                                 *)

(* Mutant: the block starts without its flush of the answers. *)
NoReplyFlush ==
    /\ pc = "flushReplies" /\ pc' = "intake"
    /\ UNCHANGED <<resume, worldVars, intakeVars, trashVars, replyVars, emitVars>>

(* flush_pending_trash pops the newest item, and puts it back and stops    *)
(* when the ring is full.                                                  *)
FlushTrash ==
    /\ pc = "flushTrash"
    /\ \/ /\ pendingTrash # <<>> /\ Len(trashRing) < TrashCapacity
          /\ trashRing' = Append(trashRing, Last(pendingTrash))
          /\ pendingTrash' = Front(pendingTrash)
          /\ UNCHANGED pc
       \/ /\ pendingTrash = <<>> \/ Len(trashRing) >= TrashCapacity
          /\ pc' = "flushReplies"
          /\ UNCHANGED trashVars
    /\ UNCHANGED <<resume, worldVars, intakeVars, replyVars, emitVars>>

(* flush_pending_replies sends the oldest answer first. *)
FlushReplies ==
    /\ pc = "flushReplies"
    /\ \/ /\ pendingReplies # <<>> /\ Len(replyRing) < ReplyCapacity
          /\ replyRing' = Append(replyRing, Head(pendingReplies))
          /\ pendingReplies' = Tail(pendingReplies)
          /\ UNCHANGED pc
       \/ /\ pendingReplies = <<>> \/ Len(replyRing) >= ReplyCapacity
          /\ pc' = "intake"
          /\ UNCHANGED replyVars
    /\ UNCHANGED <<resume, worldVars, intakeVars, trashVars, emitVars>>

(* Mutants: a gate that watches one backlog only. *)
RepliesFlushed == pendingReplies = <<>>
TrashFlushed == pendingTrash = <<>>

(* backlogs_flushed: the gate on command intake. *)
BacklogsFlushed == pendingTrash = <<>> /\ pendingReplies = <<>>

(* What one operation leaves to hand over, and where the block goes on.    *)
HandOver(boxes, n, then) ==
    /\ out' = boxes
    /\ answers' = NextReplies(n)
    /\ lastReply' = (lastReply + n) % ReplyIds
    /\ pc' = "emit" /\ resume' = then

-----------------------------------------------------------------------------
(* World::apply, one operator per kind of command.                         *)

(* SetBuffer, CueStream, CueRecording: BufferTable::replace returns the    *)
(* displaced box, or the new one if the index is out of range.             *)
Install(c, then) ==
    /\ c.op = "install"
    /\ IF c.index \in DOMAIN slots
       THEN /\ slots' = [slots EXCEPT ![c.index] = c.box]
            /\ HandOver({slots[c.index]} \ {NoBox}, 0, then)
       ELSE /\ UNCHANGED slots
            /\ HandOver({c.box}, 0, then)
    /\ UNCHANGED <<writes, synths, paused, traced>>

(* Mutant: the slot keeps the buffer it hands over. *)
FreeSlotKeeping(c, then) ==
    /\ c.op = "free"
    /\ HandOver(IF c.index \in DOMAIN slots THEN {slots[c.index]} \ {NoBox} ELSE {}, 0, then)
    /\ UNCHANGED worldVars

(* FreeBuffer, CloseRecording. *)
FreeSlot(c, then) ==
    /\ c.op = "free"
    /\ IF c.index \in DOMAIN slots
       THEN /\ slots' = [slots EXCEPT ![c.index] = NoBox]
            /\ HandOver({slots[c.index]} \ {NoBox}, 0, then)
       ELSE /\ UNCHANGED slots
            /\ HandOver({}, 0, then)
    /\ UNCHANGED <<writes, synths, paused, traced>>

(* Mutant: a refused copy is dropped on the spot. *)
BeginWriteDropping(c, then) ==
    /\ c.op = "write"
    /\ writes' = IF Cardinality(writes) < MaxBuffers THEN writes \cup {c.box} ELSE writes
    /\ HandOver({}, 0, then)
    /\ UNCHANGED <<slots, synths, paused, traced>>

(* WriteBuffer: refused when a copy per buffer slot is already in flight.  *)
BeginWrite(c, then) ==
    /\ c.op = "write"
    /\ IF Cardinality(writes) < MaxBuffers
       THEN writes' = writes \cup {c.box} /\ HandOver({}, 0, then)
       ELSE UNCHANGED writes /\ HandOver({c.box}, 0, then)
    /\ UNCHANGED <<slots, synths, paused, traced>>

(* WriteBufferRegion: copy, then trash the source. *)
Splice(c, then) ==
    /\ c.op = "splice"
    /\ HandOver({c.box}, 0, then)
    /\ UNCHANGED worldVars

(* AddSynth.  It fails on a missing def, a table of another size, a full   *)
(* pool, a duplicate id, a bad target or a full tree, and then trashes its *)
(* table.  An addReplace frees its target's subtree, whose slots are free  *)
(* only after the new node has taken one: it too needs a free slot.        *)
AddSynth(c, then) ==
    /\ c.op = "new"
    /\ \/ /\ HandOver({c.box}, 0, then)
          /\ UNCHANGED <<synths, paused, traced>>
       \/ /\ Cardinality(synths) < MaxNodes - 1
          /\ \E replaced \in SUBSET synths :
                /\ synths' = (synths \ replaced) \cup {c.box}
                /\ paused' = paused \ replaced
                /\ traced' = traced \ replaced
                /\ HandOver(replaced, 0, then)
    /\ UNCHANGED <<slots, writes>>

(* FreeNode, FreeAll, DeepFree: the synths of some subtree. *)
FreeNodes(c, then) ==
    /\ c.op = "remove"
    /\ \E gone \in SUBSET synths :
          /\ synths' = synths \ gone
          /\ paused' = paused \ gone
          /\ traced' = traced \ gone
          /\ HandOver(gone, 0, then)
    /\ UNCHANGED <<slots, writes>>

(* The getters: at most a whole tree dump. *)
Query(c, then) ==
    /\ c.op = "query"
    /\ \E n \in 1..TreeCapacity : HandOver({}, n, then)
    /\ UNCHANGED worldVars

(* TraceNode: a live synth, or nothing if the id is unknown. *)
TraceNode(c, then) ==
    /\ c.op = "trace"
    /\ \/ \E s \in synths : traced' = traced \cup {s}
       \/ UNCHANGED traced
    /\ HandOver({}, 0, then)
    /\ UNCHANGED <<slots, writes, synths, paused>>

(* NodeRun. *)
NodeRun(c, then) ==
    /\ c.op = "run"
    /\ \/ \E s \in synths : paused' \in {paused \cup {s}, paused \ {s}}
       \/ UNCHANGED paused
    /\ HandOver({}, 0, then)
    /\ UNCHANGED <<slots, writes, synths, traced>>

Flat(c, then) ==
    /\ c.op = "flat"
    /\ HandOver({}, 0, then)
    /\ UNCHANGED worldVars

(* Every command but ClearSched, which is the one that changes the         *)
(* scheduler it may itself have come from: held is what it still holds.    *)
Apply(c, held, then) ==
    \/ /\ \/ Install(c, then) \/ FreeSlot(c, then) \/ BeginWrite(c, then)
          \/ Splice(c, then) \/ AddSynth(c, then) \/ FreeNodes(c, then)
          \/ Query(c, then) \/ TraceNode(c, then) \/ NodeRun(c, then)
          \/ Flat(c, then)
       /\ sched' = held
    \/ /\ c.op = "clear"
       /\ sched' = <<>>
       /\ HandOver(BoxesIn(held), 0, then)
       /\ UNCHANGED worldVars

-----------------------------------------------------------------------------
(* drain_commands: the gate is read before each pop.  A timed command goes *)
(* to the scheduler, or is applied at once when that is full.              *)
Intake ==
    /\ pc = "intake"
    /\ BacklogsFlushed /\ cmdRing # <<>>
    /\ LET c == Head(cmdRing) IN
          /\ cmdRing' = Tail(cmdRing)
          /\ IF c.timed /\ Len(sched) < SchedulerCapacity
             THEN /\ sched' = Append(sched, c)
                  /\ UNCHANGED <<pc, resume, worldVars, emitVars>>
             ELSE Apply(c, sched, "intake")
    /\ UNCHANGED <<trashVars, replyVars>>

EndIntake ==
    /\ pc = "intake"
    /\ ~BacklogsFlushed \/ cmdRing = <<>>
    /\ pc' = "due"
    /\ UNCHANGED <<resume, worldVars, intakeVars, trashVars, replyVars, emitVars>>

(* apply_due_scheduled. *)
ApplyDue ==
    /\ pc = "due"
    /\ BacklogsFlushed
    /\ \E i \in 1..Len(sched) : Apply(sched[i], RemoveAt(sched, i), "due")
    /\ UNCHANGED <<cmdRing, trashVars, replyVars>>

EndDue ==
    /\ pc = "due"
    /\ pc' = "walk"
    /\ UNCHANGED <<resume, worldVars, intakeVars, trashVars, replyVars, emitVars>>

(* World::trash, for one of the boxes to hand over. *)
TrashBox ==
    /\ pc = "emit"
    /\ \E b \in out :
          /\ out' = out \ {b}
          /\ IF Len(trashRing) < TrashCapacity
             THEN trashRing' = Append(trashRing, b) /\ UNCHANGED pendingTrash
             ELSE pendingTrash' = Append(pendingTrash, b) /\ UNCHANGED trashRing
    /\ UNCHANGED <<pc, resume, worldVars, intakeVars, replyVars, answers, lastReply>>

(* Mutant: an answer takes any free slot of the ring, past the backlog. *)
SendReplyPast ==
    /\ pc = "emit"
    /\ answers # <<>>
    /\ answers' = Tail(answers)
    /\ IF Len(replyRing) < ReplyCapacity
       THEN replyRing' = Append(replyRing, Head(answers)) /\ UNCHANGED pendingReplies
       ELSE pendingReplies' = Append(pendingReplies, Head(answers)) /\ UNCHANGED replyRing
    /\ UNCHANGED <<pc, resume, worldVars, intakeVars, trashVars, out, lastReply>>

(* World::reply: behind the backlog once there is one. *)
SendReply ==
    /\ pc = "emit"
    /\ answers # <<>>
    /\ answers' = Tail(answers)
    /\ IF pendingReplies = <<>> /\ Len(replyRing) < ReplyCapacity
       THEN replyRing' = Append(replyRing, Head(answers)) /\ UNCHANGED pendingReplies
       ELSE pendingReplies' = Append(pendingReplies, Head(answers)) /\ UNCHANGED replyRing
    /\ UNCHANGED <<pc, resume, worldVars, intakeVars, trashVars, out, lastReply>>

EndEmit ==
    /\ pc = "emit"
    /\ out = {} /\ answers = <<>>
    /\ pc' = resume
    /\ UNCHANGED <<resume, worldVars, intakeVars, trashVars, replyVars, emitVars>>

(* The tree walk and what is drained after it.  A running synth that is    *)
(* flagged dumps its trace, up to the block's cap, and the flag clears.    *)
(* Done actions and Free/Pause units of the running synths free, pause or  *)
(* resume synths; nothing happens on its own when every synth is paused.   *)
Walk ==
    /\ pc = "walk"
    /\ LET running == synths \ paused
           dumped == traced \ paused
           records == TraceLength * Cardinality(dumped)
           allowed(op) == IF op \in Ops /\ running # {} THEN synths ELSE {}
       IN \E gone \in SUBSET allowed("unit_free"),
             off \in SUBSET allowed("unit_pause"), on \in SUBSET allowed("unit_resume") :
             /\ synths' = synths \ gone
             /\ paused' = ((paused \cup off) \ on) \ gone
             /\ traced' = (traced \ dumped) \ gone
             /\ HandOver(gone, IF records < TreeCapacity THEN records ELSE TreeCapacity, "drive")
    /\ UNCHANGED <<slots, writes, intakeVars, trashVars, replyVars>>

(* drive_writes: some copies complete (or their reader has gone). *)
DriveWrites ==
    /\ pc = "drive"
    /\ \E done \in SUBSET writes :
          /\ writes' = writes \ done
          /\ HandOver(done, 0, "flushTrash")
    /\ UNCHANGED <<slots, synths, paused, traced, intakeVars, trashVars, replyVars>>

Audio ==
    \/ FlushTrash \/ FlushReplies \/ Intake \/ EndIntake \/ ApplyDue \/ EndDue
    \/ TrashBox \/ SendReply \/ EndEmit \/ Walk \/ DriveWrites

Next == Push \/ NrtDrop \/ NrtPollReply \/ Audio

Spec == Init /\ [][Next]_vars

(* The device keeps calling back and the NRT thread keeps ticking.         *)
FairSpec == Spec /\ WF_vars(Audio) /\ WF_vars(NrtDrop) /\ WF_vars(NrtPollReply)

-----------------------------------------------------------------------------
(* Properties.                                                             *)

ReplyNumber == 0..(ReplyIds - 1)

(* Type correctness of every variable of the traffic. *)
TypeOK ==
    /\ pc \in {"flushTrash", "flushReplies", "intake", "due", "walk", "drive", "emit"}
    /\ resume \in {"intake", "due", "drive", "flushTrash"}
    /\ cmdRing \in Seq(Command) /\ Len(cmdRing) <= CommandCapacity
    /\ sched \in Seq(Command) /\ Len(sched) <= SchedulerCapacity
    /\ slots \in [0..(MaxBuffers - 1) -> Box \cup {NoBox}]
    /\ writes \subseteq Box /\ synths \subseteq Box /\ out \subseteq Box
    /\ paused \subseteq synths /\ traced \subseteq synths
    /\ answers \in Seq(ReplyNumber) /\ lastReply \in ReplyNumber
    /\ trashRing \in Seq(Box) /\ Len(trashRing) <= TrashCapacity
    /\ replyRing \in Seq(ReplyNumber) /\ Len(replyRing) <= ReplyCapacity
    /\ pendingTrash \in Seq(Box)
    /\ pendingReplies \in Seq(ReplyNumber)

(* The trash backlog never outgrows the capacity World::new reserves for   *)
(* it, so pushing to it never reallocates on the audio thread, whatever    *)
(* the NRT thread does and whatever ends on its own while intake is shut.  *)
PendingTrashBounded == Len(pendingTrash) <= PendingTrashCapacity

(* Why.  The gate opens only when nothing waits to be trashed, and then at *)
(* most one command is applied before it is read again.  Until it reopens, *)
(* boxes only move from the live synths and the copies in flight, and from *)
(* what that command released, to the trash backlog.                       *)
TrashInv ==
    /\ TypeOK
    /\ Cardinality(synths) <= MaxNodes - 1
    /\ Cardinality(writes) <= MaxBuffers
    /\ pc # "emit" => out = {} /\ answers = <<>>
    /\ Len(pendingTrash) + Cardinality(out) + Cardinality(synths) + Cardinality(writes)
          <= SchedulerCapacity + (MaxNodes - 1) + MaxBuffers

(* The reply backlog never outgrows the capacity World::new reserves.      *)
PendingRepliesBounded == Len(pendingReplies) <= PendingRepliesCapacity

(* A box is in one place at a time: no command, slot, copy, synth, ring or *)
(* backlog shares it with another, so it is freed at most once.            *)
Holders(b) ==
      Cardinality({i \in DOMAIN cmdRing : cmdRing[i].box = b})
    + Cardinality({i \in DOMAIN sched : sched[i].box = b})
    + Cardinality({i \in DOMAIN slots : slots[i] = b})
    + Cardinality({i \in DOMAIN trashRing : trashRing[i] = b})
    + Cardinality({i \in DOMAIN pendingTrash : pendingTrash[i] = b})
    + Cardinality({s \in {1, 2, 3} : b \in <<writes, synths, out>>[s]})
OneHolder == \A b \in Box : Holders(b) <= 1

(* A box that is no longer anywhere was the head of the trash ring: it was *)
(* dropped by Nrt::process and by nothing the audio thread does.           *)
FreedOnlyByNrt ==
    [][\A b \in InUse \ InUse' : trashRing # <<>> /\ b = Head(trashRing)]_vars

(* Answers reach the NRT thread as a FIFO: see ReplyQueue.                 *)
Queue == INSTANCE ReplyQueue WITH
    queue <- replyRing \o pendingReplies \o answers, Reply <- ReplyNumber
RepliesAreFifo == Queue!Spec

(* A full command ring does not stay full, so no QueueFull is for ever:    *)
(* once the NRT thread drains, the backlogs clear and intake reopens,      *)
(* although synths that end by themselves and finishing copies keep adding *)
(* to the backlogs.                                                        *)
RingReopens ==
    Len(cmdRing) = CommandCapacity ~> Len(cmdRing) < CommandCapacity

=============================================================================
