----------------------------- MODULE OscQueries -----------------------------
(***************************************************************************)
(* How the OSC dispatcher's getters find their answers.  A getter message  *)
(* pushes one query per element into the command ring and then records one *)
(* pending entry; the audio thread answers each query with one or several  *)
(* replies; the dispatcher hands each reply, which names no getter, to its *)
(* oldest pending entry (plyphon-osc: sync .. g_query_tree, reply,         *)
(* apply_reply; plyphon-rt: drain_commands, apply_due_scheduled, apply).   *)
(*                                                                         *)
(* The getters are numbered in the order they are issued.  The number q on *)
(* a query and on its replies is not in the code: it is what the matching  *)
(* is judged by.  The path of the replies is the queue that ReplyQueue     *)
(* specifies and RtBacklog implements.                                     *)
(***************************************************************************)
EXTENDS Integers, SequencesExt, FiniteSets

CONSTANTS
    Messages,    \* messages clients send: records of kind, size and time tag
    MaxAsked,    \* bound on the getters issued
    MaxOther,    \* bound on the other commands sent
    MaxRange,    \* most values in one range
    RingCap,     \* command ring
    ReplyCap,    \* reply ring
    SchedCap,    \* scheduler
    Whole        \* no getter fails after some of its queries were pushed

Now == 0         \* CommandTime::Immediate; other times order the scheduled commands

Grouped == {"pairs", "ranges", "sget", "sgetn"}      \* one entry for all elements
Single == {"sync", "one", "node"}                    \* one query, one reply
Getters == Grouped \cup Single \cup {"tree"}
Others == {"free", "clear", "trace"}

ASSUME MessageAssumption ==
    /\ Messages \subseteq [kind : Getters \cup Others, size : Nat \ {0}, time : Nat]
    /\ \A m \in Messages : m.size = 1 \/ m.kind \in Grouped \cup {"node"}
ASSUME BoundAssumption ==
    /\ MaxAsked \in Nat /\ MaxOther \in Nat /\ MaxRange \in Nat /\ Whole \in BOOLEAN
    /\ {RingCap, ReplyCap, SchedCap} \subseteq Nat \ {0}

VARIABLES
    issuing,     \* the message the dispatcher is working on, with its elements left
    pending,     \* OscDispatcher::pending_queries
    ring,        \* the command ring
    held,        \* the Scheduler, in the order it pops
    replies,     \* the reply ring and the backlog behind it
    synth,       \* whether the synth that is asked about lives
    traced,      \* whether it is flagged for a dump
    asked,       \* getters issued so far
    others,      \* other commands sent so far
    answers      \* what each getter was answered: "right", "wrong", or nothing yet

host == <<issuing, pending, asked, others, answers>>
engine == <<held, synth, traced>>
vars == <<host, ring, replies, engine>>

Idle == [kind |-> "idle"]
Init ==
    /\ issuing = Idle /\ pending = <<>>
    /\ ring = <<>> /\ held = <<>> /\ replies = <<>>
    /\ synth = TRUE /\ traced = FALSE
    /\ asked = 0 /\ others = 0
    /\ answers = [q \in 1..MaxAsked |-> "none"]

-----------------------------------------------------------------------------
(* The dispatcher sends.                                                   *)

(* Mutant: every query honours the bundle's time tag. *)
TimeOfWindow(kind, time) == time

(* Controller: the getters are sent now, except /sync. *)
TimeOf(kind, time) == IF kind \in Getters \ {"sync"} \/ kind = "clear" THEN Now ELSE time

(* A message starts; a grouped getter or the first node takes a number.    *)
Begin(m) ==
    /\ issuing = Idle
    /\ IF m.kind \in Getters
       THEN asked + (IF m.kind = "node" THEN m.size ELSE 1) <= MaxAsked
       ELSE others < MaxOther
    /\ Whole => Len(ring) + m.size <= RingCap
    /\ issuing' = [kind |-> m.kind, size |-> m.size, left |-> m.size, time |-> m.time]
    /\ UNCHANGED <<pending, asked, others, answers, ring, replies, engine>>

(* One element: its command, and with the last (with each, for /n_query)   *)
(* the pending entry.  The dispatcher does nothing in between.             *)
Push ==
    /\ issuing # Idle /\ Len(ring) < RingCap
    /\ LET kind == issuing.kind
           last == issuing.left = 1
           q == IF kind \in Getters THEN asked + 1 ELSE 0
       IN /\ ring' = Append(ring, [q |-> q, kind |-> kind, time |-> TimeOf(kind, issuing.time)])
          /\ IF kind = "node" \/ (last /\ kind \in Getters)
             THEN /\ pending' = Append(pending, [q |-> q, kind |-> kind, inRange |-> 0,
                                   remaining |-> IF kind = "node" THEN 1 ELSE issuing.size,
                                   own |-> TRUE])
                  /\ asked' = asked + 1
             ELSE UNCHANGED <<pending, asked>>
          /\ others' = IF kind \in Others THEN others + 1 ELSE others
          /\ issuing' = IF last THEN Idle ELSE [issuing EXCEPT !.left = @ - 1]
    /\ UNCHANGED <<answers, replies, engine>>

(* The message fails on a full ring or a bad argument.  What was pushed    *)
(* stays pushed, and a grouped getter records no entry.                    *)
Fail ==
    /\ issuing # Idle
    /\ Whole => issuing.left = issuing.size \/ issuing.kind = "node"
    /\ issuing' = Idle
    /\ asked' = IF issuing.kind \in Grouped /\ issuing.left < issuing.size
                THEN asked + 1 ELSE asked
    /\ UNCHANGED <<pending, others, answers, ring, replies, engine>>

-----------------------------------------------------------------------------
(* The audio thread applies.                                               *)

Reply(q, kind, count) == [q |-> q, kind |-> kind, count |-> count]
Run(q, header, count) ==
    <<Reply(q, header, count)>> \o [i \in 1..count |-> Reply(q, "rangeValue", 0)]

(* Mutant: a walk that filled the scratch leaves no room for the end. *)
TreeRepliesCut(q) ==
    {<<Reply(q, "treeHeader", 0)>> \o [i \in 1..n |-> Reply(q, "treeNode", 0)] : n \in 0..1}

(* query_tree: a header, the nodes, and an end even if the nodes filled    *)
(* the scratch.                                                            *)
TreeReplies(q) ==
    {<<Reply(q, "treeHeader", 0)>> \o [i \in 1..n |-> Reply(q, "treeNode", 0)]
        \o <<Reply(q, "treeEnd", 0)>> : n \in 0..1}

(* The replies a query may be answered with.                               *)
Composed(c) ==
    CASE c.kind \in Single -> {<<Reply(c.q, c.kind, 0)>>}
      [] c.kind = "pairs" -> {<<Reply(c.q, "value", 0)>>}
      [] c.kind = "ranges" -> {Run(c.q, "header", n) : n \in 0..MaxRange}
      [] c.kind = "sget" -> {<<Reply(c.q, IF synth THEN "sgetValue" ELSE "missing", 0)>>}
      [] c.kind = "sgetn" -> IF synth THEN {Run(c.q, "sgetHeader", n) : n \in 0..MaxRange}
                             ELSE {<<Reply(c.q, "missing", 0)>>}
      [] c.kind = "tree" -> TreeReplies(c.q)
      [] c.kind \in Others -> {<<>>}

(* World::apply.  "rest" is what the scheduler holds when it is called.    *)
Apply(c, rest) ==
    /\ \E answer \in Composed(c) : replies' = replies \o answer
    /\ held' = IF c.kind = "clear" THEN <<>> ELSE rest
    /\ synth' = (synth /\ c.kind # "free")
    /\ traced' = (synth' /\ (traced \/ c.kind = "trace"))

(* backlogs_flushed: what is in flight fits the reply ring.                *)
Flushed == Len(replies) <= ReplyCap

(* Scheduler::push: by time, equal times in the order they came.           *)
Scheduled(c) ==
    LET before == Cardinality({k \in DOMAIN held : held[k].time <= c.time})
    IN InsertAt(held, before + 1, c)

(* drain_commands, one command; a full scheduler hands it back to apply.   *)
DrainCommand ==
    /\ Flushed /\ ring # <<>>
    /\ ring' = Tail(ring)
    /\ LET c == Head(ring)
       IN IF c.time # Now /\ Len(held) < SchedCap
          THEN held' = Scheduled(c) /\ UNCHANGED <<replies, synth, traced>>
          ELSE Apply(c, held)
    /\ UNCHANGED host

(* apply_due_scheduled, one command, whenever its time comes.              *)
ApplyDue ==
    /\ Flushed /\ held # <<>>
    /\ Apply(Head(held), Tail(held))
    /\ UNCHANGED <<host, ring>>

(* The synth ends on its own: a done action or a unit's node op.           *)
SynthEnds ==
    /\ synth
    /\ synth' = FALSE /\ traced' = FALSE
    /\ UNCHANGED <<host, ring, replies, held>>

(* drain_trace: a flagged synth's dump follows the block's replies.        *)
DrainTrace ==
    /\ traced
    /\ traced' = FALSE
    /\ replies' = replies \o <<Reply(0, "traceHeader", 0), Reply(0, "traceEnd", 0)>>
    /\ UNCHANGED <<host, ring, held, synth>>

-----------------------------------------------------------------------------
(* The dispatcher receives.                                                *)

Less(n) == IF n = 0 THEN 0 ELSE n - 1

(* Mutant: an empty range is not counted as done. *)
AfterRangesEmpty(e, r) ==
    LET inRange == CASE r.kind = "header" -> r.count
                     [] r.kind = "rangeValue" -> Less(e.inRange)
                     [] OTHER -> e.inRange
    IN [e EXCEPT !.inRange = inRange,
                 !.remaining = IF inRange = 0 /\ r.kind # "header" THEN Less(@) ELSE @]

(* apply_reply, grouped entries: what the entry still waits for after r.   *)
AfterRanges(e, r) ==
    LET inRange == CASE r.kind = "header" -> r.count
                     [] r.kind = "rangeValue" -> Less(e.inRange)
                     [] OTHER -> e.inRange
    IN [e EXCEPT !.inRange = inRange,
                 !.remaining = IF inRange = 0 THEN Less(@) ELSE @]

AfterSGet(e, r) ==
    CASE r.kind = "sgetValue" -> [e EXCEPT !.remaining = Less(@)]
      [] r.kind = "missing" -> [e EXCEPT !.remaining = 0]
      [] OTHER -> e
AfterSGetN(e, r) ==
    LET inRange == IF r.kind = "sgetHeader" THEN r.count ELSE Less(e.inRange)
    IN CASE r.kind \in {"sgetHeader", "rangeValue"} ->
              [e EXCEPT !.inRange = inRange,
                        !.remaining = IF inRange = 0 THEN Less(@) ELSE @]
         [] r.kind = "missing" -> [e EXCEPT !.remaining = 0]
         [] OTHER -> e
AfterReply(e, r) ==
    CASE e.kind \in Single -> [e EXCEPT !.remaining = 0]
      [] e.kind = "pairs" -> [e EXCEPT !.remaining = Less(@)]
      [] e.kind = "ranges" -> AfterRanges(e, r)
      [] e.kind = "sget" -> AfterSGet(e, r)
      [] e.kind = "sgetn" -> AfterSGetN(e, r)
      [] e.kind = "tree" -> IF r.kind = "treeEnd" THEN [e EXCEPT !.remaining = 0] ELSE e

IsTrace(r) == r.kind \in {"traceHeader", "traceEnd"}

(* reply: a trace record goes to the trace sink, any other to the oldest   *)
(* entry, which is popped once it waits for nothing more.                  *)
Deliver ==
    /\ issuing = Idle /\ replies # <<>>
    /\ replies' = Tail(replies)
    /\ LET r == Head(replies)
       IN IF IsTrace(r) \/ pending = <<>>
          THEN UNCHANGED <<pending, answers>>
          ELSE LET e == Head(pending)
                   after == [AfterReply(e, r) EXCEPT !.own = @ /\ r.q = e.q]
               IN IF after.remaining = 0
                  THEN /\ pending' = Tail(pending)
                       /\ answers' = [answers EXCEPT
                                        ![e.q] = IF after.own THEN "right" ELSE "wrong"]
                  ELSE /\ pending' = <<after>> \o Tail(pending)
                       /\ UNCHANGED answers
    /\ UNCHANGED <<issuing, asked, others, ring, engine>>

Next ==
    \/ \E m \in Messages : Begin(m)
    \/ Push \/ Fail \/ Deliver
    \/ DrainCommand \/ ApplyDue \/ SynthEnds \/ DrainTrace

Spec == Init /\ [][Next]_vars

(* The host finishes a message it has started and comes back to poll the   *)
(* replies between messages, however many it sends; the audio callback     *)
(* keeps coming.                                                           *)
FairSpec ==
    /\ Spec
    /\ WF_vars(Push \/ Fail) /\ SF_vars(Deliver)
    /\ WF_vars(DrainCommand) /\ WF_vars(ApplyDue)

-----------------------------------------------------------------------------
(* Properties.                                                             *)

(* Type correctness; the replies in flight stay within the reply ring, one *)
(* command's replies and a dump.                                           *)
Burst == MaxRange + 3
TypeOK ==
    /\ \A k \in DOMAIN pending : /\ pending[k].q \in 1..asked
                                 /\ pending[k].kind \in Getters
                                 /\ pending[k].remaining \in Nat \ {0}
    /\ \A k \in DOMAIN ring : ring[k].q \in 0..(asked + 1)
    /\ Len(ring) <= RingCap /\ Len(held) <= SchedCap
    /\ Len(replies) <= ReplyCap + Burst + 2 * MaxOther
    /\ asked \in 0..MaxAsked /\ others \in 0..MaxOther
    /\ answers \in [1..MaxAsked -> {"none", "right", "wrong"}]

(* A getter is answered by the replies to its own queries and no other's:  *)
(* OscDispatcher::reply, "each is matched against the oldest outstanding   *)
(* query", and PendingQuery, "emits exactly one OSC reply message".        *)
AnswersRight == \A q \in DOMAIN answers : answers[q] # "wrong"

(* Why the matching works, when it does: the replies on their way and the  *)
(* queries still in the ring belong, in order, to the entries that wait    *)
(* and the message being issued, and each entry waits for exactly what is  *)
(* on its way to it.                                                       *)
OnTheWay == replies \o ring
Asked(q) == \/ \E k \in DOMAIN pending : pending[k].q = q
            \/ issuing # Idle /\ q = asked + 1
Ends(e) ==
    IF e.kind = "tree" THEN {"treeEnd"}
    ELSE IF e.kind \in {"ranges", "sgetn"} THEN {"header", "sgetHeader", "missing"}
    ELSE Single \cup {"value", "sgetValue", "missing"}
Queries(e) == {k \in DOMAIN ring : ring[k].q = e.q}
Due(e) == {k \in DOMAIN replies : replies[k].q = e.q /\ replies[k].kind \in Ends(e)}
InStep ==
    /\ TypeOK
    /\ \A i, j \in DOMAIN OnTheWay :
          i < j /\ OnTheWay[j].q # 0 => OnTheWay[i].q <= OnTheWay[j].q
    /\ \A i \in DOMAIN OnTheWay : OnTheWay[i].q # 0 => Asked(OnTheWay[i].q)
    /\ \A k \in DOMAIN pending :
          pending[k].remaining = Cardinality(Queries(pending[k])) + Cardinality(Due(pending[k]))
                                 + IF pending[k].inRange > 0 THEN 1 ELSE 0

(* Every getter on record is answered: nothing else takes its replies, and *)
(* no entry in front of it waits for ever.                                 *)
EveryGetterAnswered ==
    \A q \in 1..MaxAsked :
        (\E k \in DOMAIN pending : pending[k].q = q) ~> answers[q] = "right"
=============================================================================
