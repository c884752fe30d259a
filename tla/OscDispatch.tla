----------------------------- MODULE OscDispatch -----------------------------
(***************************************************************************)
(* The OSC dispatcher's asynchronous commands: what apply does at once,    *)
(* what it queues for run_pending, whom it answers, and the registries it  *)
(* keeps of buffers, open files and synth names, while the audio thread    *)
(* drains the command ring one block at a time and several clients talk to *)
(* the server (plyphon-osc: apply, message, run_pending, notify;           *)
(* plyphon-cli: handle_packet, service, flush_replies).                    *)
(*                                                                         *)
(* A request is numbered when its message is applied.  The number, which   *)
(* the code does not have, is what the answers are judged by; asked and    *)
(* got are the history of requests and of what reached the clients.        *)
(***************************************************************************)
EXTENDS Integers, SequencesExt, FiniteSetsExt

CONSTANTS
    Clients,
    Bufs,        \* buffer numbers
    Nodes,       \* node ids
    Defs,        \* names of synth definitions
    Sessions,    \* what clients may send in one run: sets of packets, each a
                 \* time and a sequence of messages
    MaxPackets,  \* bound on the packets sent
    RingCap,     \* command ring
    None

Elements == {"n_run", "c_set", "b_fill"}      \* one command per element, no answer
Unanswered == Elements \cup {"s_new", "n_free", "n_set"}
Instant == Unanswered \cup {"b_alloc", "b_free", "b_zero", "b_gen", "b_query"}
Renewing == {"b_zero", "b_gen"}
Loading == {"b_allocRead", "b_read"}
Queued == Loading \cup {"b_readOpen", "d_load", "cmd", "b_write", "b_writeOpen", "b_close"}

\* A message and its completion act on one thing, a node or a buffer (or on what
\* a buffer's number stands for: a bus, a file, a host's command).
OnNodes == {"s_new", "n_free", "n_set", "n_run", "d_load", "cmd"}
OnBuffers == (Instant \cup Queued) \ {"s_new", "n_free", "n_set", "n_run"}
About(ops, things) ==
    [op : ops, on : things, def : Defs \cup {None}, then : ops \cup {None}]
Messages == About(OnNodes, Nodes) \cup About(OnBuffers, Bufs)

ASSUME PacketAssumption == UNION Sessions \subseteq [time : {0, 1}, msgs : Seq(Messages)]
ASSUME BoundAssumption ==
    MaxPackets \in Nat /\ RingCap \in Nat \ {0} /\ IsFiniteSet(Bufs)

VARIABLES
    osc,         \* OscDispatcher, with the controller it sends through
    got,         \* what reached the clients
    session,     \* what these clients send
    packets,     \* packets received so far
    stage,       \* where run_pending is
    batch,       \* the jobs it has taken from the queue of that stage
    slot,        \* the engine's buffer table
    held,        \* commands in the scheduler
    alive,       \* the definition each living synth was made from
    events,      \* node events on their way to the dispatcher
    copying,     \* copies out in progress
    gone         \* recordings and copies whose audio side is dropped

engine == <<slot, held, alive, copying, gone>>
vars == <<osc, got, session, packets, stage, batch, engine, events>>

-----------------------------------------------------------------------------
(* Commands, requests and answers *)

Push(d, op, on, tag, timed) ==
    IF Len(d.ring) = RingCap THEN [d EXCEPT !.ok = FALSE]
    ELSE [d EXCEPT !.ok = TRUE,
                   !.ring = Append(@, [op |-> op, on |-> on, tag |-> tag,
                                       time |-> IF timed THEN d.window ELSE 0])]

Say(d, rid, how) ==
    [d EXCEPT !.replies = Append(@, [to |-> d.target, rid |-> rid, how |-> how])]

Fail(d, job) == Say([d EXCEPT !.ok = TRUE], job.rid, "failed")

Ask(d, m) ==
    [d EXCEPT !.ok = TRUE,
              !.asked = Append(@, [client |-> d.target, op |-> m.op, on |-> m.on,
                                   time |-> d.window])]

\* What the queues keep of a request: who is to be answered, and the
\* completion message that runs before the answer.
Job(d, m) ==
    [rid |-> Len(d.asked), target |-> d.target, on |-> m.on, op |-> m.op, then |-> m.then]

Known(d, job) == job.on \in d.mirror

-----------------------------------------------------------------------------
(* The handlers that act at once *)

AllocBuffer(d, job) ==
    LET p == Push(d, "set", job.on, 0, TRUE)
    IN  IF p.ok THEN [p EXCEPT !.mirror = @ \cup {job.on}] ELSE p

FreeBuffer(d, job) ==
    LET p == Push(d, "free", job.on, 0, TRUE)
    IN  IF p.ok
        THEN [p EXCEPT !.mirror = @ \ {job.on}, !.openReads[job.on] = None,
                       !.openWrites[job.on] = None]
        ELSE p

SNew(d, node, def) ==
    LET p == Push(d, "add", node, def, TRUE)
    IN  IF p.ok THEN [p EXCEPT !.nodeDefs[node] = def] ELSE p

NFree(d, node) ==
    LET p == Push(d, "end", node, 0, TRUE)
    IN  IF p.ok THEN [p EXCEPT !.nodeDefs[node] = None] ELSE p

\* A control name is looked up in the definition the node is tracked to have.
Tracked(d, node) == d.nodeDefs[node] # None

NSet(d, node) ==
    IF Tracked(d, node) THEN Push(d, "control", node, d.nodeDefs[node], TRUE)
    ELSE [d EXCEPT !.ok = FALSE]

\* Messages of several elements push a command for each, in order, and stop at
\* the first that is refused: the earlier ones stay sent.
PerElement(d, on) ==
    LET p == Push(d, "element", on, 1, TRUE)
    IN  IF p.ok THEN Push(p, "element", on, 2, TRUE) ELSE p
NodeElements(d, node) == PerElement(d, node)
BusElements(d, bus) == PerElement(d, bus)
BufferElements(d, buf) == PerElement(d, buf)

\* /b_zero and /b_gen install a new buffer of the size the mirror knows.
Renew(d, job) == IF Known(d, job) THEN Push(d, "set", job.on, 0, TRUE) ELSE d

\* /b_write opens its ring at once; the file is run_pending's work.
BWrite(d, job) ==
    LET p == IF job.op = "b_writeOpen" THEN Push(d, "record", job.on, job.rid, TRUE)
             ELSE Push(d, "copy", job.on, job.rid, FALSE)
    IN  CASE ~Known(d, job) -> Fail(d, job)
          [] ~p.ok -> p
          [] OTHER -> [p EXCEPT !.writes = Append(@, [job |-> job, sink |-> FALSE])]

Enqueue(d, job) ==
    CASE job.op \in Loading -> [d EXCEPT !.loads = Append(@, job)]
      [] job.op = "b_readOpen" -> [d EXCEPT !.reads = Append(@, job)]
      [] job.op = "d_load" -> [d EXCEPT !.defs = Append(@, job)]
      [] job.op = "cmd" -> [d EXCEPT !.cmds = Append(@, job)]
      [] job.op = "b_close" -> [d EXCEPT !.closes = Append(@, job)]
      [] OTHER -> BWrite(d, job)

Act(d, job, def) ==
    CASE job.op = "b_alloc" -> AllocBuffer(d, job)
      [] job.op = "b_free" -> FreeBuffer(d, job)
      [] job.op \in Renewing -> Renew(d, job)
      [] job.op = "s_new" -> SNew(d, job.on, def)
      [] job.op = "n_free" -> NFree(d, job.on)
      [] job.op = "n_set" -> NSet(d, job.on)
      [] job.op = "n_run" -> NodeElements(d, job.on)
      [] job.op = "c_set" -> BusElements(d, job.on)
      [] job.op = "b_fill" -> BufferElements(d, job.on)
      [] OTHER -> d

Answered(d, job) ==
    CASE job.op \in Renewing /\ ~Known(d, job) -> Fail(d, job)
      [] job.op \in Unanswered -> d
      [] OTHER -> Say(d, job.rid, "done")

\* message, for a message whose completion is still to be run
Start(d, m) ==
    LET a == Ask(d, m) job == Job(a, m)
    IN  IF m.op \in Queued THEN Enqueue(a, job) ELSE Act(a, job, m.def)

\* A completion message is applied for the client of its command.  An error of
\* it goes nowhere, so a refused one is not counted as a request.
Complete(d, job) ==
    LET m == [op |-> job.then, on |-> job.on, def |-> None, then |-> None]
        s == Start(d, m)
        own == Job(Ask(d, m), m)
    IN  IF job.then = None \/ ~s.ok THEN [d EXCEPT !.ok = TRUE]
        ELSE IF m.op \in Queued THEN s
        ELSE Answered(s, own)

Finish(d, job) == Say(Complete(d, job), job.rid, "done")

Message(d, m) ==
    LET s == Start(d, m) job == Job(Ask(d, m), m)
    IN  IF ~s.ok \/ m.op \in Queued THEN s
        ELSE IF m.op \in Renewing /\ ~Known(d, job) THEN Fail(s, job)
        ELSE Answered(Complete(s, job), job)

-----------------------------------------------------------------------------
(* The server: one packet, then one tick *)

NoneOpen == [b \in Bufs |-> None]
Open(streams) == {b \in Bufs : streams[b] # None}

Init ==
    /\ osc = [asked |-> <<>>, replies |-> <<>>, target |-> None, window |-> 0, ok |-> TRUE,
              mirror |-> {}, nodeDefs |-> [n \in Nodes |-> None],
              loads |-> <<>>, reads |-> <<>>, defs |-> <<>>, cmds |-> <<>>, closes |-> <<>>,
              writes |-> <<>>, openWrites |-> NoneOpen, openReads |-> NoneOpen, ring |-> <<>>]
    /\ session \in Sessions
    /\ got = <<>> /\ packets = 0 /\ stage = "idle" /\ batch = <<>> /\ events = <<>>
    /\ slot = [b \in Bufs |-> [kind |-> "empty", tag |-> 0]]
    /\ held = <<>> /\ alive = [n \in Nodes |-> None]
    /\ copying = {} /\ gone = {}

\* The messages of a bundle are applied in order until one is refused, with
\* the bundle's time as the controller's window.
ApplyPacket(d, client, p) ==
    LET opened == [d EXCEPT !.target = client, !.window = p.time, !.ok = TRUE]
    IN  [FoldLeft(LAMBDA e, m : IF e.ok THEN Message(e, m) ELSE e, opened, p.msgs)
            EXCEPT !.window = d.window]

HandlePacket(client, p) ==
    /\ stage = "idle" /\ packets < MaxPackets
    /\ LET d == ApplyPacket(osc, client, p)
           refused == [to |-> client, rid |-> Len(d.asked), how |-> "failed"]
       IN  IF d.ok
           THEN /\ got' = got \o d.replies
                /\ osc' = [d EXCEPT !.replies = <<>>]
           ELSE /\ got' = Append(got, refused)
                /\ osc' = d
    /\ packets' = packets + 1
    /\ UNCHANGED <<session, stage, batch, engine, events>>

\* notify forgets the definitions of the nodes that ended or could not be made.
\* Mutant: the ends of nodes are not noticed.
ForgetNone(d, nodes) == d
Forget(d, nodes) ==
    [d EXCEPT !.nodeDefs = [n \in Nodes |-> IF n \in nodes THEN None ELSE @[n]]]

Stages == <<"loads", "reads", "defs", "cmds", "writes", "closes", "pump">>

Queue(d, s) ==
    CASE s = "loads" -> d.loads [] s = "reads" -> d.reads [] s = "defs" -> d.defs
      [] s = "cmds" -> d.cmds [] s = "closes" -> d.closes
      [] s = "writes" -> IF d.writes = <<>> THEN <<>> ELSE <<1>>
      [] s = "pump" -> <<0>>

Taken(d, s) ==
    CASE s = "loads" -> [d EXCEPT !.loads = <<>>] [] s = "reads" -> [d EXCEPT !.reads = <<>>]
      [] s = "defs" -> [d EXCEPT !.defs = <<>>] [] s = "cmds" -> [d EXCEPT !.cmds = <<>>]
      [] s = "closes" -> [d EXCEPT !.closes = <<>>] [] OTHER -> d

\* A stage takes its whole queue; what completions queue meanwhile waits for
\* the next tick unless its stage is still to come.
Enter(d, from) ==
    LET next == Min({i \in from .. Len(Stages) : Queue(d, Stages[i]) # <<>>})
    IN  /\ stage' = Stages[next] /\ batch' = Queue(d, Stages[next])
        /\ osc' = Taken(d, Stages[next])

\* A tick with nothing to do changes nothing and is left out.
Idle(d) ==
    /\ \A s \in Range(Stages) \ {"pump"} : Queue(d, s) = <<>>
    /\ Open(d.openWrites) \cup Open(d.openReads) = {}

Service ==
    /\ stage = "idle" /\ ~(Idle(osc) /\ events = <<>> /\ osc.replies = <<>>)
    /\ Enter(Forget(osc, Range(events)), 1)
    /\ events' = <<>>
    /\ UNCHANGED <<got, session, packets, engine>>

After(d, rest) ==
    IF rest # <<>> THEN osc' = d /\ batch' = rest /\ UNCHANGED stage
    ELSE \E i \in DOMAIN Stages : Stages[i] = stage /\ Enter(d, i + 1)

Serving(s) == stage = s /\ UNCHANGED <<got, session, packets, engine, events>>
\* Mutant: a job is answered to whoever was heard last.
ForLast(job) == osc
For(job) == [osc EXCEPT !.target = job.target]

\* A load: the whole buffer is replaced, or a region of a known one written.
Load(readable) ==
    /\ Serving("loads")
    /\ LET job == Head(batch) d == For(job)
           new == Push(d, "set", job.on, 0, TRUE)
           region == Push(d, "region", job.on, 0, TRUE)
           loaded == CASE ~readable -> Fail(d, job)
                       [] job.op = "b_allocRead" ->
                            IF new.ok THEN Finish([new EXCEPT !.mirror = @ \cup {job.on}], job)
                            ELSE d
                       [] OTHER -> IF Known(d, job) /\ region.ok THEN Finish(region, job)
                                   ELSE Fail(d, job)
       IN  After(loaded, Tail(batch))

\* A stream in: the file is opened, the slot cued, the first chunks read; an
\* error in those gives the slot back.
OpenRead(readable, primed) ==
    /\ Serving("reads")
    /\ LET job == Head(batch) d == For(job)
           cued == Push(d, "cue", job.on, job.rid, TRUE)
           f == Finish(cued, job)
           opened == CASE ~Known(d, job) \/ ~readable \/ ~cued.ok -> Fail(d, job)
                       [] ~primed -> Push(Fail(cued, job), "free", job.on, 0, TRUE)
                       [] OTHER -> [f EXCEPT !.openReads[job.on] =
                                       [rid |-> job.rid, target |-> job.target]]
       IN  After(opened, Tail(batch))

LoadDef(readable) ==
    /\ Serving("defs")
    /\ LET job == Head(batch)
       IN  After(IF readable THEN Finish(For(job), job) ELSE Fail(For(job), job), Tail(batch))

HostCommand(known) ==
    /\ Serving("cmds")
    /\ LET job == Head(batch)
       IN  After(IF known THEN Say(For(job), job.rid, "done") ELSE Fail(For(job), job),
                 Tail(batch))

\* Mutant: the write that is done stays and the last one goes.
SwapRemoveLast(s, i) == Front(s)
SwapRemove(s, i) ==
    IF i = Len(s) THEN Front(s) ELSE [Front(s) EXCEPT ![i] = Last(s)]

\* One turn of the loop over the writes, at the index that batch holds.  A
\* sink is opened on the first turn; a stream then moves to the open writes, a
\* copy is drained until its audio side is gone, and then closed.
At(d, i) == IF i > Len(d.writes) THEN <<>> ELSE <<i>>

Write(fails) ==
    /\ Serving("writes")
    /\ LET i == Head(batch) w == osc.writes[i] job == w.job
           d == [For(job) EXCEPT !.writes[i].sink = TRUE]
           out == [d EXCEPT !.writes = SwapRemove(@, i)]
           failed == Fail(out, job)
           f == Finish(out, job)
           opened == [f EXCEPT !.openWrites[job.on] =
                         [rid |-> job.rid, target |-> job.target, closing |-> None]]
       IN  \/ fails = "open" /\ ~w.sink /\ After(failed, At(failed, i))
           \/ fails # "open" /\ job.op = "b_writeOpen" /\ After(opened, At(opened, i))
           \/ fails = "drain" /\ job.op = "b_write" /\ After(failed, At(failed, i))
           \/ fails = "nothing" /\ job.op = "b_write" /\ job.rid \notin gone
              /\ After(d, At(d, i + 1))
           \/ fails = "close" /\ job.op = "b_write" /\ job.rid \in gone
              /\ After(failed, At(failed, i))
           \/ fails = "nothing" /\ job.op = "b_write" /\ job.rid \in gone
              /\ After(f, At(f, i))

\* /b_close: a stream in is closed here and now, a stream out is told to
\* flush, one whose file is not open yet waits for the next tick.
Opening(d, b) == \E i \in DOMAIN d.writes :
    d.writes[i].job.op = "b_writeOpen" /\ d.writes[i].job.on = b

CloseJob(d, job) ==
    LET free == Push(For(job), "free", job.on, 0, TRUE)
        flush == Push(d, "close", job.on, 0, FALSE)
        unread(e) == [e EXCEPT !.openReads[job.on] = None]
    IN  CASE d.openReads[job.on] # None ->
               IF free.ok THEN Finish(unread(free), job) ELSE Fail(unread(For(job)), job)
          [] d.openReads[job.on] = None /\ d.openWrites[job.on] # None ->
               IF d.openWrites[job.on].closing # None THEN d
               ELSE IF flush.ok THEN [flush EXCEPT !.openWrites[job.on].closing = job]
               ELSE Fail(For(job), job)
          [] OTHER -> IF Opening(d, job.on) THEN [d EXCEPT !.closes = Append(@, job)]
                      ELSE Fail(For(job), job)

Close ==
    /\ Serving("closes")
    /\ After(CloseJob(osc, Head(batch)), Tail(batch))

\* Every open stream out is drained.  The ones that were told to flush and
\* whose audio side is gone are finished, then the broken ones are dropped.
Shut(d, b, closed) ==
    LET job == d.openWrites[b].closing
        e == [d EXCEPT !.openWrites[b] = None, !.mirror = @ \ {b}, !.target = job.target]
    IN  IF d.openWrites[b] = None THEN d
        ELSE IF closed THEN Finish(e, job) ELSE Fail(e, job)

Break(d, b) ==
    LET open == d.openWrites[b]
        job == open.closing
        e == [d EXCEPT !.openWrites[b] = None, !.mirror = @ \ {b}]
        failed == IF job = None THEN Say([e EXCEPT !.target = open.target], open.rid, "broken")
                  ELSE Fail([e EXCEPT !.target = job.target], job)
    IN  IF open = None THEN d ELSE [Push(failed, "free", b, 0, TRUE) EXCEPT !.ok = TRUE]

Drain(d, bad, closed) ==
    LET finished == {b \in Open(d.openWrites) \ bad :
            d.openWrites[b].closing # None /\ d.openWrites[b].rid \in gone}
        shut == FoldSet(LAMBDA b, e : Shut(e, b, closed), d, finished)
    IN  FoldSet(LAMBDA b, e : Break(e, b), shut, bad)

\* Every open stream in is fed.
Unread(d, b) ==
    LET open == d.openReads[b]
        e == Say([d EXCEPT !.openReads[b] = None, !.target = open.target], open.rid, "broken")
    IN  IF open = None THEN d ELSE [Push(e, "free", b, 0, TRUE) EXCEPT !.ok = TRUE]

Feed(d, bad) == FoldSet(LAMBDA b, e : Unread(e, b), d, bad)

\* The end of the tick: the streams move on, and the replies go out to their
\* clients.
Pump(badOut, badIn, closed) ==
    LET d == Feed(Drain(osc, badOut, closed), badIn)
    IN  /\ stage = "pump"
        /\ got' = got \o d.replies
        /\ osc' = [d EXCEPT !.replies = <<>>]
        /\ stage' = "idle" /\ batch' = <<>>
        /\ UNCHANGED <<session, packets, engine, events>>

-----------------------------------------------------------------------------
(* The audio thread: what the commands of this module do to the buffer     *)
(* table and to the synths (RtBacklog has the rest)                        *)

Recorder(e, b) == IF e.slot[b].kind = "record" THEN {e.slot[b].tag} ELSE {}
Fill(e, b, kind, tag) ==
    [e EXCEPT !.gone = @ \cup Recorder(e, b), !.slot[b] = [kind |-> kind, tag |-> tag]]

Apply(e, c) ==
    CASE c.op = "set" -> Fill(e, c.on, "flat", 0)
      [] c.op \in {"free", "close"} -> Fill(e, c.on, "empty", 0)
      [] c.op = "cue" -> Fill(e, c.on, "play", c.tag)
      [] c.op = "record" -> Fill(e, c.on, "record", c.tag)
      [] c.op = "copy" -> IF e.slot[c.on].kind = "flat"
                          THEN [e EXCEPT !.copying = @ \cup {c.tag}]
                          ELSE [e EXCEPT !.gone = @ \cup {c.tag}]
      [] c.op = "add" -> IF e.alive[c.on] = None THEN [e EXCEPT !.alive[c.on] = c.tag]
                         ELSE [e EXCEPT !.events = Append(@, c.on)]
      [] c.op = "end" -> IF e.alive[c.on] = None THEN e
                         ELSE [e EXCEPT !.alive[c.on] = None, !.events = Append(@, c.on)]
      [] OTHER -> e

Receive(e, c) == IF c.time = 0 THEN Apply(e, c) ELSE [e EXCEPT !.held = Append(@, c)]

Now == [slot |-> slot, held |-> held, alive |-> alive, copying |-> copying, gone |-> gone,
        events |-> events]
Becomes(e) ==
    /\ slot' = e.slot /\ held' = e.held /\ alive' = e.alive
    /\ copying' = e.copying /\ gone' = e.gone /\ events' = e.events

Block ==
    /\ osc.ring # <<>>
    /\ Becomes(FoldLeft(Receive, Now, osc.ring))
    /\ osc' = [osc EXCEPT !.ring = <<>>]
    /\ UNCHANGED <<got, session, packets, stage, batch>>

Due ==
    /\ held # <<>>
    /\ Becomes(Apply([Now EXCEPT !.held = Tail(held)], Head(held)))
    /\ UNCHANGED <<osc, got, session, packets, stage, batch>>

CopyEnds(id) ==
    /\ id \in copying
    /\ copying' = copying \ {id} /\ gone' = gone \cup {id}
    /\ UNCHANGED <<osc, got, session, packets, stage, batch, slot, held, alive, events>>

SynthEnds(n) ==
    /\ alive[n] # None
    /\ Becomes([Now EXCEPT !.alive[n] = None, !.events = Append(@, n)])
    /\ UNCHANGED <<osc, got, session, packets, stage, batch>>

Next ==
    \/ \E client \in Clients, p \in session : HandlePacket(client, p)
    \/ Service \/ Close
    \/ \E ok \in BOOLEAN : Load(ok) \/ LoadDef(ok) \/ HostCommand(ok)
    \/ \E ok, primed \in BOOLEAN : OpenRead(ok, primed)
    \/ \E fails \in {"open", "drain", "close", "nothing"} : Write(fails)
    \/ \E badOut \in SUBSET Open(osc.openWrites), badIn \in SUBSET Open(osc.openReads) :
           Pump(badOut, badIn, TRUE) \/ Pump(badOut, badIn, FALSE)
    \/ Block \/ Due
    \/ \E id \in copying : CopyEnds(id)
    \/ \E n \in Nodes : SynthEnds(n)

Spec == Init /\ [][Next]_vars

-----------------------------------------------------------------------------
(* Properties *)

Answers(rid, hows) == {i \in DOMAIN got : got[i].rid = rid /\ got[i].how \in hows}

\* Whatever is answered, in this tick or many later, by a queue, a completion
\* message or a broken stream, is answered to the client that asked for it.
AnswersComeHome == \A i \in DOMAIN got : got[i].to = osc.asked[got[i].rid].client

\* No request is answered twice, and a stream breaks only after its command
\* was said to be done.
AnsweredOnce == \A rid \in DOMAIN osc.asked :
    /\ Cardinality(Answers(rid, {"done", "failed"})) <= 1
    /\ \A i \in Answers(rid, {"broken"}) : \E j \in Answers(rid, {"done"}) : j < i

Quiet ==
    /\ stage = "idle" /\ osc.ring = <<>> /\ held = <<>> /\ events = <<>> /\ copying = {}
    /\ osc.replies = <<>>
    /\ \A s \in Range(Stages) \ {"pump"} : Queue(osc, s) = <<>>
    /\ \A b \in Bufs : osc.openWrites[b] # None =>
         osc.openWrites[b].closing = None \/ osc.openWrites[b].rid \notin gone

\* Once nothing is under way, every asynchronous request has had its answer,
\* save two: the load that a full ring refuses, and a close of a buffer that
\* some other command than the one that opened it is changing.
Asked(op, on) == {rid \in DOMAIN osc.asked : osc.asked[rid].op = op /\ osc.asked[rid].on = on}
Contested(rid) == LET on == osc.asked[rid].on IN
    /\ osc.asked[rid].op = "b_close"
    /\ \/ Cardinality(Asked("b_close", on)) > 1
       \/ Cardinality(Asked("b_writeOpen", on)) > 1
       \/ Asked("b_free", on) # {}
       \/ \E s \in DOMAIN osc.asked : osc.asked[s].on = on /\ osc.asked[s].time = 1
Waiting == {rid \in DOMAIN osc.asked :
    osc.asked[rid].op \in Queued /\ Answers(rid, {"done", "failed"}) = {}}

LoadsAndCopiesAnswered == Quiet => \A rid \in Waiting :
    osc.asked[rid].op = "b_allocRead" \/ Contested(rid)

\* Every asynchronous request is answered, and once only.
AnsweredExactlyOnce == AnsweredOnce /\ LoadsAndCopiesAnswered

\* Once its events are in, the definition a node is tracked to have is the one
\* its living synth was made from: names never resolve in the wrong definition.
NamesRight == Quiet => \A n \in Nodes :
    osc.nodeDefs[n] # None => alive[n] = osc.nodeDefs[n]

=============================================================================
