-------------------------- MODULE OscDispatchProofs --------------------------
(***************************************************************************)
(* Proofs that an answer goes to the client that asked (AnswersComeHome)   *)
(* and that a node's name is looked up in the definition it was made from  *)
(* (NamesRight), for any clients, buffers, nodes, definitions, packets and *)
(* ring, and whatever fails meanwhile.                                     *)
(*                                                                         *)
(* Whoever the dispatcher answers is the client it works for at the moment *)
(* (target in the code), which apply takes from the packet and run_pending *)
(* from the job or the stream it has in hand.  So the invariant follows    *)
(* every record that keeps a client across ticks: the jobs of the five     *)
(* queues and of the stage under way, the writes, the open streams and the *)
(* replies not yet sent each name a request of the client they are kept    *)
(* for (DispatchInv), and requests are only ever added (Longer), so what   *)
(* was right of one stays right.                                           *)
(*                                                                         *)
(* The definitions of nodes are followed from the command that tracks one  *)
(* to the event that takes it back (Tracks, Named): a node's tracked       *)
(* definition is on its way in the ring or in the scheduler, or a living   *)
(* synth was made from it, or an event that will clear it is due.          *)
(***************************************************************************)
EXTENDS OscDispatch, SequenceInduction

-----------------------------------------------------------------------------
(* What is queued for a request, by the requests made so far.              *)

Peer == Clients \cup {None}
Things == Bufs \cup Nodes
Ops == Instant \cup Queued
Request == [client : Peer, op : Ops, on : Things, time : {0, 1}]

(* Controls are set on nodes. *)
Fits(m) == m.op = "n_set" \/ (m.then = "n_set" /\ m.then # None) => m.on \in Nodes

(* The request rid is the client's. *)
Own(asked, rid, client) == rid \in DOMAIN asked /\ asked[rid].client = client

Job0 == [rid : Nat, target : Peer, on : Things, op : Ops, then : Ops \cup {None}]
Jobs(asked) == {j \in Job0 : Own(asked, j.rid, j.target) /\ Fits(j)}
Replies(asked) ==
    {a \in [to : Peer, rid : Nat, how : {"done", "failed", "broken"}] : Own(asked, a.rid, a.to)}
Ins(asked) == {o \in [rid : Nat, target : Peer] : Own(asked, o.rid, o.target)}
Outs(asked) ==
    {o \in [rid : Nat, target : Peer, closing : Jobs(asked) \cup {None}] : Own(asked, o.rid, o.target)}
Writes(asked) == [job : Jobs(asked), sink : BOOLEAN]
CommandOps ==
    {"set", "free", "close", "cue", "record", "copy", "add", "end", "control", "element", "region"}
Tags == Nat \cup Defs \cup {None}
Commands == [op : CommandOps, on : Things, tag : Tags, time : {0, 1}]

(* The open streams out; the ones of b in C are being closed. *)
OutTables(asked, C) ==
    {f \in [Bufs -> Outs(asked) \cup {None}] :
        \A b \in Bufs \cap C : f[b] # None => f[b].closing # None}

(* The definition a node is tracked to have is the one it was last made     *)
(* from, one that E excuses, or one on its way in the ring.                *)
Sent(commands, node, def) ==
    \E i \in DOMAIN commands : commands[i].op = "add" /\ commands[i].on = node /\ commands[i].tag = def
Tracks(nodeDefs, ring, E) ==
    \A n \in Nodes : nodeDefs[n] = None \/ <<n, nodeDefs[n]>> \in E \/ Sent(ring, n, nodeDefs[n])

(* The dispatcher while it works for a client, its requests being asked.   *)
Working(asked, client, window, C, E) ==
  {d \in
    [asked : {asked}, replies : Seq(Replies(asked)), target : {client}, window : {window},
     ok : BOOLEAN, mirror : SUBSET Things, nodeDefs : [Nodes -> Defs \cup {None}],
     loads : Seq(Jobs(asked)), reads : Seq(Jobs(asked)), defs : Seq(Jobs(asked)),
     cmds : Seq(Jobs(asked)), closes : Seq(Jobs(asked)), writes : Seq(Writes(asked)),
     openWrites : OutTables(asked, C), openReads : [Bufs -> Ins(asked) \cup {None}],
     ring : Seq(Commands)] : Tracks(d.nodeDefs, d.ring, E)}

(* One field at a time. *)
LEMMA Updates ==
    ASSUME NEW q, NEW t, NEW w, NEW C, NEW E, NEW d \in Working(q, t, w, C, E)
    PROVE  /\ \A v \in BOOLEAN : [d EXCEPT !.ok = v] \in Working(q, t, w, C, E)
           /\ \A v \in SUBSET Things : [d EXCEPT !.mirror = v] \in Working(q, t, w, C, E)
           /\ \A v \in OutTables(q, C) : [d EXCEPT !.openWrites = v] \in Working(q, t, w, C, E)
           /\ \A v \in [Bufs -> Ins(q) \cup {None}] : [d EXCEPT !.openReads = v] \in Working(q, t, w, C, E)
           /\ \A v \in Seq(Replies(q)) : [d EXCEPT !.replies = v] \in Working(q, t, w, C, E)
           /\ \A v : [d EXCEPT !.target = v] \in Working(q, v, w, C, E)
           /\ \A v : [d EXCEPT !.window = v] \in Working(q, t, v, C, E)
  BY DEF Working

(* One queue at a time, likewise. *)
LEMMA QueueUpdates ==
    ASSUME NEW q, NEW t, NEW w, NEW C, NEW E, NEW d \in Working(q, t, w, C, E)
    PROVE  /\ \A v \in Seq(Jobs(q)) :
                /\ [d EXCEPT !.loads = v] \in Working(q, t, w, C, E)
                /\ [d EXCEPT !.reads = v] \in Working(q, t, w, C, E)
                /\ [d EXCEPT !.defs = v] \in Working(q, t, w, C, E)
                /\ [d EXCEPT !.cmds = v] \in Working(q, t, w, C, E)
                /\ [d EXCEPT !.closes = v] \in Working(q, t, w, C, E)
           /\ \A v \in Seq(Writes(q)) : [d EXCEPT !.writes = v] \in Working(q, t, w, C, E)
  BY DEF Working

(* The definitions that are tracked, and the ring they are sent through. *)
LEMMA NameUpdates ==
    ASSUME NEW q, NEW t, NEW w, NEW C, NEW E, NEW d \in Working(q, t, w, C, E)
    PROVE  /\ \A v \in [Nodes -> Defs \cup {None}] : \A D : Tracks(v, d.ring, D) =>
                 [d EXCEPT !.nodeDefs = v] \in Working(q, t, w, C, D)
           /\ \A v \in Seq(Commands) : \A D : Tracks(d.nodeDefs, v, D) =>
                 [d EXCEPT !.ring = v] \in Working(q, t, w, C, D)
  BY DEF Working

(* A command more in the ring hides none. *)
LEMMA SentStays ==
    ASSUME NEW ring \in Seq(Commands), NEW c \in Commands, NEW node, NEW def
    PROVE  /\ Sent(ring, node, def) => Sent(Append(ring, c), node, def)
           /\ c.op = "add" /\ c.on = node /\ c.tag = def => Sent(Append(ring, c), node, def)
<1>1. /\ DOMAIN Append(ring, c) = 1 .. (Len(ring) + 1) /\ DOMAIN ring = 1 .. Len(ring) /\ Len(ring) \in Nat
      /\ \A i \in DOMAIN ring : Append(ring, c)[i] = ring[i]
      /\ Append(ring, c)[Len(ring) + 1] = c
  OBVIOUS
<1> QED
  BY <1>1 DEF Sent

(* What is read of it. *)
LEMMA Fields ==
    ASSUME NEW q, NEW t, NEW w, NEW C, NEW E, NEW d \in Working(q, t, w, C, E)
    PROVE  /\ d.asked = q /\ d.target = t /\ d.window = w /\ d.ok \in BOOLEAN
           /\ d.replies \in Seq(Replies(q)) /\ d.mirror \in SUBSET Things
           /\ d.nodeDefs \in [Nodes -> Defs \cup {None}]
           /\ d.loads \in Seq(Jobs(q)) /\ d.reads \in Seq(Jobs(q)) /\ d.defs \in Seq(Jobs(q))
           /\ d.cmds \in Seq(Jobs(q)) /\ d.closes \in Seq(Jobs(q)) /\ d.writes \in Seq(Writes(q))
           /\ d.openWrites \in OutTables(q, C) /\ d.openReads \in [Bufs -> Ins(q) \cup {None}]
           /\ d.ring \in Seq(Commands) /\ Tracks(d.nodeDefs, d.ring, E)
  BY DEF Working

(* A command is pushed, or refused by a full ring. *)
LEMMA PushKeeps ==
    ASSUME NEW q, NEW t, NEW w \in {0, 1}, NEW C, NEW E, NEW d \in Working(q, t, w, C, E),
           NEW op \in CommandOps, NEW on \in Things, NEW tag \in Tags, NEW timed \in BOOLEAN
    PROVE  Push(d, op, on, tag, timed) \in Working(q, t, w, C, E)
<1> DEFINE c == [op |-> op, on |-> on, tag |-> tag, time |-> IF timed THEN d.window ELSE 0]
<1>1. \A v \in BOOLEAN, r \in Seq(Commands) : Tracks(d.nodeDefs, r, E) =>
         [d EXCEPT !.ok = v, !.ring = r] \in Working(q, t, w, C, E)
  BY DEF Working
<1>2. \A v \in BOOLEAN : [d EXCEPT !.ok = v] \in Working(q, t, w, C, E)
  BY Updates
<1>3. d.ring \in Seq(Commands) /\ d.window = w
  BY DEF Working
<1>4. c \in Commands
  BY <1>3 DEF Commands
<1>5. Append(d.ring, c) \in Seq(Commands)
  BY <1>3, <1>4
<1>6. [d EXCEPT !.ok = TRUE, !.ring = Append(d.ring, c)] \in Working(q, t, w, C, E)
  <2>1. Tracks(d.nodeDefs, d.ring, E)
    BY Fields
  <2>2. Tracks(d.nodeDefs, Append(d.ring, c), E)
    <3> HIDE DEF c
    <3> QED
      BY <1>3, <1>4, <2>1, SentStays DEF Tracks
  <2> QED
    BY <1>1, <1>5, <2>2, Zenon
<1>7. [d EXCEPT !.ok = FALSE] \in Working(q, t, w, C, E)
  BY <1>2, Zenon
<1> QED
  BY <1>6, <1>7, Zenon DEF Push

(* A reply to the client of its request is kept for it. *)
LEMMA SayKeeps ==
    ASSUME NEW q, NEW t \in Peer, NEW w, NEW C, NEW E, NEW d \in Working(q, t, w, C, E),
           NEW rid \in Nat, Own(q, rid, t), NEW how \in {"done", "failed", "broken"}
    PROVE  Say(d, rid, how) \in Working(q, t, w, C, E)
<1>1. d.replies \in Seq(Replies(q)) /\ d.target = t
  BY Fields
<1> DEFINE a == [to |-> d.target, rid |-> rid, how |-> how]
<1>2. a \in Replies(q)
  BY <1>1 DEF Replies
<1>3. Append(d.replies, a) \in Seq(Replies(q))
  BY <1>1, <1>2
<1> QED
  BY <1>3, Updates, Zenon DEF Say

(* Success and error are both possible. *)
LEMMA OkKeeps ==
    ASSUME NEW q, NEW t, NEW w, NEW C, NEW E, NEW d \in Working(q, t, w, C, E)
    PROVE  /\ [d EXCEPT !.ok = TRUE] \in Working(q, t, w, C, E)
           /\ [d EXCEPT !.ok = FALSE] \in Working(q, t, w, C, E)
<1>1. \A v \in BOOLEAN : [d EXCEPT !.ok = v] \in Working(q, t, w, C, E)
  BY Updates
<1> QED
  BY <1>1, Zenon

(* The fields of a job. *)
LEMMA JobIs ==
    ASSUME NEW q, NEW j \in Jobs(q)
    PROVE  /\ j.rid \in Nat /\ j.target \in Peer /\ j.on \in Things /\ j.op \in Ops
           /\ j.then \in Ops \cup {None} /\ Own(q, j.rid, j.target)
           /\ Fits(j)
  BY DEF Jobs, Job0

(* A job's error is its client's to hear. *)
LEMMA FailKeeps ==
    ASSUME NEW q, NEW t, NEW w, NEW C, NEW E, NEW d \in Working(q, t, w, C, E), NEW job \in Jobs(q), job.target = t
    PROVE  Fail(d, job) \in Working(q, t, w, C, E)
<1>1. [d EXCEPT !.ok = TRUE] \in Working(q, t, w, C, E)
  BY OkKeeps
<1>2. t \in Peer /\ job.rid \in Nat /\ Own(q, job.rid, t)
  BY JobIs
<1> QED
  BY <1>1, <1>2, SayKeeps DEF Fail

(* The handlers that act at once. *)
LEMMA AllocKeeps ==
    ASSUME NEW q, NEW t, NEW w \in {0, 1}, NEW C, NEW E, NEW d \in Working(q, t, w, C, E), NEW job \in Jobs(q)
    PROVE  AllocBuffer(d, job) \in Working(q, t, w, C, E)
<1> DEFINE p == Push(d, "set", job.on, 0, TRUE)
<1>1. job.on \in Things
  BY JobIs
<1>2. p \in Working(q, t, w, C, E)
  BY <1>1, PushKeeps DEF CommandOps, Tags
<1> HIDE DEF p
<1>3. p.mirror \cup {job.on} \in SUBSET Things
  BY <1>1, <1>2, Fields
<1>4. [p EXCEPT !.mirror = @ \cup {job.on}] \in Working(q, t, w, C, E)
  BY <1>2, <1>3, Updates
<1> QED
  BY <1>2, <1>4 DEF AllocBuffer, p

(* An open stream is forgotten. *)
LEMMA OutForgotten ==
    ASSUME NEW q, NEW C, NEW f \in OutTables(q, C), NEW b
    PROVE  [f EXCEPT ![b] = None] \in OutTables(q, C)
<1>1. f \in [Bufs -> Outs(q) \cup {None}] /\ \A x \in Bufs \cap C : f[x] # None => f[x].closing # None
  BY DEF OutTables
<1> DEFINE g == [f EXCEPT ![b] = None]
<1>2. g \in [Bufs -> Outs(q) \cup {None}] /\ \A x \in Bufs : g[x] = IF x = b THEN None ELSE f[x]
  BY <1>1
<1> HIDE DEF g
<1>3. \A x \in Bufs \cap C : g[x] # None => g[x].closing # None
  BY <1>1, <1>2
<1> QED
  BY <1>2, <1>3 DEF OutTables, g

(* /b_free: the buffer, and any stream on it, are forgotten. *)
LEMMA FreeKeeps ==
    ASSUME NEW q, NEW t, NEW w \in {0, 1}, NEW C, NEW E, NEW d \in Working(q, t, w, C, E), NEW job \in Jobs(q)
    PROVE  FreeBuffer(d, job) \in Working(q, t, w, C, E)
<1> DEFINE p == Push(d, "free", job.on, 0, TRUE)
           b == job.on
<1>1. b \in Things
  BY JobIs
<1>2. p \in Working(q, t, w, C, E)
  BY <1>1, PushKeeps DEF CommandOps, Tags
<1> HIDE DEF p
<1>3. /\ p.mirror \in SUBSET Things
      /\ p.openReads \in [Bufs -> Ins(q) \cup {None}]
      /\ p.openWrites \in OutTables(q, C)
  BY <1>2, Fields
<1>4. /\ p.mirror \ {b} \in SUBSET Things
      /\ [p.openReads EXCEPT ![b] = None] \in [Bufs -> Ins(q) \cup {None}]
      /\ [p.openWrites EXCEPT ![b] = None] \in OutTables(q, C)
  BY <1>3, OutForgotten
<1>5. \A m \in SUBSET Things, r \in [Bufs -> Ins(q) \cup {None}], o \in OutTables(q, C) :
         [p EXCEPT !.mirror = m, !.openReads = r, !.openWrites = o] \in Working(q, t, w, C, E)
  BY <1>2 DEF Working
<1>6. [p EXCEPT !.mirror = @ \ {b}, !.openReads[b] = None, !.openWrites[b] = None]
         = [p EXCEPT !.mirror = p.mirror \ {b}, !.openReads = [p.openReads EXCEPT ![b] = None],
                     !.openWrites = [p.openWrites EXCEPT ![b] = None]]
  BY <1>2 DEF Working
<1>7. [p EXCEPT !.mirror = @ \ {b}, !.openReads[b] = None, !.openWrites[b] = None]
         \in Working(q, t, w, C, E)
  BY <1>4, <1>5, <1>6
<1> QED
  BY <1>2, <1>7 DEF FreeBuffer, p

(* /s_new and /n_free: a node's definition is tracked or forgotten. *)
LEMMA SNewKeeps ==
    ASSUME NEW q, NEW t, NEW w \in {0, 1}, NEW C, NEW E, NEW d \in Working(q, t, w, C, E),
           NEW node \in Things, NEW def \in Defs \cup {None}
    PROVE  SNew(d, node, def) \in Working(q, t, w, C, E) /\ NFree(d, node) \in Working(q, t, w, C, E)
<1> DEFINE p == Push(d, "add", node, def, TRUE)
           r == Push(d, "end", node, 0, TRUE)
<1>1. p \in Working(q, t, w, C, E) /\ r \in Working(q, t, w, C, E)
  BY PushKeeps DEF CommandOps, Tags
<1>2. p.ok => Sent(p.ring, node, def)
  <2> DEFINE c == [op |-> "add", on |-> node, tag |-> def, time |-> d.window]
  <2> HIDE DEF p, r
  <2>1. c \in Commands /\ d.ring \in Seq(Commands) /\ d.ok \in BOOLEAN
    <3>1. d.window \in {0, 1} /\ d.ring \in Seq(Commands) /\ d.ok \in BOOLEAN
      BY Fields
    <3> QED
      BY <3>1 DEF Commands, CommandOps, Tags
  <2>2. Sent(Append(d.ring, c), node, def)
    BY <2>1, SentStays
  <2>3. /\ \A v \in BOOLEAN : [d EXCEPT !.ok = v].ok = v
        /\ \A v \in BOOLEAN : \A u : [d EXCEPT !.ok = v, !.ring = u].ring = u
    BY DEF Working
  <2> HIDE DEF c
  <2>4. p = [d EXCEPT !.ok = FALSE] \/ p = [d EXCEPT !.ok = TRUE, !.ring = Append(d.ring, c)]
    BY Zenon DEF Push, c, p
  <2>5. p = [d EXCEPT !.ok = FALSE] => ~p.ok
    BY <2>3, Zenon
  <2>6. p = [d EXCEPT !.ok = TRUE, !.ring = Append(d.ring, c)] => p.ring = Append(d.ring, c)
    BY <2>3, Zenon
  <2> QED
    BY <2>2, <2>4, <2>5, <2>6, Zenon
<1>3. ASSUME NEW e \in Working(q, t, w, C, E), NEW v \in Defs \cup {None}, v # None => Sent(e.ring, node, v)
      PROVE  [e EXCEPT !.nodeDefs[node] = v] \in Working(q, t, w, C, E)
  <2> DEFINE u == [e.nodeDefs EXCEPT ![node] = v]
  <2>1. e.nodeDefs \in [Nodes -> Defs \cup {None}] /\ Tracks(e.nodeDefs, e.ring, E)
    BY <1>3, Fields
  <2>2. u \in [Nodes -> Defs \cup {None}] /\ \A n \in Nodes : u[n] = IF n = node THEN v ELSE e.nodeDefs[n]
    BY <2>1
  <2>3. [e EXCEPT !.nodeDefs[node] = v] = [e EXCEPT !.nodeDefs = u]
    OBVIOUS
  <2> HIDE DEF u
  <2>4. Tracks(u, e.ring, E)
    BY <1>3, <2>1, <2>2 DEF Tracks
  <2> QED
    BY <1>3, <2>2, <2>3, <2>4, NameUpdates
<1> HIDE DEF p, r
<1>4. p.ok => [p EXCEPT !.nodeDefs[node] = def] \in Working(q, t, w, C, E)
  BY <1>1, <1>2, <1>3
<1>5. [r EXCEPT !.nodeDefs[node] = None] \in Working(q, t, w, C, E)
  BY <1>1, <1>3
<1> QED
  BY <1>1, <1>4, <1>5, Zenon DEF SNew, NFree, p, r

(* /n_set: a command bears the definition its name was looked up in. *)
LEMMA NSetKeeps ==
    ASSUME NEW q, NEW t, NEW w \in {0, 1}, NEW C, NEW E, NEW d \in Working(q, t, w, C, E), NEW node \in Nodes
    PROVE  NSet(d, node) \in Working(q, t, w, C, E)
<1>1. d.nodeDefs[node] \in Tags /\ node \in Things
  BY Fields DEF Tags, Things
<1>2. Push(d, "control", node, d.nodeDefs[node], TRUE) \in Working(q, t, w, C, E)
  BY <1>1, PushKeeps DEF CommandOps
<1>3. [d EXCEPT !.ok = FALSE] \in Working(q, t, w, C, E)
  BY OkKeeps
<1> QED
  BY <1>2, <1>3 DEF NSet

(* A command for each element, as far as the ring takes them. *)
LEMMA PerElementKeeps ==
    ASSUME NEW q, NEW t, NEW w \in {0, 1}, NEW C, NEW E, NEW d \in Working(q, t, w, C, E), NEW on \in Things
    PROVE  PerElement(d, on) \in Working(q, t, w, C, E)
<1> DEFINE p == Push(d, "element", on, 1, TRUE)
<1>1. p \in Working(q, t, w, C, E)
  BY PushKeeps DEF CommandOps, Tags
<1>2. Push(p, "element", on, 2, TRUE) \in Working(q, t, w, C, E)
  <2> HIDE DEF p
  <2> QED
    BY <1>1, PushKeeps DEF CommandOps, Tags
<1> QED
  BY <1>1, <1>2 DEF PerElement

(* Whichever handler acts at once. *)
LEMMA ActKeeps ==
    ASSUME NEW q, NEW t, NEW w \in {0, 1}, NEW C, NEW E, NEW d \in Working(q, t, w, C, E), NEW job \in Jobs(q),
           NEW def \in Defs \cup {None}
    PROVE  Act(d, job, def) \in Working(q, t, w, C, E)
<1>1. job.on \in Things /\ (job.op = "n_set" => job.on \in Nodes)
  BY JobIs DEF Fits
<1>2. Push(d, "set", job.on, 0, TRUE) \in Working(q, t, w, C, E)
  BY <1>1, PushKeeps DEF CommandOps, Tags
<1>3. Renew(d, job) \in Working(q, t, w, C, E)
  BY <1>2 DEF Renew
<1>4. /\ AllocBuffer(d, job) \in Working(q, t, w, C, E)
      /\ FreeBuffer(d, job) \in Working(q, t, w, C, E)
      /\ SNew(d, job.on, def) \in Working(q, t, w, C, E)
      /\ NFree(d, job.on) \in Working(q, t, w, C, E)
      /\ job.op = "n_set" => NSet(d, job.on) \in Working(q, t, w, C, E)
      /\ PerElement(d, job.on) \in Working(q, t, w, C, E)
  BY <1>1, AllocKeeps, FreeKeeps, SNewKeeps, NSetKeeps, PerElementKeeps
<1> QED
  BY <1>3, <1>4 DEF Act, NodeElements, BusElements, BufferElements

(* The answer of a command that acts at once. *)
LEMMA AnsweredKeeps ==
    ASSUME NEW q, NEW t, NEW w \in {0, 1}, NEW C, NEW E, NEW d \in Working(q, t, w, C, E), NEW job \in Jobs(q),
           job.target = t
    PROVE  Answered(d, job) \in Working(q, t, w, C, E)
<1>1. job.rid \in Nat /\ Own(q, job.rid, t) /\ t \in Peer
  BY JobIs
<1>2. Say(d, job.rid, "done") \in Working(q, t, w, C, E)
  BY <1>1, SayKeeps
<1>3. Fail(d, job) \in Working(q, t, w, C, E)
  BY FailKeeps
<1> QED
  BY <1>2, <1>3 DEF Answered

(* The handlers that queue. *)
LEMMA BWriteKeeps ==
    ASSUME NEW q, NEW t, NEW w \in {0, 1}, NEW C, NEW E, NEW d \in Working(q, t, w, C, E), NEW job \in Jobs(q),
           job.target = t
    PROVE  BWrite(d, job) \in Working(q, t, w, C, E)
<1> DEFINE p == IF job.op = "b_writeOpen" THEN Push(d, "record", job.on, job.rid, TRUE)
                ELSE Push(d, "copy", job.on, job.rid, FALSE)
           item(v) == [job |-> job, sink |-> v]
<1>1. job.rid \in Nat /\ job.on \in Things
  BY JobIs
<1>2. p \in Working(q, t, w, C, E)
  BY <1>1, PushKeeps DEF CommandOps, Tags
<1> HIDE DEF p
<1>3. \A v \in BOOLEAN : Append(p.writes, item(v)) \in Seq(Writes(q))
  BY <1>2, Fields DEF Writes
<1>4. \A v \in BOOLEAN : [p EXCEPT !.writes = Append(@, item(v))] \in Working(q, t, w, C, E)
  BY <1>2, <1>3, QueueUpdates
<1>5. [p EXCEPT !.writes = Append(@, item(FALSE))] \in Working(q, t, w, C, E)
  BY <1>4, Zenon
<1>6. Fail(d, job) \in Working(q, t, w, C, E)
  BY FailKeeps
<1> QED
  BY <1>2, <1>5, <1>6, Zenon DEF BWrite, p

(* Whichever queue takes the job. *)
LEMMA EnqueueKeeps ==
    ASSUME NEW q, NEW t, NEW w \in {0, 1}, NEW C, NEW E, NEW d \in Working(q, t, w, C, E), NEW job \in Jobs(q),
           job.target = t
    PROVE  Enqueue(d, job) \in Working(q, t, w, C, E)
<1>1. /\ Append(d.loads, job) \in Seq(Jobs(q)) /\ Append(d.reads, job) \in Seq(Jobs(q))
      /\ Append(d.defs, job) \in Seq(Jobs(q)) /\ Append(d.cmds, job) \in Seq(Jobs(q))
      /\ Append(d.closes, job) \in Seq(Jobs(q))
  BY Fields
<1>2. /\ [d EXCEPT !.loads = Append(@, job)] \in Working(q, t, w, C, E)
      /\ [d EXCEPT !.reads = Append(@, job)] \in Working(q, t, w, C, E)
      /\ [d EXCEPT !.defs = Append(@, job)] \in Working(q, t, w, C, E)
      /\ [d EXCEPT !.cmds = Append(@, job)] \in Working(q, t, w, C, E)
      /\ [d EXCEPT !.closes = Append(@, job)] \in Working(q, t, w, C, E)
  BY <1>1, QueueUpdates
<1>3. BWrite(d, job) \in Working(q, t, w, C, E)
  BY BWriteKeeps
<1> QED
  BY <1>2, <1>3 DEF Enqueue

-----------------------------------------------------------------------------
(* Requests.                                                               *)

Longer(q, r) == Len(q) <= Len(r) /\ \A i \in 1 .. Len(q) : r[i] = q[i]
Answerable(q, client) == q # <<>> /\ q[Len(q)].client = client

(* Requests made later still were made later. *)
LEMMA LongerTrans ==
    ASSUME NEW q \in Seq(Request), NEW r \in Seq(Request), NEW s \in Seq(Request),
           Longer(q, r), Longer(r, s)
    PROVE  Longer(q, s)
  BY DEF Longer

(* A request stays its client's. *)
LEMMA OwnStays ==
    ASSUME NEW q \in Seq(Request), NEW r \in Seq(Request), Longer(q, r), NEW rid, NEW client,
           Own(q, rid, client)
    PROVE  Own(r, rid, client)
  BY DEF Longer, Own

(* Sequences over more values. *)
LEMMA SeqGrows ==
    ASSUME NEW S, NEW T, S \subseteq T
    PROVE  Seq(S) \subseteq Seq(T)
  OBVIOUS

(* What was queued for a request stays queued for it as more are made. *)
LEMMA QueuesGrow ==
    ASSUME NEW q \in Seq(Request), NEW r \in Seq(Request), Longer(q, r)
    PROVE  /\ Jobs(q) \subseteq Jobs(r) /\ Replies(q) \subseteq Replies(r)
           /\ Ins(q) \subseteq Ins(r) /\ Outs(q) \subseteq Outs(r) /\ Writes(q) \subseteq Writes(r)
<1>1. \A rid, client : Own(q, rid, client) => Own(r, rid, client)
  BY OwnStays
<1>2. Jobs(q) \subseteq Jobs(r)
  BY <1>1 DEF Jobs
<1>3. Replies(q) \subseteq Replies(r)
  BY <1>1 DEF Replies
<1>4. Ins(q) \subseteq Ins(r)
  BY <1>1 DEF Ins
<1>5. Outs(q) \subseteq Outs(r)
  BY <1>1, <1>2 DEF Outs
<1>6. Writes(q) \subseteq Writes(r)
  BY <1>2 DEF Writes
<1> QED
  BY <1>2, <1>3, <1>4, <1>5, <1>6

(* The dispatcher as a request is added. *)
LEMMA Grows ==
    ASSUME NEW q \in Seq(Request), NEW r \in Seq(Request), Longer(q, r), NEW t, NEW w, NEW C, NEW E,
           NEW d \in Working(q, t, w, C, E)
    PROVE  [d EXCEPT !.asked = r] \in Working(r, t, w, C, E)
<1>1. /\ Seq(Replies(q)) \subseteq Seq(Replies(r)) /\ Seq(Jobs(q)) \subseteq Seq(Jobs(r))
      /\ Seq(Writes(q)) \subseteq Seq(Writes(r))
  BY QueuesGrow, SeqGrows
<1>2. [Bufs -> Ins(q) \cup {None}] \subseteq [Bufs -> Ins(r) \cup {None}]
  BY QueuesGrow
<1>3. OutTables(q, C) \subseteq OutTables(r, C)
  BY QueuesGrow DEF OutTables
<1> QED
  BY <1>1, <1>2, <1>3 DEF Working

Message0 == [op : Ops, on : Things, def : Defs \cup {None}, then : Ops \cup {None}]

(* A message and its completion act on one thing. *)
LEMMA MessageIs ==
    ASSUME NEW m \in Messages
    PROVE  m \in Message0 /\ Fits(m)
  BY DEF Messages, About, OnNodes, OnBuffers, Message0, Fits, Ops, Things, Instant, Queued, Unanswered,
         Elements, Loading

(* The request a message makes is the client's, and so is the job it leaves. *)
LEMMA AskKeeps ==
    ASSUME NEW q \in Seq(Request), NEW t \in Peer, NEW w \in {0, 1}, NEW C, NEW E,
           NEW d \in Working(q, t, w, C, E), NEW m \in Message0, Fits(m)
    PROVE  \E r \in Seq(Request) :
              /\ Longer(q, r) /\ Answerable(r, t)
              /\ Ask(d, m) \in Working(r, t, w, C, E)
              /\ Job(Ask(d, m), m) \in Jobs(r) /\ Job(Ask(d, m), m).target = t
<1> DEFINE x == [client |-> t, op |-> m.op, on |-> m.on, time |-> w]
           r == Append(q, x)
           a == Ask(d, m)
<1>1. d.asked = q /\ d.target = t /\ d.window = w
  BY Fields
<1>2. m.op \in Ops /\ m.on \in Things /\ m.then \in Ops \cup {None}
  BY DEF Message0
<1>3. x \in Request
  BY <1>2 DEF Request
<1>4. /\ r \in Seq(Request) /\ Longer(q, r) /\ Len(r) = Len(q) + 1 /\ r[Len(r)] = x
      /\ Len(r) \in Nat /\ Len(r) \in DOMAIN r
  BY <1>3 DEF Longer
<1>5. Answerable(r, t) /\ Own(r, Len(r), t)
  BY <1>4 DEF Answerable, Own
<1>6. a \in Working(r, t, w, C, E)
  <2> DEFINE e == [d EXCEPT !.ok = TRUE]
  <2>1. e \in Working(q, t, w, C, E)
    BY OkKeeps
  <2>2. [e EXCEPT !.asked = r] \in Working(r, t, w, C, E)
    <3> HIDE DEF e, r
    <3> QED
      BY <2>1, <1>4, Grows
  <2>3. a = [e EXCEPT !.asked = r]
    BY <1>1, Zenon DEF Ask
  <2> HIDE DEF a, e, r
  <2> QED
    BY <2>2, <2>3
<1> HIDE DEF r, a
<1>7. a.asked = r /\ a.target = t
  BY <1>6, Fields
<1>8. Job(a, m) = [rid |-> Len(r), target |-> t, on |-> m.on, op |-> m.op, then |-> m.then]
  BY <1>7 DEF Job
<1>9. Job(a, m) \in Jobs(r) /\ Job(a, m).target = t
  BY <1>2, <1>4, <1>5, <1>8 DEF Jobs, Job0, Fits
<1> QED
  BY <1>4, <1>5, <1>6, <1>9 DEF a

(* A message, short of its completion and answer. *)
LEMMA StartKeeps ==
    ASSUME NEW q \in Seq(Request), NEW t \in Peer, NEW w \in {0, 1}, NEW C, NEW E,
           NEW d \in Working(q, t, w, C, E), NEW m \in Message0, Fits(m)
    PROVE  \E r \in Seq(Request) :
              /\ Longer(q, r) /\ Answerable(r, t)
              /\ Start(d, m) \in Working(r, t, w, C, E)
              /\ Job(Ask(d, m), m) \in Jobs(r) /\ Job(Ask(d, m), m).target = t
<1>1. PICK r \in Seq(Request) :
         /\ Longer(q, r) /\ Answerable(r, t)
         /\ Ask(d, m) \in Working(r, t, w, C, E)
         /\ Job(Ask(d, m), m) \in Jobs(r) /\ Job(Ask(d, m), m).target = t
  BY AskKeeps
<1>2. m.def \in Defs \cup {None}
  BY DEF Message0
<1>3. Enqueue(Ask(d, m), Job(Ask(d, m), m)) \in Working(r, t, w, C, E)
  BY <1>1, EnqueueKeeps
<1>4. Act(Ask(d, m), Job(Ask(d, m), m), m.def) \in Working(r, t, w, C, E)
  BY <1>1, <1>2, ActKeeps
<1> QED
  BY <1>1, <1>3, <1>4, Zenon DEF Start

(* A completion message is its client's request. *)
LEMMA CompleteKeeps ==
    ASSUME NEW q \in Seq(Request), NEW t \in Peer, NEW w \in {0, 1}, NEW C, NEW E,
           NEW d \in Working(q, t, w, C, E), NEW job \in Jobs(q)
    PROVE  \E r \in Seq(Request) :
              /\ Longer(q, r) /\ (r = q \/ Answerable(r, t))
              /\ Complete(d, job) \in Working(r, t, w, C, E)
<1> DEFINE m == [op |-> job.then, on |-> job.on, def |-> None, then |-> None]
           s == Start(d, m)
           own == Job(Ask(d, m), m)
<1>1. [d EXCEPT !.ok = TRUE] \in Working(q, t, w, C, E)
  BY OkKeeps
<1>2. Longer(q, q)
  BY DEF Longer
<1>3. CASE job.then = None \/ ~s.ok
  <2>1. Complete(d, job) = [d EXCEPT !.ok = TRUE]
    BY <1>3, Zenon DEF Complete
  <2> QED
    BY <1>1, <1>2, <2>1
<1>4. CASE ~(job.then = None \/ ~s.ok)
  <2>1. m \in Message0 /\ Fits(m)
    BY <1>4, JobIs DEF Message0, Fits
  <2>2. PICK r \in Seq(Request) :
           /\ Longer(q, r) /\ Answerable(r, t)
           /\ s \in Working(r, t, w, C, E) /\ own \in Jobs(r) /\ own.target = t
    <3> HIDE DEF m
    <3> QED
      BY <2>1, StartKeeps
  <2>3. Answered(s, own) \in Working(r, t, w, C, E)
    <3> HIDE DEF s, own
    <3> QED
      BY <2>2, AnsweredKeeps
  <2>4. Complete(d, job) \in {s, Answered(s, own)}
    BY <1>4, Zenon DEF Complete
  <2> QED
    BY <2>2, <2>3, <2>4
<1> QED
  BY <1>3, <1>4

(* A completion message, and the answer after it. *)
LEMMA FinishKeeps ==
    ASSUME NEW q \in Seq(Request), NEW t \in Peer, NEW w \in {0, 1}, NEW C, NEW E,
           NEW d \in Working(q, t, w, C, E), NEW job \in Jobs(q), job.target = t
    PROVE  \E r \in Seq(Request) : Longer(q, r) /\ Finish(d, job) \in Working(r, t, w, C, E)
<1>1. PICK r \in Seq(Request) : Longer(q, r) /\ Complete(d, job) \in Working(r, t, w, C, E)
  BY CompleteKeeps
<1>2. job.rid \in Nat /\ Own(r, job.rid, t)
  BY <1>1, JobIs, OwnStays
<1> QED
  BY <1>1, <1>2, SayKeeps DEF Finish

(* A whole message. *)
LEMMA MessageKeeps ==
    ASSUME NEW q \in Seq(Request), NEW t \in Peer, NEW w \in {0, 1}, NEW C, NEW E,
           NEW d \in Working(q, t, w, C, E), NEW m \in Messages
    PROVE  \E r \in Seq(Request) :
              /\ Longer(q, r) /\ Answerable(r, t) /\ Message(d, m) \in Working(r, t, w, C, E)
<1> DEFINE s == Start(d, m)
           job == Job(Ask(d, m), m)
<1>1. m \in Message0 /\ Fits(m)
  BY MessageIs
<1>2. PICK r \in Seq(Request) :
         /\ Longer(q, r) /\ Answerable(r, t)
         /\ s \in Working(r, t, w, C, E) /\ job \in Jobs(r) /\ job.target = t
  BY <1>1, StartKeeps
<1>3. Message(d, m) \in {s, Fail(s, job), Answered(Complete(s, job), job)}
  BY Zenon DEF Message
<1> HIDE DEF s, job
<1>4. Fail(s, job) \in Working(r, t, w, C, E)
  BY <1>2, FailKeeps
<1>5. PICK p \in Seq(Request) :
         Longer(r, p) /\ (p = r \/ Answerable(p, t)) /\ Complete(s, job) \in Working(p, t, w, C, E)
  BY <1>2, CompleteKeeps
<1>6. job \in Jobs(p)
  BY <1>2, <1>5, QueuesGrow
<1>7. Answered(Complete(s, job), job) \in Working(p, t, w, C, E)
  BY <1>2, <1>5, <1>6, AnsweredKeeps
<1>8. Longer(q, p) /\ Answerable(p, t)
  BY <1>2, <1>5, LongerTrans
<1> QED
  BY <1>2, <1>3, <1>4, <1>7, <1>8

-----------------------------------------------------------------------------
(* A packet.                                                               *)

(* What a packet's messages may leave, by whom they are from: an error is  *)
(* the error of the client's last request.                                 *)
Handled(q, t, w, E) ==
    {e \in UNION {Working(r, t, w, {}, E) : r \in {p \in Seq(Request) : Longer(q, p)}} :
        ~e.ok => Answerable(e.asked, t)}

(* What it says of the dispatcher. *)
LEMMA HandledIs ==
    ASSUME NEW E, NEW q \in Seq(Request), NEW t, NEW w, NEW e \in Handled(q, t, w, E)
    PROVE  /\ e.asked \in Seq(Request) /\ Longer(q, e.asked)
           /\ e \in Working(e.asked, t, w, {}, E) /\ (~e.ok => Answerable(e.asked, t))
<1>1. PICK r \in Seq(Request) : Longer(q, r) /\ e \in Working(r, t, w, {}, E)
  BY DEF Handled
<1>2. e.asked = r
  BY <1>1, Fields
<1> QED
  BY <1>1, <1>2 DEF Handled

(* The next message of a packet, unless one was refused. *)
LEMMA HandledStep ==
    ASSUME NEW E, NEW q \in Seq(Request), NEW t \in Peer, NEW w \in {0, 1}, NEW e \in Handled(q, t, w, E),
           NEW m \in Messages
    PROVE  (IF e.ok THEN Message(e, m) ELSE e) \in Handled(q, t, w, E)
<1>1. e.asked \in Seq(Request) /\ Longer(q, e.asked) /\ e \in Working(e.asked, t, w, {}, E)
  BY HandledIs
<1>2. PICK r \in Seq(Request) :
         Longer(e.asked, r) /\ Answerable(r, t) /\ Message(e, m) \in Working(r, t, w, {}, E)
  BY <1>1, MessageKeeps
<1>3. Longer(q, r) /\ Message(e, m).asked = r
  BY <1>1, <1>2, LongerTrans, Fields
<1> QED
  BY <1>2, <1>3 DEF Handled

(* All messages of a packet, by the fold that applies them. *)
LEMMA PacketHandled ==
    ASSUME NEW E, NEW q \in Seq(Request), NEW t \in Peer, NEW w \in {0, 1}, NEW base \in Handled(q, t, w, E),
           NEW msgs \in Seq(Messages)
    PROVE  FoldLeft(LAMBDA e, m : IF e.ok THEN Message(e, m) ELSE e, base, msgs) \in Handled(q, t, w, E)
<1> DEFINE S == DOMAIN msgs
           D == Handled(q, t, w, E)
           body(g) == [s \in SUBSET S |->
              IF s = {} THEN base
              ELSE IF g[s \ {Max(s)}].ok THEN Message(g[s \ {Max(s)}], msgs[Max(s)])
                   ELSE g[s \ {Max(s)}]]
           iter == CHOOSE g : g = body(g)
           pick == [s \in SUBSET S |-> Max(s)]
           step == [p \in S \X D |-> IF p[2].ok THEN Message(p[2], msgs[p[1]]) ELSE p[2]]
<1>1. S = 1 .. Len(msgs) /\ Len(msgs) \in Nat /\ IsFiniteSet(S) /\ \A i \in S : msgs[i] \in Messages
  <2>1. S = 1 .. Len(msgs) /\ Len(msgs) \in Nat /\ \A i \in S : msgs[i] \in Messages
    OBVIOUS
  <2>2. IsFiniteSet(1 .. Len(msgs))
    BY <2>1, FS_Interval
  <2> QED
    BY <2>1, <2>2, Zenon
<1>2. \A s \in SUBSET S : s # {} => pick[s] \in s /\ pick[s] = Max(s)
  BY <1>1, MaxIsOne
<1>3. step \in [S \X D -> D]
  BY <1>1, HandledStep
<1>0. base \in D
  OBVIOUS
<1> HIDE DEF S, D, pick
<1>4. PICK g : FoldOf(g, S, D, step, base, pick)
  <2>1. Folding(S, D, step, base, pick)
    <3> HIDE DEF step
    <3> QED
      BY <1>0, <1>1, <1>2, <1>3 DEF Folding
  <2> HIDE DEF step
  <2> QED
    BY <2>1, FoldExists, Zenon
<1>5. g = body(g)
  <2>1. \A s \in SUBSET S : s # {} =>
           step[<<pick[s], g[s \ {pick[s]}]>>]
             = IF g[s \ {Max(s)}].ok THEN Message(g[s \ {Max(s)}], msgs[Max(s)]) ELSE g[s \ {Max(s)}]
    BY <1>2, <1>4 DEF FoldOf
  <2> HIDE DEF step
  <2> QED
    BY <1>4, <2>1 DEF FoldOf
<1>6. iter = body(iter)
  <2> HIDE DEF body
  <2> QED
    BY <1>5
<1> HIDE DEF iter
<1>7. iter[{}] \in D
  BY <1>6 DEF D
<1>8. \A s \in SUBSET S : s # {} /\ iter[s \ {pick[s]}] \in D => iter[s] \in D
  <2> SUFFICES ASSUME NEW s \in SUBSET S, s # {}, iter[s \ {pick[s]}] \in D PROVE iter[s] \in D
    OBVIOUS
  <2>1. Max(s) = pick[s] /\ Max(s) \in S
    BY <1>2
  <2>2. iter[s] = IF iter[s \ {Max(s)}].ok THEN Message(iter[s \ {Max(s)}], msgs[Max(s)])
                  ELSE iter[s \ {Max(s)}]
    BY <1>6
  <2> QED
    BY <1>1, <2>1, <2>2, HandledStep DEF D
<1>9. iter[S] \in D
  <2>1. Stays(iter, S, D, pick)
    BY <1>1, <1>2, <1>7, <1>8 DEF Stays
  <2> QED
    BY <2>1, FoldStays, Zenon
<1>10. FoldLeft(LAMBDA e, m : IF e.ok THEN Message(e, m) ELSE e, base, msgs) = iter[S]
  BY DEF FoldLeft, MapThenFoldSet, iter, S
<1> QED
  BY <1>9, <1>10 DEF D

-----------------------------------------------------------------------------
(* The streams.                                                            *)

(* What may be left after more requests, answering whoever. *)
Since(q, w, C, E) ==
    UNION {Working(r, t, w, C, E) : r \in {p \in Seq(Request) : Longer(q, p)}, t \in Peer}

(* What it says of the dispatcher. *)
LEMMA SinceIs ==
    ASSUME NEW q \in Seq(Request), NEW w, NEW C, NEW E, NEW e \in Since(q, w, C, E)
    PROVE  /\ e.asked \in Seq(Request) /\ Longer(q, e.asked) /\ e.target \in Peer
           /\ e \in Working(e.asked, e.target, w, C, E)
<1>1. PICK r \in Seq(Request), t \in Peer : Longer(q, r) /\ e \in Working(r, t, w, C, E)
  BY DEF Since
<1>2. e.asked = r /\ e.target = t
  BY <1>1, Fields
<1> QED
  BY <1>1, <1>2

(* Members of it. *)
LEMMA SinceHas ==
    ASSUME NEW q \in Seq(Request), NEW r \in Seq(Request), Longer(q, r), NEW t \in Peer, NEW w, NEW C, NEW E,
           NEW e \in Working(r, t, w, C, E)
    PROVE  e \in Since(q, w, C, E)
  BY DEF Since

(* A stream out goes, and with it what the dispatcher knows of its buffer. *)
LEMMA OutGone ==
    ASSUME NEW q, NEW t, NEW w, NEW C, NEW E, NEW d \in Working(q, t, w, C, E), NEW b, NEW u
    PROVE  [d EXCEPT !.openWrites[b] = None, !.mirror = @ \ {b}, !.target = u] \in Working(q, u, w, C, E)
<1> DEFINE o == [d.openWrites EXCEPT ![b] = None]
           m == d.mirror \ {b}
           e == [d EXCEPT !.openWrites = o]
           f == [e EXCEPT !.mirror = m]
<1>1. o \in OutTables(q, C) /\ m \in SUBSET Things
  BY Fields, OutForgotten
<1>2. [d EXCEPT !.openWrites[b] = None, !.mirror = @ \ {b}, !.target = u] = [f EXCEPT !.target = u]
  BY DEF Working
<1> HIDE DEF o, m
<1>3. e \in Working(q, t, w, C, E)
  BY <1>1, Updates
<1> HIDE DEF e
<1>4. f \in Working(q, t, w, C, E)
  BY <1>1, <1>3, Updates
<1> HIDE DEF f
<1> QED
  BY <1>2, <1>4, Updates

(* A stream that is flushed and gone is answered to whoever closed it. *)
LEMMA ShutStep ==
    ASSUME NEW q \in Seq(Request), NEW w \in {0, 1}, NEW C, NEW E, NEW closed \in BOOLEAN,
           NEW d \in Since(q, w, C, E), NEW b \in Bufs \cap C
    PROVE  Shut(d, b, closed) \in Since(q, w, C, E)
<1> DEFINE r == d.asked
           job == d.openWrites[b].closing
           e == [d EXCEPT !.openWrites[b] = None, !.mirror = @ \ {b}, !.target = job.target]
<1>1. r \in Seq(Request) /\ Longer(q, r) /\ d.target \in Peer /\ d \in Working(r, d.target, w, C, E)
  BY SinceIs
<1>2. CASE d.openWrites[b] = None
  BY <1>2, Zenon DEF Shut
<1>3. CASE d.openWrites[b] # None
  <2>1. d.openWrites \in OutTables(r, C)
    BY <1>1, Fields
  <2>2. job \in Jobs(r)
    BY <1>3, <2>1 DEF OutTables, Outs
  <2>3. job.target \in Peer
    BY <2>2, JobIs
  <2>4. e \in Working(r, job.target, w, C, E)
    BY <1>1, OutGone
  <2>5. Shut(d, b, closed) \in {Finish(e, job), Fail(e, job)}
    BY <1>3, Zenon DEF Shut
  <2> HIDE DEF e, job, r
  <2>6. Fail(e, job) \in Working(r, job.target, w, C, E)
    BY <2>2, <2>4, FailKeeps
  <2>7. PICK p \in Seq(Request) : Longer(r, p) /\ Finish(e, job) \in Working(p, job.target, w, C, E)
    BY <1>1, <2>2, <2>3, <2>4, FinishKeeps
  <2>8. Longer(q, p)
    BY <1>1, <2>7, LongerTrans
  <2> QED
    BY <1>1, <2>3, <2>5, <2>6, <2>7, <2>8, SinceHas
<1> QED
  BY <1>2, <1>3

(* A broken stream's client is told, and its slot freed. *)
LEMMA Released ==
    ASSUME NEW q, NEW t, NEW w \in {0, 1}, NEW C, NEW E, NEW d \in Working(q, t, w, C, E), NEW b \in Bufs
    PROVE  [Push(d, "free", b, 0, TRUE) EXCEPT !.ok = TRUE] \in Working(q, t, w, C, E)
<1> DEFINE p == Push(d, "free", b, 0, TRUE)
<1>1. b \in Things
  BY DEF Things
<1>2. p \in Working(q, t, w, C, E)
  BY <1>1, PushKeeps DEF CommandOps, Tags
<1> HIDE DEF p
<1>3. [p EXCEPT !.ok = TRUE] \in Working(q, t, w, C, E)
  BY <1>2, OkKeeps
<1> QED
  BY <1>3 DEF p

(* A broken stream is told to whoever closed it, or else to whoever opened it. *)
LEMMA BreakStep ==
    ASSUME NEW q \in Seq(Request), NEW w \in {0, 1}, NEW C, NEW E, NEW d \in Since(q, w, C, E), NEW b \in Bufs
    PROVE  Break(d, b) \in Since(q, w, C, E)
<1> DEFINE r == d.asked
           open == d.openWrites[b]
           job == open.closing
           e == [d EXCEPT !.openWrites[b] = None, !.mirror = @ \ {b}]
           told == Say([e EXCEPT !.target = open.target], open.rid, "broken")
           failed == Fail([e EXCEPT !.target = job.target], job)
           f == IF job = None THEN told ELSE failed
<1>1. r \in Seq(Request) /\ Longer(q, r) /\ d.target \in Peer /\ d \in Working(r, d.target, w, C, E)
  BY SinceIs
<1>2. CASE open = None
  BY <1>2, Zenon DEF Break
<1>3. CASE open # None
  <2>1. d.openWrites \in OutTables(r, C)
    BY <1>1, Fields
  <2>2. open \in Outs(r)
    BY <1>3, <2>1 DEF OutTables
  <2>3. /\ open.rid \in Nat /\ open.target \in Peer /\ Own(r, open.rid, open.target)
        /\ job # None => job \in Jobs(r)
    BY <2>2 DEF Outs
  <2>4. \A u : [d EXCEPT !.openWrites[b] = None, !.mirror = @ \ {b}, !.target = u] \in Working(r, u, w, C, E)
    BY <1>1, OutGone
  <2>5. \A u : [e EXCEPT !.target = u] = [d EXCEPT !.openWrites[b] = None, !.mirror = @ \ {b}, !.target = u]
    OBVIOUS
  <2>6. \A u : [e EXCEPT !.target = u] \in Working(r, u, w, C, E)
    BY <2>4, <2>5
  <2>7. Break(d, b) = [Push(f, "free", b, 0, TRUE) EXCEPT !.ok = TRUE]
    BY <1>3, Zenon DEF Break
  <2> HIDE DEF e, open, r
  <2>8. told \in Working(r, open.target, w, C, E)
    BY <2>3, <2>6, SayKeeps
  <2>9. job # None => failed \in Working(r, job.target, w, C, E) /\ job.target \in Peer
    BY <2>3, <2>6, FailKeeps, JobIs
  <2> HIDE DEF told, failed, job
  <2>10. PICK u \in Peer : f \in Working(r, u, w, C, E)
    BY <2>3, <2>8, <2>9
  <2> HIDE DEF f
  <2>11. [Push(f, "free", b, 0, TRUE) EXCEPT !.ok = TRUE] \in Working(r, u, w, C, E)
    BY <2>10, Released
  <2> QED
    BY <1>1, <2>7, <2>11, SinceHas
<1> QED
  BY <1>2, <1>3

(* A broken stream in is told to whoever opened it. *)
LEMMA UnreadStep ==
    ASSUME NEW q \in Seq(Request), NEW w \in {0, 1}, NEW C, NEW E, NEW d \in Since(q, w, C, E), NEW b \in Bufs
    PROVE  Unread(d, b) \in Since(q, w, C, E)
<1> DEFINE r == d.asked
           open == d.openReads[b]
           e == [d EXCEPT !.openReads[b] = None, !.target = open.target]
           f == Say(e, open.rid, "broken")
<1>1. r \in Seq(Request) /\ Longer(q, r) /\ d.target \in Peer /\ d \in Working(r, d.target, w, C, E)
  BY SinceIs
<1>2. CASE open = None
  BY <1>2, Zenon DEF Unread
<1>3. CASE open # None
  <2>1. d.openReads \in [Bufs -> Ins(r) \cup {None}]
    BY <1>1, Fields
  <2>2. open \in Ins(r)
    BY <1>3, <2>1
  <2>3. open.rid \in Nat /\ open.target \in Peer /\ Own(r, open.rid, open.target)
    BY <2>2 DEF Ins
  <2>4. e \in Working(r, open.target, w, C, E)
    <3> DEFINE i == [d.openReads EXCEPT ![b] = None]
               h == [d EXCEPT !.openReads = i]
    <3>1. i \in [Bufs -> Ins(r) \cup {None}]
      BY <2>1
    <3>2. e = [h EXCEPT !.target = open.target]
      OBVIOUS
    <3> HIDE DEF i, e, r, open
    <3>3. h \in Working(r, d.target, w, C, E)
      BY <1>1, <3>1, Updates
    <3> HIDE DEF h
    <3> QED
      BY <3>2, <3>3, Updates
  <2>5. Unread(d, b) = [Push(f, "free", b, 0, TRUE) EXCEPT !.ok = TRUE]
    BY <1>3, Zenon DEF Unread
  <2> HIDE DEF e, open, r
  <2>6. f \in Working(r, open.target, w, C, E)
    BY <2>3, <2>4, SayKeeps
  <2> HIDE DEF f
  <2>7. [Push(f, "free", b, 0, TRUE) EXCEPT !.ok = TRUE] \in Working(r, open.target, w, C, E)
    BY <2>6, Released
  <2> QED
    BY <1>1, <2>3, <2>5, <2>7, SinceHas
<1> QED
  BY <1>2, <1>3

(* All of them. *)
LEMMA AllShut ==
    ASSUME NEW q \in Seq(Request), NEW w \in {0, 1}, NEW C, NEW E, NEW closed \in BOOLEAN,
           NEW base \in Since(q, w, C, E), NEW S \in SUBSET (Bufs \cap C)
    PROVE  FoldSet(LAMBDA b, e : Shut(e, b, closed), base, S) \in Since(q, w, C, E)
<1> DEFINE D == Since(q, w, C, E)
           body(g) == [s \in SUBSET S |->
              IF s = {} THEN base
              ELSE Shut(g[s \ {CHOOSE x \in s : TRUE}], CHOOSE x \in s : TRUE, closed)]
           iter == CHOOSE g : g = body(g)
           pick == [s \in SUBSET S |-> CHOOSE x \in s : TRUE]
           step == [p \in S \X D |-> Shut(p[2], p[1], closed)]
<1>1. IsFiniteSet(S)
  BY FS_Subset, BoundAssumption
<1>2. \A s \in SUBSET S : s # {} => pick[s] \in s /\ pick[s] = CHOOSE x \in s : TRUE
  OBVIOUS
<1>3. step \in [S \X D -> D]
  BY ShutStep
<1>4. base \in D
  OBVIOUS
<1> HIDE DEF D, pick
<1>5. PICK g : FoldOf(g, S, D, step, base, pick)
  <2>1. Folding(S, D, step, base, pick)
    <3> HIDE DEF step
    <3> QED
      BY <1>1, <1>2, <1>3, <1>4 DEF Folding
  <2> HIDE DEF step
  <2> QED
    BY <2>1, FoldExists, Zenon
<1>6. g = body(g)
  <2>1. \A s \in SUBSET S : s # {} =>
           step[<<pick[s], g[s \ {pick[s]}]>>]
             = Shut(g[s \ {CHOOSE x \in s : TRUE}], CHOOSE x \in s : TRUE, closed)
    BY <1>2, <1>5 DEF FoldOf
  <2> HIDE DEF step
  <2> QED
    BY <1>5, <2>1, ZenonT(30) DEF FoldOf
<1>7. iter = body(iter)
  <2> HIDE DEF body
  <2> QED
    BY <1>6
<1> HIDE DEF iter
<1>8. iter[{}] \in D
  BY <1>4, <1>7
<1>9. \A s \in SUBSET S : s # {} /\ iter[s \ {pick[s]}] \in D => iter[s] \in D
  <2> SUFFICES ASSUME NEW s \in SUBSET S, s # {}, iter[s \ {pick[s]}] \in D PROVE iter[s] \in D
    OBVIOUS
  <2> DEFINE y == CHOOSE x \in s : TRUE
           z == iter[s \ {y}]
  <2>1. y = pick[s] /\ y \in S
    BY <1>2
  <2>2. iter[s] = Shut(z, y, closed)
    BY <1>7
  <2>3. z \in Since(q, w, C, E) /\ y \in (Bufs \cap C)
    BY <2>1 DEF D
  <2> HIDE DEF y, z
  <2>4. Shut(z, y, closed) \in Since(q, w, C, E)
    BY <2>3, ShutStep
  <2> QED
    BY <2>2, <2>4 DEF D
<1>10. iter[S] \in D
  <2>1. Stays(iter, S, D, pick)
    BY <1>1, <1>2, <1>8, <1>9 DEF Stays
  <2> QED
    BY <2>1, FoldStays, Zenon
<1>11. FoldSet(LAMBDA b, e : Shut(e, b, closed), base, S) = iter[S]
  BY DEF FoldSet, MapThenFoldSet, iter
<1> QED
  BY <1>10, <1>11 DEF D

(* All broken streams out. *)
LEMMA AllBroken ==
    ASSUME NEW q \in Seq(Request), NEW w \in {0, 1}, NEW C, NEW E,
           NEW base \in Since(q, w, C, E), NEW S \in SUBSET Bufs
    PROVE  FoldSet(LAMBDA b, e : Break(e, b), base, S) \in Since(q, w, C, E)
<1> DEFINE D == Since(q, w, C, E)
           body(g) == [s \in SUBSET S |->
              IF s = {} THEN base
              ELSE Break(g[s \ {CHOOSE x \in s : TRUE}], CHOOSE x \in s : TRUE)]
           iter == CHOOSE g : g = body(g)
           pick == [s \in SUBSET S |-> CHOOSE x \in s : TRUE]
           step == [p \in S \X D |-> Break(p[2], p[1])]
<1>1. IsFiniteSet(S)
  BY FS_Subset, BoundAssumption
<1>2. \A s \in SUBSET S : s # {} => pick[s] \in s /\ pick[s] = CHOOSE x \in s : TRUE
  OBVIOUS
<1>3. step \in [S \X D -> D]
  BY BreakStep
<1>4. base \in D
  OBVIOUS
<1> HIDE DEF D, pick
<1>5. PICK g : FoldOf(g, S, D, step, base, pick)
  <2>1. Folding(S, D, step, base, pick)
    <3> HIDE DEF step
    <3> QED
      BY <1>1, <1>2, <1>3, <1>4 DEF Folding
  <2> HIDE DEF step
  <2> QED
    BY <2>1, FoldExists, Zenon
<1>6. g = body(g)
  <2>1. \A s \in SUBSET S : s # {} =>
           step[<<pick[s], g[s \ {pick[s]}]>>]
             = Break(g[s \ {CHOOSE x \in s : TRUE}], CHOOSE x \in s : TRUE)
    BY <1>2, <1>5 DEF FoldOf
  <2> HIDE DEF step
  <2> QED
    BY <1>5, <2>1 DEF FoldOf
<1>7. iter = body(iter)
  <2> HIDE DEF body
  <2> QED
    BY <1>6
<1> HIDE DEF iter
<1>8. iter[{}] \in D
  BY <1>4, <1>7
<1>9. \A s \in SUBSET S : s # {} /\ iter[s \ {pick[s]}] \in D => iter[s] \in D
  <2> SUFFICES ASSUME NEW s \in SUBSET S, s # {}, iter[s \ {pick[s]}] \in D PROVE iter[s] \in D
    OBVIOUS
  <2> DEFINE y == CHOOSE x \in s : TRUE
           z == iter[s \ {y}]
  <2>1. y = pick[s] /\ y \in S
    BY <1>2
  <2>2. iter[s] = Break(z, y)
    BY <1>7
  <2>3. z \in Since(q, w, C, E) /\ y \in Bufs
    BY <2>1 DEF D
  <2> HIDE DEF y, z
  <2>4. Break(z, y) \in Since(q, w, C, E)
    BY <2>3, BreakStep
  <2> QED
    BY <2>2, <2>4 DEF D
<1>10. iter[S] \in D
  <2>1. Stays(iter, S, D, pick)
    BY <1>1, <1>2, <1>8, <1>9 DEF Stays
  <2> QED
    BY <2>1, FoldStays, Zenon
<1>11. FoldSet(LAMBDA b, e : Break(e, b), base, S) = iter[S]
  BY DEF FoldSet, MapThenFoldSet, iter
<1> QED
  BY <1>10, <1>11 DEF D

(* All broken streams in. *)
LEMMA AllUnread ==
    ASSUME NEW q \in Seq(Request), NEW w \in {0, 1}, NEW C, NEW E,
           NEW base \in Since(q, w, C, E), NEW S \in SUBSET Bufs
    PROVE  FoldSet(LAMBDA b, e : Unread(e, b), base, S) \in Since(q, w, C, E)
<1> DEFINE D == Since(q, w, C, E)
           body(g) == [s \in SUBSET S |->
              IF s = {} THEN base
              ELSE Unread(g[s \ {CHOOSE x \in s : TRUE}], CHOOSE x \in s : TRUE)]
           iter == CHOOSE g : g = body(g)
           pick == [s \in SUBSET S |-> CHOOSE x \in s : TRUE]
           step == [p \in S \X D |-> Unread(p[2], p[1])]
<1>1. IsFiniteSet(S)
  BY FS_Subset, BoundAssumption
<1>2. \A s \in SUBSET S : s # {} => pick[s] \in s /\ pick[s] = CHOOSE x \in s : TRUE
  OBVIOUS
<1>3. step \in [S \X D -> D]
  BY UnreadStep
<1>4. base \in D
  OBVIOUS
<1> HIDE DEF D, pick
<1>5. PICK g : FoldOf(g, S, D, step, base, pick)
  <2>1. Folding(S, D, step, base, pick)
    <3> HIDE DEF step
    <3> QED
      BY <1>1, <1>2, <1>3, <1>4 DEF Folding
  <2> HIDE DEF step
  <2> QED
    BY <2>1, FoldExists, Zenon
<1>6. g = body(g)
  <2>1. \A s \in SUBSET S : s # {} =>
           step[<<pick[s], g[s \ {pick[s]}]>>]
             = Unread(g[s \ {CHOOSE x \in s : TRUE}], CHOOSE x \in s : TRUE)
    BY <1>2, <1>5 DEF FoldOf
  <2> HIDE DEF step
  <2> QED
    BY <1>5, <2>1 DEF FoldOf
<1>7. iter = body(iter)
  <2> HIDE DEF body
  <2> QED
    BY <1>6
<1> HIDE DEF iter
<1>8. iter[{}] \in D
  BY <1>4, <1>7
<1>9. \A s \in SUBSET S : s # {} /\ iter[s \ {pick[s]}] \in D => iter[s] \in D
  <2> SUFFICES ASSUME NEW s \in SUBSET S, s # {}, iter[s \ {pick[s]}] \in D PROVE iter[s] \in D
    OBVIOUS
  <2> DEFINE y == CHOOSE x \in s : TRUE
           z == iter[s \ {y}]
  <2>1. y = pick[s] /\ y \in S
    BY <1>2
  <2>2. iter[s] = Unread(z, y)
    BY <1>7
  <2>3. z \in Since(q, w, C, E) /\ y \in Bufs
    BY <2>1 DEF D
  <2> HIDE DEF y, z
  <2>4. Unread(z, y) \in Since(q, w, C, E)
    BY <2>3, UnreadStep
  <2> QED
    BY <2>2, <2>4 DEF D
<1>10. iter[S] \in D
  <2>1. Stays(iter, S, D, pick)
    BY <1>1, <1>2, <1>8, <1>9 DEF Stays
  <2> QED
    BY <2>1, FoldStays, Zenon
<1>11. FoldSet(LAMBDA b, e : Unread(e, b), base, S) = iter[S]
  BY DEF FoldSet, MapThenFoldSet, iter
<1> QED
  BY <1>10, <1>11 DEF D

-----------------------------------------------------------------------------
(* The inductive invariant.                                                *)

JobStages == {"loads", "reads", "defs", "cmds", "closes"}
StageSet == JobStages \cup {"writes", "pump"}

(* What a stage has in hand. *)
BatchFits(s, b, o) ==
    /\ s \in JobStages => b \in Seq(Jobs(o.asked)) /\ b # <<>>
    /\ s = "writes" => b # <<>> /\ Head(b) \in DOMAIN o.writes

Sound(o, g, s, b, E) ==
    /\ o.asked \in Seq(Request) /\ o.target \in Peer /\ o.window \in {0, 1}
    /\ o \in Working(o.asked, o.target, o.window, {}, E)
    /\ g \in Seq(Replies(o.asked))
    /\ s \in StageSet \cup {"idle"} /\ BatchFits(s, b, o)

(* The audio thread's side, and what it excuses: a definition a node was   *)
(* made from, will be made from, or is about to be reported not to have.   *)
Engine(e) ==
    /\ DOMAIN e = {"slot", "held", "alive", "copying", "gone", "events"}
    /\ e.held \in Seq(Commands) /\ e.alive \in [Nodes -> Tags] /\ e.events \in Seq(Things)
Named(e) ==
    {p \in Nodes \X Defs : p[2] # None /\
        (p[1] \in Range(e.events) \/ e.alive[p[1]] = p[2] \/ Sent(e.held, p[1], p[2]))}
Excused == Named(Now)

DispatchInv ==
    session \in Sessions /\ Engine(Now) /\ Sound(osc, got, stage, batch, Excused)

(* What is excused by more is excused. *)
LEMMA WorkingExcused ==
    ASSUME NEW E, NEW D, E \subseteq D, NEW q, NEW t, NEW w, NEW C
    PROVE  Working(q, t, w, C, E) \subseteq Working(q, t, w, C, D)
<1>1. \A nodeDefs, ring : Tracks(nodeDefs, ring, E) => Tracks(nodeDefs, ring, D)
  BY DEF Tracks
<1> QED
  BY <1>1 DEF Working

(* The audio thread is elsewhere. *)
LEMMA EngineStill ==
    ASSUME UNCHANGED <<engine, events>>
    PROVE  Now' = Now /\ Excused' = Excused
<1>1. Now' = Now
  BY DEF Now, engine
<1> QED
  BY <1>1 DEF Excused

(* A step that hands out no reply. *)
LEMMA SoundAfter ==
    ASSUME NEW E, NEW D, NEW o, NEW g, NEW s, NEW b, Sound(o, g, s, b, E),
           NEW e \in Since(o.asked, o.window, {}, D), NEW u \in StageSet \cup {"idle"}, NEW c, BatchFits(u, c, e)
    PROVE  Sound(e, g, u, c, D)
<1>1. o.asked \in Seq(Request) /\ o.window \in {0, 1} /\ g \in Seq(Replies(o.asked))
  BY DEF Sound
<1>2. /\ e.asked \in Seq(Request) /\ Longer(o.asked, e.asked) /\ e.target \in Peer
      /\ e \in Working(e.asked, e.target, o.window, {}, D)
  BY <1>1, SinceIs
<1>3. e.window = o.window
  BY <1>2, Fields
<1>4. g \in Seq(Replies(e.asked))
  BY <1>1, <1>2, QueuesGrow, SeqGrows
<1> QED
  BY <1>1, <1>2, <1>3, <1>4 DEF Sound

(* No request since. *)
LEMMA StaysSince ==
    ASSUME NEW E, NEW o, NEW g, NEW s, NEW b, Sound(o, g, s, b, E)
    PROVE  o \in Since(o.asked, o.window, {}, E) /\ Longer(o.asked, o.asked)
<1>1. Longer(o.asked, o.asked)
  BY DEF Longer, Sound
<1> QED
  BY <1>1, SinceHas DEF Sound

(* The next stage that has something to do. *)
LEMMA StagesAre ==
    /\ Len(Stages) = 7 /\ DOMAIN Stages = 1 .. 7
    /\ \A i \in 1 .. 7 : Stages[i] \in StageSet /\ (Stages[i] = "pump" => i = 7)
    /\ Stages[7] = "pump"
  BY DEF Stages, StageSet, JobStages

(* The least of some numbers is one of them. *)
LEMMA MinIsOne ==
    ASSUME NEW T \in SUBSET Nat, T # {}
    PROVE  Min(T) \in T
<1>1. \E x \in T : \A y \in T : x <= y
  BY LeastNat
<1> QED
  BY <1>1 DEF Min

(* Entering a stage takes its queue in hand. *)
LEMMA Entered ==
    ASSUME NEW E, NEW q, NEW t, NEW w, NEW d \in Working(q, t, w, {}, E), NEW from \in 1 .. 7, Enter(d, from)
    PROVE  osc' \in Working(q, t, w, {}, E) /\ stage' \in StageSet /\ BatchFits(stage', batch', osc')
<1> DEFINE T == {i \in from .. Len(Stages) : Queue(d, Stages[i]) # <<>>}
           next == Min(T)
           s == Stages[next]
<1>1. next \in T
  <2>1. Queue(d, "pump") # <<>>
    BY DEF Queue
  <2>2. 7 \in from .. Len(Stages) /\ Stages[7] = "pump"
    BY StagesAre
  <2>3. 7 \in T
    BY <2>1, <2>2
  <2>4. T \in SUBSET Nat
    BY StagesAre
  <2> HIDE DEF T
  <2> QED
    BY <2>3, <2>4, MinIsOne
<1>2. s \in StageSet /\ Queue(d, s) # <<>>
  BY <1>1, StagesAre
<1>3. stage' = s /\ batch' = Queue(d, s) /\ osc' = Taken(d, s)
  BY Zenon DEF Enter
<1> HIDE DEF s
<1>4. d.asked = q
  BY Fields
<1>5. /\ s = "loads" => Queue(d, s) = d.loads /\ Taken(d, s) = [d EXCEPT !.loads = <<>>]
      /\ s = "reads" => Queue(d, s) = d.reads /\ Taken(d, s) = [d EXCEPT !.reads = <<>>]
      /\ s = "defs" => Queue(d, s) = d.defs /\ Taken(d, s) = [d EXCEPT !.defs = <<>>]
      /\ s = "cmds" => Queue(d, s) = d.cmds /\ Taken(d, s) = [d EXCEPT !.cmds = <<>>]
      /\ s = "closes" => Queue(d, s) = d.closes /\ Taken(d, s) = [d EXCEPT !.closes = <<>>]
      /\ s = "writes" => Queue(d, s) = (IF d.writes = <<>> THEN <<>> ELSE <<1>>) /\ Taken(d, s) = d
      /\ s = "pump" => Taken(d, s) = d
  BY DEF Queue, Taken
<1>6. /\ [d EXCEPT !.loads = <<>>] \in Working(q, t, w, {}, E)
      /\ [d EXCEPT !.reads = <<>>] \in Working(q, t, w, {}, E)
      /\ [d EXCEPT !.defs = <<>>] \in Working(q, t, w, {}, E)
      /\ [d EXCEPT !.cmds = <<>>] \in Working(q, t, w, {}, E)
      /\ [d EXCEPT !.closes = <<>>] \in Working(q, t, w, {}, E)
  <2>1. <<>> \in Seq(Jobs(q))
    OBVIOUS
  <2> QED
    BY <2>1, QueueUpdates
<1>7. Taken(d, s) \in Working(q, t, w, {}, E)
  BY <1>2, <1>5, <1>6 DEF StageSet, JobStages
<1>8. Taken(d, s).asked = q
  BY <1>7, Fields
<1>9. s \in JobStages => Queue(d, s) \in Seq(Jobs(q))
  BY <1>5, Fields DEF JobStages
<1>10. s = "writes" => Head(Queue(d, s)) \in DOMAIN Taken(d, s).writes
  <2> SUFFICES ASSUME s = "writes" PROVE Head(Queue(d, s)) \in DOMAIN Taken(d, s).writes
    OBVIOUS
  <2>1. d.writes # <<>> /\ Queue(d, s) = <<1>> /\ Taken(d, s) = d
    BY <1>2, <1>5
  <2>2. 1 \in DOMAIN d.writes
    BY <2>1, Fields
  <2> QED
    BY <2>1, <2>2
<1> QED
  BY <1>2, <1>3, <1>7, <1>8, <1>9, <1>10 DEF BatchFits

(* A stage goes on with the rest of its batch, or the next is entered. *)
LEMMA Moved ==
    ASSUME NEW E, NEW q, NEW t, NEW w, NEW d \in Working(q, t, w, {}, E), NEW rest,
           stage \in StageSet \ {"pump"}, rest # <<>> => BatchFits(stage, rest, d), After(d, rest)
    PROVE  osc' \in Working(q, t, w, {}, E) /\ stage' \in StageSet /\ BatchFits(stage', batch', osc')
<1>1. CASE rest # <<>>
  BY <1>1 DEF After
<1>2. CASE rest = <<>>
  <2>1. PICK i \in DOMAIN Stages : Stages[i] = stage /\ Enter(d, i + 1)
    BY <1>2, Zenon DEF After
  <2>2. i + 1 \in 1 .. 7
    BY <2>1, StagesAre
  <2> QED
    BY <2>1, <2>2, Entered
<1> QED
  BY <1>1, <1>2

(* A stage that works off jobs. *)
LEMMA Served ==
    ASSUME DispatchInv, NEW s \in JobStages, Serving(s), NEW d \in Since(osc.asked, osc.window, {}, Excused),
           After(d, Tail(batch))
    PROVE  DispatchInv'
<1>1. stage = s /\ got' = got /\ session' = session
  BY DEF Serving
<1>2. Sound(osc, got, stage, batch, Excused) /\ session \in Sessions
  BY DEF DispatchInv
<1>3. osc.asked \in Seq(Request) /\ batch \in Seq(Jobs(osc.asked)) /\ batch # <<>>
  BY <1>1, <1>2 DEF Sound, BatchFits
<1>4. /\ d.asked \in Seq(Request) /\ Longer(osc.asked, d.asked) /\ d.target \in Peer
      /\ d \in Working(d.asked, d.target, osc.window, {}, Excused)
  BY <1>3, SinceIs
<1>5. Tail(batch) \in Seq(Jobs(d.asked))
  <2>1. Seq(Jobs(osc.asked)) \subseteq Seq(Jobs(d.asked))
    BY <1>3, <1>4, QueuesGrow, SeqGrows
  <2>2. Tail(batch) \in Seq(Jobs(osc.asked))
    BY <1>3
  <2> QED
    BY <2>1, <2>2
<1>6. stage \in StageSet \ {"pump"} /\ stage # "writes"
  BY <1>1 DEF StageSet, JobStages
<1>7. Tail(batch) # <<>> => BatchFits(stage, Tail(batch), d)
  BY <1>5, <1>6 DEF BatchFits
<1>8. /\ osc' \in Working(d.asked, d.target, osc.window, {}, Excused) /\ stage' \in StageSet
      /\ BatchFits(stage', batch', osc')
  BY <1>4, <1>6, <1>7, Moved
<1>9. osc' \in Since(osc.asked, osc.window, {}, Excused)
  BY <1>3, <1>4, <1>8, SinceHas
<1>10. Sound(osc', got, stage', batch', Excused)
  BY <1>2, <1>8, <1>9, SoundAfter
<1>11. Now' = Now /\ Excused' = Excused /\ Engine(Now)
  BY EngineStill DEF Serving, DispatchInv
<1> QED
  BY <1>1, <1>2, <1>10, <1>11 DEF DispatchInv

-----------------------------------------------------------------------------
(* The steps.                                                              *)

(* What the invariant says of the dispatcher. *)
LEMMA DispatchTypes ==
    ASSUME DispatchInv
    PROVE  /\ osc.asked \in Seq(Request) /\ osc.target \in Peer /\ osc.window \in {0, 1}
           /\ osc \in Working(osc.asked, osc.target, osc.window, {}, Excused)
           /\ got \in Seq(Replies(osc.asked)) /\ session \in Sessions
           /\ stage \in JobStages => batch \in Seq(Jobs(osc.asked)) /\ Head(batch) \in Jobs(osc.asked)
  BY DEF DispatchInv, Sound, BatchFits

(* What reaches the clients.                                               *)
LEMMA GotGrows ==
    ASSUME NEW q \in Seq(Request), NEW r \in Seq(Request), Longer(q, r), NEW g \in Seq(Replies(q)),
           NEW h \in Seq(Replies(r))
    PROVE  g \o h \in Seq(Replies(r))
<1>1. g \in Seq(Replies(r))
  BY QueuesGrow, SeqGrows
<1> QED
  BY <1>1, ConcatProperties

(* The invariant holds at the start. *)
LEMMA InitDispatch ==
    ASSUME Init
    PROVE  DispatchInv
<1>1. /\ <<>> \in Seq(Replies(<<>>)) /\ <<>> \in Seq(Jobs(<<>>)) /\ <<>> \in Seq(Writes(<<>>))
      /\ <<>> \in Seq(Commands) /\ <<>> \in Seq(Request)
  OBVIOUS
<1>2. /\ NoneOpen \in OutTables(<<>>, {}) /\ NoneOpen \in [Bufs -> Ins(<<>>) \cup {None}]
  BY DEF NoneOpen, OutTables
<1>3. {} \in SUBSET Things /\ [n \in Nodes |-> None] \in [Nodes -> Defs \cup {None}]
  OBVIOUS
<1> DEFINE start(ok) ==
       [asked |-> <<>>, replies |-> <<>>, target |-> None, window |-> 0, ok |-> ok,
        mirror |-> {}, nodeDefs |-> [n \in Nodes |-> None],
        loads |-> <<>>, reads |-> <<>>, defs |-> <<>>, cmds |-> <<>>, closes |-> <<>>,
        writes |-> <<>>, openWrites |-> NoneOpen, openReads |-> NoneOpen, ring |-> <<>>]
<1>4. \A ok \in BOOLEAN : start(ok) \in Working(<<>>, None, 0, {}, Excused)
  <2>1. Tracks([n \in Nodes |-> None], <<>>, Excused)
    BY DEF Tracks
  <2> QED
    BY <1>1, <1>2, <1>3, <2>1 DEF Working
<1>5. osc = start(TRUE)
  BY DEF Init
<1>6. osc \in Working(<<>>, None, 0, {}, Excused)
  <2> HIDE DEF start
  <2> QED
    BY <1>4, <1>5, Zenon
<1>7. osc.asked = <<>> /\ osc.target = None /\ osc.window = 0
  BY <1>6, Fields
<1>8. got = <<>> /\ stage = "idle" /\ session \in Sessions
  BY DEF Init
<1>9. BatchFits(stage, batch, osc)
  BY <1>8 DEF BatchFits, JobStages
<1>10. Engine(Now)
  <2>1. <<>> \in Seq(Commands) /\ <<>> \in Seq(Things)
    OBVIOUS
  <2>2. [n \in Nodes |-> None] \in [Nodes -> Tags]
    BY DEF Tags
  <2> QED
    BY <2>1, <2>2 DEF Init, Now, Engine
<1> QED
  BY <1>1, <1>6, <1>7, <1>8, <1>9, <1>10 DEF DispatchInv, Sound, Peer

(* Between ticks nothing is in hand. *)
LEMMA IdleFits == \A b, o : BatchFits("idle", b, o) /\ BatchFits("pump", b, o)
  BY DEF BatchFits, JobStages

(* A packet; its error goes back to its sender under its last request. *)
LEMMA PacketKeeps ==
    ASSUME DispatchInv, NEW client \in Clients, NEW p \in session, HandlePacket(client, p)
    PROVE  DispatchInv'
<1> DEFINE q == osc.asked
           w == osc.window
           opened == [osc EXCEPT !.target = client, !.window = p.time, !.ok = TRUE]
           done == FoldLeft(LAMBDA e, m : IF e.ok THEN Message(e, m) ELSE e, opened, p.msgs)
           d == [done EXCEPT !.window = w]
           r == d.asked
           refused == [to |-> client, rid |-> Len(r), how |-> "failed"]
<1>1. /\ q \in Seq(Request) /\ osc.target \in Peer /\ w \in {0, 1}
      /\ osc \in Working(q, osc.target, w, {}, Excused)
      /\ got \in Seq(Replies(q)) /\ session \in Sessions /\ Engine(Now)
  BY DispatchTypes DEF DispatchInv
<1>2. p.time \in {0, 1} /\ p.msgs \in Seq(Messages)
  BY <1>1, PacketAssumption
<1>3. client \in Peer
  BY DEF Peer
<1>4. opened \in Handled(q, client, p.time, Excused)
  <2> DEFINE e == [[osc EXCEPT !.target = client] EXCEPT !.window = p.time]
  <2>1. [osc EXCEPT !.target = client] \in Working(q, client, w, {}, Excused)
    BY <1>1, Updates
  <2>2. e \in Working(q, client, p.time, {}, Excused)
    BY <2>1, Updates
  <2>3. opened = [e EXCEPT !.ok = TRUE]
    BY Zenon
  <2> HIDE DEF e
  <2>4. \A v \in BOOLEAN : [e EXCEPT !.ok = v].ok = v
    BY <2>2 DEF Working
  <2>5. [e EXCEPT !.ok = TRUE].ok = TRUE
    BY <2>4, Zenon
  <2>6. [e EXCEPT !.ok = TRUE] \in Working(q, client, p.time, {}, Excused)
    BY <2>2, OkKeeps
  <2>7. Longer(q, q)
    BY <1>1 DEF Longer
  <2> HIDE DEF opened
  <2>8. opened \in Working(q, client, p.time, {}, Excused) /\ opened.ok
    BY <2>3, <2>5, <2>6, Zenon
  <2> QED
    BY <1>1, <2>7, <2>8 DEF Handled
<1> HIDE DEF opened
<1>5. done \in Handled(q, client, p.time, Excused)
  BY <1>1, <1>2, <1>3, <1>4, PacketHandled
<1> HIDE DEF done
<1>6. /\ done.asked \in Seq(Request) /\ Longer(q, done.asked)
      /\ done \in Working(done.asked, client, p.time, {}, Excused) /\ (~done.ok => Answerable(done.asked, client))
  BY <1>1, <1>5, HandledIs
<1>7. d \in Working(done.asked, client, w, {}, Excused) /\ d.asked = done.asked /\ d.ok = done.ok
  BY <1>6, Updates, ZenonT(30) DEF Working
<1>8. ApplyPacket(osc, client, p) = d
  BY Zenon DEF ApplyPacket, opened, done
<1>9. /\ IF d.ok THEN got' = got \o d.replies /\ osc' = [d EXCEPT !.replies = <<>>]
         ELSE got' = Append(got, refused) /\ osc' = d
      /\ stage' = "idle" /\ session' = session /\ Now' = Now /\ Excused' = Excused
  BY <1>8, EngineStill, Zenon DEF HandlePacket
<1> HIDE DEF d, q, w
<1>10. r \in Seq(Request) /\ Longer(q, r) /\ d \in Working(r, client, w, {}, Excused)
  BY <1>6, <1>7
<1>11. d.replies \in Seq(Replies(r)) /\ [d EXCEPT !.replies = <<>>] \in Working(r, client, w, {}, Excused)
  <2>1. <<>> \in Seq(Replies(r))
    OBVIOUS
  <2> QED
    BY <1>10, <2>1, Updates, Fields
<1> HIDE DEF r
<1>12. osc' \in Working(r, client, w, {}, Excused)
  BY <1>9, <1>10, <1>11
<1>13. got' \in Seq(Replies(r))
  <2>1. CASE d.ok
    <3>1. /\ q \in Seq(Request) /\ r \in Seq(Request) /\ Longer(q, r)
          /\ got \in Seq(Replies(q)) /\ d.replies \in Seq(Replies(r))
      BY <1>1, <1>10, <1>11
    <3>2. got \o d.replies \in Seq(Replies(r))
      BY <3>1, GotGrows
    <3> QED
      BY <1>9, <2>1, <3>2, Zenon
  <2>2. CASE ~d.ok
    <3>1. Answerable(r, client)
      BY <1>6, <1>7, <2>2 DEF r
    <3>2. refused \in Replies(r)
      BY <1>3, <1>10, <3>1 DEF Answerable, Replies, Own
    <3>3. got \in Seq(Replies(r))
      BY <1>1, <1>10, QueuesGrow, SeqGrows
    <3> QED
      BY <1>9, <2>2, <3>2, <3>3
  <2> QED
    BY <2>1, <2>2
<1>14. osc'.asked = r /\ osc'.target = client /\ osc'.window = w
  BY <1>12, Fields
<1> QED
  BY <1>1, <1>3, <1>9, <1>10, <1>12, <1>13, <1>14, IdleFits DEF DispatchInv, Sound

(* The tick begins. *)
LEMMA ServiceKeeps ==
    ASSUME DispatchInv, Service
    PROVE  DispatchInv'
<1> DEFINE d == Forget(osc, Range(events))
           v == [n \in Nodes |-> IF n \in Range(events) THEN None ELSE osc.nodeDefs[n]]
           D == Excused'
<1>1. /\ osc.asked \in Seq(Request) /\ osc.target \in Peer /\ osc.window \in {0, 1}
      /\ osc \in Working(osc.asked, osc.target, osc.window, {}, Excused)
      /\ Engine(Now)
  BY DispatchTypes DEF DispatchInv
<1>2. /\ slot' = slot /\ held' = held /\ alive' = alive /\ copying' = copying /\ gone' = gone
      /\ events' = <<>>
  BY DEF Service, engine
<1>3. Engine(Now')
  <2>1. <<>> \in Seq(Things)
    OBVIOUS
  <2> QED
    BY <1>1, <1>2, <2>1 DEF Now, Engine
<1>4. v \in [Nodes -> Defs \cup {None}] /\ Tracks(osc.nodeDefs, osc.ring, Excused)
  BY <1>1, Fields
<1>5. Tracks(v, osc.ring, D)
  <2> SUFFICES ASSUME NEW n \in Nodes, v[n] # None
               PROVE  <<n, v[n]>> \in D \/ Sent(osc.ring, n, v[n])
    BY DEF Tracks
  <2>1. n \notin Range(events) /\ v[n] = osc.nodeDefs[n]
    OBVIOUS
  <2>2. <<n, v[n]>> \in Excused \/ Sent(osc.ring, n, v[n])
    BY <1>4, <2>1 DEF Tracks
  <2> HIDE DEF v
  <2>3. <<n, v[n]>> \in Excused => <<n, v[n]>> \in D
    BY <1>2, <2>1 DEF Excused, Named, Now
  <2> QED
    BY <2>2, <2>3
<1> HIDE DEF D
<1>6. d \in Working(osc.asked, osc.target, osc.window, {}, D)
  <2>1. d = [osc EXCEPT !.nodeDefs = v]
    BY Zenon DEF Forget
  <2> HIDE DEF v
  <2> QED
    BY <1>1, <1>4, <1>5, <2>1, NameUpdates
<1>7. Enter(d, 1) /\ got' = got /\ session' = session
  BY DEF Service
<1> HIDE DEF d, v
<1>8. /\ osc' \in Working(osc.asked, osc.target, osc.window, {}, D) /\ stage' \in StageSet
      /\ BatchFits(stage', batch', osc')
  BY <1>6, <1>7, Entered
<1>9. osc' \in Since(osc.asked, osc.window, {}, D)
  BY <1>1, <1>8, StaysSince, SinceHas DEF DispatchInv
<1>10. Sound(osc', got, stage', batch', D)
  BY <1>8, <1>9, SoundAfter DEF DispatchInv
<1> QED
  BY <1>3, <1>7, <1>10 DEF DispatchInv, D

-----------------------------------------------------------------------------
(* The audio thread.                                                       *)

(* An event more. *)
LEMMA RangeAppend ==
    ASSUME NEW S, NEW s \in Seq(S), NEW x \in S
    PROVE  Range(Append(s, x)) = Range(s) \cup {x}
<1>1. /\ DOMAIN Append(s, x) = 1 .. (Len(s) + 1) /\ DOMAIN s = 1 .. Len(s) /\ Len(s) \in Nat
      /\ \A i \in DOMAIN s : Append(s, x)[i] = s[i]
      /\ Append(s, x)[Len(s) + 1] = x
  OBVIOUS
<1>2. \A i \in 1 .. (Len(s) + 1) : i \in DOMAIN s \/ i = Len(s) + 1
  BY <1>1
<1> QED
  BY <1>1, <1>2 DEF Range

(* What is excused with the same synths and commands, and no event less. *)
LEMMA NamedKept ==
    ASSUME NEW d, NEW e, d.alive = e.alive, d.held = e.held, Range(d.events) \subseteq Range(e.events)
    PROVE  Named(d) \subseteq Named(e)
  BY DEF Named

(* A command's step leaves the engine one, hides no definition, and the one *)
(* it brings is that of a living synth or reported.                         *)
Landed(e, f, c) ==
    /\ Engine(f) /\ Named(e) \subseteq Named(f)
    /\ c.op = "add" /\ c.on \in Nodes /\ c.tag \in Defs \ {None} => <<c.on, c.tag>> \in Named(f)

(* A command is carried out. *)
LEMMA ApplyLands ==
    ASSUME NEW e, Engine(e), NEW c \in Commands
    PROVE  Landed(e, Apply(e, c), c)
<1>1. /\ DOMAIN e = {"slot", "held", "alive", "copying", "gone", "events"}
      /\ e.held \in Seq(Commands) /\ e.alive \in [Nodes -> Tags] /\ e.events \in Seq(Things)
  BY DEF Engine
<1>2. c.on \in Things /\ c.tag \in Tags
  BY DEF Commands
<1>3. /\ Append(e.events, c.on) \in Seq(Things)
      /\ Range(Append(e.events, c.on)) = Range(e.events) \cup {c.on}
  BY <1>1, <1>2, RangeAppend
<1>4. CASE c.op = "add"
  <2>1. CASE e.alive[c.on] = None
    <3> DEFINE v == [e.alive EXCEPT ![c.on] = c.tag]
               f == [e EXCEPT !.alive = v]
    <3>1. Apply(e, c) = f
      BY <1>4, <2>1 DEF Apply
    <3>2. v \in [Nodes -> Tags] /\ \A n \in Nodes : v[n] = IF n = c.on THEN c.tag ELSE e.alive[n]
      BY <1>1, <1>2
    <3> HIDE DEF v
    <3>3. DOMAIN f = DOMAIN e /\ f.held = e.held /\ f.events = e.events /\ f.alive = v
      BY <1>1
    <3> HIDE DEF f
    <3>4. Engine(f)
      BY <1>1, <3>2, <3>3 DEF Engine
    <3>5. Named(e) \subseteq Named(f)
      BY <2>1, <3>2, <3>3 DEF Named
    <3>6. c.on \in Nodes /\ c.tag \in Defs \ {None} => <<c.on, c.tag>> \in Named(f)
      BY <3>2, <3>3 DEF Named
    <3> QED
      BY <3>1, <3>4, <3>5, <3>6 DEF Landed
  <2>2. CASE e.alive[c.on] # None
    <3> DEFINE v == Append(e.events, c.on)
               f == [e EXCEPT !.events = v]
    <3>1. Apply(e, c) = f
      BY <1>4, <2>2 DEF Apply
    <3>2. v \in Seq(Things) /\ Range(v) = Range(e.events) \cup {c.on}
      BY <1>3
    <3> HIDE DEF v
    <3>3. DOMAIN f = DOMAIN e /\ f.held = e.held /\ f.events = v /\ f.alive = e.alive
      BY <1>1
    <3> HIDE DEF f
    <3>4. Engine(f)
      BY <1>1, <3>2, <3>3 DEF Engine
    <3>5. Named(e) \subseteq Named(f)
      BY <3>2, <3>3 DEF Named
    <3>6. c.on \in Nodes /\ c.tag \in Defs \ {None} => <<c.on, c.tag>> \in Named(f)
      BY <3>2, <3>3 DEF Named
    <3> QED
      BY <3>1, <3>4, <3>5, <3>6 DEF Landed
  <2> QED
    BY <2>1, <2>2
<1>5. CASE c.op = "end" /\ e.alive[c.on] # None
  <2> DEFINE v == [e.alive EXCEPT ![c.on] = None]
             u == Append(e.events, c.on)
             f == [e EXCEPT !.alive = v, !.events = u]
  <2>1. Apply(e, c) = f
    BY <1>1, <1>5 DEF Apply
  <2>2. /\ v \in [Nodes -> Tags] /\ \A n \in Nodes : v[n] = IF n = c.on THEN None ELSE e.alive[n]
        /\ u \in Seq(Things) /\ Range(u) = Range(e.events) \cup {c.on}
    BY <1>1, <1>3 DEF Tags
  <2> HIDE DEF v, u
  <2>3. DOMAIN f = DOMAIN e /\ f.held = e.held /\ f.events = u /\ f.alive = v
    BY <1>1
  <2> HIDE DEF f
  <2>4. Engine(f)
    BY <1>1, <2>2, <2>3 DEF Engine
  <2>5. Named(e) \subseteq Named(f)
    BY <2>2, <2>3 DEF Named
  <2> QED
    BY <1>5, <2>1, <2>4, <2>5 DEF Landed
<1>6. CASE c.op # "add" /\ ~(c.op = "end" /\ e.alive[c.on] # None)
  <2> DEFINE f == Apply(e, c)
  <2>1. DOMAIN f = DOMAIN e /\ f.held = e.held /\ f.events = e.events /\ f.alive = e.alive
    BY <1>1, <1>6 DEF Apply, Fill
  <2> HIDE DEF f
  <2>2. Engine(f)
    BY <1>1, <2>1 DEF Engine
  <2>3. Named(e) \subseteq Named(f)
    BY <2>1, NamedKept
  <2> QED
    BY <1>6, <2>2, <2>3 DEF Landed, f
<1> QED
  BY <1>4, <1>5, <1>6

(* A command that is due later is held. *)
LEMMA ReceiveLands ==
    ASSUME NEW e, Engine(e), NEW c \in Commands
    PROVE  Landed(e, Receive(e, c), c)
<1> DEFINE v == Append(e.held, c)
           f == [e EXCEPT !.held = v]
<1>1. /\ DOMAIN e = {"slot", "held", "alive", "copying", "gone", "events"}
      /\ e.held \in Seq(Commands) /\ e.alive \in [Nodes -> Tags] /\ e.events \in Seq(Things)
  BY DEF Engine
<1>2. v \in Seq(Commands)
  BY <1>1
<1>3. \A n, x : /\ Sent(e.held, n, x) => Sent(v, n, x)
                /\ c.op = "add" /\ c.on = n /\ c.tag = x => Sent(v, n, x)
  BY <1>1, SentStays
<1> HIDE DEF v
<1>4. DOMAIN f = DOMAIN e /\ f.held = v /\ f.events = e.events /\ f.alive = e.alive
  BY <1>1
<1>5. Receive(e, c) = IF c.time = 0 THEN Apply(e, c) ELSE f
  BY DEF Receive, v
<1> HIDE DEF f
<1>6. Engine(f)
  BY <1>1, <1>2, <1>4 DEF Engine
<1>7. Named(e) \subseteq Named(f)
  BY <1>3, <1>4 DEF Named
<1>8. c.op = "add" /\ c.on \in Nodes /\ c.tag \in Defs \ {None} => <<c.on, c.tag>> \in Named(f)
  BY <1>3, <1>4 DEF Named
<1> QED
  BY <1>5, <1>6, <1>7, <1>8, ApplyLands DEF Landed

(* The ring is gone through command by command, by its first indices. *)
Taking(g, r, n, base) ==
    g = [s \in SUBSET (1 .. n) |-> IF s = {} THEN base ELSE Receive(g[s \ {Max(s)}], r[Max(s)])]

(* A fold over the ring has values. *)
LEMMA RingFold ==
    ASSUME NEW r, NEW n \in Nat, DOMAIN r = 1 .. n, NEW base
    PROVE  \E g : Taking(g, r, n, base)
<1> DEFINE S == 1 .. n
           Below(k) == {s \in SUBSET S : Cardinality(s) <= k}
           Folds(g, k) == \A s \in Below(k) :
              g[s] = IF s = {} THEN base ELSE Receive(g[s \ {Max(s)}], r[Max(s)])
           T == {k \in Nat : \E g : Folds(g, k)}
<1>1. IsFiniteSet(S)
  BY FS_Interval
<1>2. \A s \in SUBSET S : IsFiniteSet(s) /\ Cardinality(s) \in Nat
  BY <1>1, FS_Subset, FS_CardinalityType
<1>3. \A s \in SUBSET S : Cardinality(s) = 0 => s = {}
  BY <1>2, FS_EmptySet
<1>4. \A s \in SUBSET S : s # {} =>
         s \ {Max(s)} \in SUBSET S /\ Cardinality(s \ {Max(s)}) = Cardinality(s) - 1
  BY <1>2, MaxIsOne, FS_RemoveElement
<1>5. 0 \in T
  <2> DEFINE g == [s \in Below(0) |-> base]
  <2>1. \A s \in Below(0) : s = {}
    BY <1>2, <1>3
  <2>2. Folds(g, 0)
    BY <2>1
  <2> HIDE DEF g
  <2> QED
    BY <2>2
<1>6. ASSUME NEW k \in Nat, k \in T PROVE k + 1 \in T
  <2>1. PICK g : Folds(g, k)
    BY <1>6
  <2> DEFINE h == [s \in Below(k + 1) |-> IF s = {} THEN base ELSE Receive(g[s \ {Max(s)}], r[Max(s)])]
  <2>2. \A s \in Below(k + 1) : s # {} => s \ {Max(s)} \in Below(k)
    BY <1>2, <1>4, SMTT(30)
  <2>3. \A s \in Below(k) : s \in Below(k + 1)
    BY <1>2
  <2>4. \A s \in Below(k) : h[s] = g[s]
    <3> SUFFICES ASSUME NEW s \in Below(k) PROVE h[s] = g[s]
      OBVIOUS
    <3>1. h[s] = IF s = {} THEN base ELSE Receive(g[s \ {Max(s)}], r[Max(s)])
      BY <2>3, Zenon
    <3>2. g[s] = IF s = {} THEN base ELSE Receive(g[s \ {Max(s)}], r[Max(s)])
      BY <2>1, Zenon
    <3> QED
      BY <3>1, <3>2, Zenon
  <2>5. Folds(h, k + 1)
    <3> SUFFICES ASSUME NEW s \in Below(k + 1)
                 PROVE  h[s] = IF s = {} THEN base ELSE Receive(h[s \ {Max(s)}], r[Max(s)])
      BY Zenon
    <3>1. s # {} => h[s \ {Max(s)}] = g[s \ {Max(s)}]
      BY <2>2, <2>4, Zenon
    <3>2. h[s] = IF s = {} THEN base ELSE Receive(g[s \ {Max(s)}], r[Max(s)])
      BY Zenon
    <3> HIDE DEF h
    <3> QED
      BY <3>1, <3>2, Zenon
  <2> HIDE DEF h, Folds
  <2> QED
    BY <2>5
<1>7. Cardinality(S) \in T
  <2>1. Nat \subseteq T
    <3> HIDE DEF T
    <3> QED
      BY <1>5, <1>6, Induct
  <2> QED
    BY <1>2, <2>1
<1>8. \A s \in SUBSET S : s \in Below(Cardinality(S)) /\ s \ {Max(s)} \in SUBSET S
  <2>1. \A s \in SUBSET S : Cardinality(s) <= Cardinality(S)
    BY <1>1, FS_Subset
  <2> QED
    BY <2>1
<1>9. PICK g : Folds(g, Cardinality(S))
  BY <1>7
<1> DEFINE h == [s \in SUBSET S |-> g[s]]
<1>10. h = [s \in SUBSET S |-> IF s = {} THEN base ELSE Receive(h[s \ {Max(s)}], r[Max(s)])]
  <2>1. \A s \in SUBSET S : h[s] = IF s = {} THEN base ELSE Receive(h[s \ {Max(s)}], r[Max(s)])
    <3> SUFFICES ASSUME NEW s \in SUBSET S
                 PROVE  h[s] = IF s = {} THEN base ELSE Receive(h[s \ {Max(s)}], r[Max(s)])
      OBVIOUS
    <3>1. h[s] = g[s] /\ h[s \ {Max(s)}] = g[s \ {Max(s)}]
      BY <1>8, Zenon
    <3>2. g[s] = IF s = {} THEN base ELSE Receive(g[s \ {Max(s)}], r[Max(s)])
      BY <1>8, <1>9, Zenon
    <3> QED
      BY <3>1, <3>2, Zenon
  <2>2. h = [s \in SUBSET S |-> h[s]]
    BY Zenon
  <2> HIDE DEF h
  <2> QED
    BY <2>1, <2>2, Zenon
<1> HIDE DEF h
<1> QED
  BY <1>10, Zenon DEF Taking

(* What is tracked is excused once the ring has been gone through. *)
LEMMA RingLands ==
    ASSUME NEW r \in Seq(Commands), NEW base, Engine(base), NEW nodeDefs \in [Nodes -> Defs \cup {None}],
           Tracks(nodeDefs, r, Named(base))
    PROVE  Engine(FoldLeft(Receive, base, r)) /\ Tracks(nodeDefs, <<>>, Named(FoldLeft(Receive, base, r)))
<1> DEFINE n == Len(r)
           S == 1 .. n
           body(g) == [s \in SUBSET S |->
              IF s = {} THEN base ELSE Receive(g[s \ {Max(s)}], r[Max(s)])]
           iter == CHOOSE g : g = body(g)
           Left(s, x, def) == \E i \in S \ s : r[i].op = "add" /\ r[i].on = x /\ r[i].tag = def
           Good(s) == /\ Engine(iter[s])
                      /\ \A x \in Nodes : nodeDefs[x] = None \/ <<x, nodeDefs[x]>> \in Named(iter[s])
                                         \/ Left(s, x, nodeDefs[x])
           good == [s \in SUBSET S |-> Good(s)]
           pick == [s \in SUBSET S |-> Max(s)]
<1>1. n \in Nat /\ DOMAIN r = S /\ IsFiniteSet(S) /\ \A i \in S : r[i] \in Commands
  <2>1. n \in Nat /\ DOMAIN r = S /\ \A i \in S : r[i] \in Commands
    OBVIOUS
  <2>2. IsFiniteSet(1 .. n)
    BY <2>1, FS_Interval
  <2> QED
    BY <2>1, <2>2, Zenon
<1>2. iter = body(iter)
  <2>1. \E g : g = body(g)
    <3>1. n \in Nat /\ DOMAIN r = 1 .. n
      BY <1>1
    <3> HIDE DEF n
    <3>2. \E g : Taking(g, r, n, base)
      BY <3>1, RingFold, Zenon
    <3> QED
      BY <3>2, Zenon DEF Taking
  <2> HIDE DEF body
  <2> QED
    BY <2>1
<1>3. FoldLeft(Receive, base, r) = iter[S]
  BY <1>1 DEF FoldLeft, MapThenFoldSet
<1> HIDE DEF iter
<1>4. \A s \in SUBSET S : s # {} => pick[s] \in s /\ pick[s] = Max(s)
  BY <1>1, MaxIsOne
<1>5. iter[{}] = base /\ \A s \in SUBSET S : s # {} => iter[s] = Receive(iter[s \ {Max(s)}], r[Max(s)])
  BY <1>2
<1>6. Good({})
  BY <1>1, <1>5 DEF Tracks, Sent
<1>7. ASSUME NEW s \in SUBSET S, s # {}, Good(s \ {Max(s)}) PROVE Good(s)
  <2> DEFINE m == Max(s)
             e == iter[s \ {m}]
             f == iter[s]
             c == r[m]
  <2>1. m \in s /\ m \in S
    BY <1>4, <1>7
  <2>2. c \in Commands /\ f = Receive(e, c) /\ Engine(e)
    BY <1>1, <1>5, <1>7, <2>1
  <2>3. /\ Engine(f) /\ Named(e) \subseteq Named(f)
        /\ c.op = "add" /\ c.on \in Nodes /\ c.tag \in Defs \ {None} => <<c.on, c.tag>> \in Named(f)
    <3> HIDE DEF e, f, c
    <3> QED
      BY <2>2, ReceiveLands DEF Landed
  <2> SUFFICES ASSUME NEW x \in Nodes, nodeDefs[x] # None
               PROVE  <<x, nodeDefs[x]>> \in Named(f) \/ Left(s, x, nodeDefs[x])
    BY <2>3
  <2>4. <<x, nodeDefs[x]>> \in Named(e) \/ Left(s \ {m}, x, nodeDefs[x])
    BY <1>7
  <2>5. nodeDefs[x] \in Defs \ {None}
    OBVIOUS
  <2>6. CASE Left(s \ {m}, x, nodeDefs[x])
    <3>1. PICK i \in S \ (s \ {m}) : r[i].op = "add" /\ r[i].on = x /\ r[i].tag = nodeDefs[x]
      BY <2>6
    <3>2. CASE i = m
      <4>1. c.op = "add" /\ c.on = x /\ c.tag = nodeDefs[x]
        BY <3>1, <3>2
      <4> QED
        BY <2>3, <2>5, <4>1
    <3>3. CASE i # m
      BY <3>1, <3>3
    <3> QED
      BY <3>2, <3>3
  <2> QED
    BY <2>3, <2>4, <2>6
<1>8. good[S] \in {TRUE}
  <2>1. Stays(good, S, {TRUE}, pick)
    <3>1. good[{}] \in {TRUE}
      BY <1>6
    <3>2. ASSUME NEW s \in SUBSET S, s # {}, good[s \ {pick[s]}] \in {TRUE} PROVE good[s] \in {TRUE}
      <4>1. Good(s \ {Max(s)})
        <5>1. s \ {Max(s)} \in SUBSET S /\ good[s \ {Max(s)}]
          BY <1>4, <3>2
        <5> HIDE DEF Good
        <5> QED
          BY <5>1
      <4>2. Good(s)
        BY <1>7, <3>2, <4>1
      <4> HIDE DEF Good
      <4> QED
        BY <4>2
    <3> HIDE DEF good
    <3> QED
      BY <1>1, <1>4, <3>1, <3>2 DEF Stays
  <2> HIDE DEF good
  <2> QED
    BY <2>1, FoldStays, Zenon
<1>9. Good(S)
  <2> HIDE DEF Good
  <2> QED
    BY <1>8
<1> QED
  BY <1>3, <1>9 DEF Tracks

(* An engine's parts are what its variables hold. *)
LEMMA NowBecomes ==
    ASSUME NEW e, Engine(e), Becomes(e)
    PROVE  Engine(Now') /\ Excused' = Named(e)
<1>1. Now'.alive = e.alive /\ Now'.held = e.held /\ Now'.events = e.events
  BY DEF Becomes, Now
<1>2. DOMAIN (Now') = {"slot", "held", "alive", "copying", "gone", "events"}
  BY DEF Now
<1>3. Engine(Now')
  BY <1>1, <1>2 DEF Engine
<1>4. Named(Now') = Named(e)
  BY <1>1 DEF Named
<1> QED
  BY <1>3, <1>4 DEF Excused

(* The audio thread takes the ring. *)
LEMMA BlockKeeps ==
    ASSUME DispatchInv, Block
    PROVE  DispatchInv'
<1> DEFINE e == FoldLeft(Receive, Now, osc.ring)
           D == Excused'
<1>1. /\ osc.asked \in Seq(Request) /\ osc.target \in Peer /\ osc.window \in {0, 1}
      /\ osc \in Working(osc.asked, osc.target, osc.window, {}, Excused)
      /\ Engine(Now)
  BY DispatchTypes DEF DispatchInv
<1>2. osc' = [osc EXCEPT !.ring = <<>>] /\ UNCHANGED <<got, session, stage, batch>> /\ Becomes(e)
  BY DEF Block
<1>3. Engine(e) /\ Tracks(osc.nodeDefs, <<>>, Named(e))
  <2>1. /\ osc.ring \in Seq(Commands) /\ osc.nodeDefs \in [Nodes -> Defs \cup {None}]
        /\ Tracks(osc.nodeDefs, osc.ring, Named(Now))
    BY <1>1, Fields DEF Excused
  <2> QED
    BY <1>1, <2>1, RingLands
<1> HIDE DEF e
<1>4. Engine(Now') /\ D = Named(e)
  BY <1>2, <1>3, NowBecomes
<1> HIDE DEF D
<1>5. osc' \in Working(osc.asked, osc.target, osc.window, {}, D) /\ osc'.writes = osc.writes
  <2>1. <<>> \in Seq(Commands)
    OBVIOUS
  <2>2. [osc EXCEPT !.ring = <<>>].writes = osc.writes
    BY <1>1 DEF Working
  <2> QED
    BY <1>1, <1>2, <1>3, <1>4, <2>1, <2>2, NameUpdates
<1>6. osc' \in Since(osc.asked, osc.window, {}, D) /\ osc'.asked = osc.asked
  BY <1>1, <1>5, StaysSince, SinceHas, Fields DEF DispatchInv
<1>7. BatchFits(stage, batch, osc')
  BY <1>5, <1>6 DEF DispatchInv, Sound, BatchFits
<1>8. stage \in StageSet \cup {"idle"}
  BY DEF DispatchInv, Sound
<1>9. Sound(osc', got, stage, batch, D)
  BY <1>6, <1>7, <1>8, SoundAfter DEF DispatchInv
<1> QED
  BY <1>2, <1>4, <1>9 DEF DispatchInv, D

(* The audio thread's other steps leave the dispatcher alone. *)
LEMMA ElsewhereKeeps ==
    ASSUME DispatchInv, UNCHANGED <<osc, got, session, stage, batch>>,
           Engine(Now'), Excused \subseteq Excused'
    PROVE  DispatchInv'
<1>1. Sound(osc, got, stage, batch, Excused) /\ session \in Sessions
  BY DEF DispatchInv
<1>2. osc \in Working(osc.asked, osc.target, osc.window, {}, Excused')
  BY <1>1, WorkingExcused DEF Sound
<1>3. Sound(osc, got, stage, batch, Excused')
  BY <1>1, <1>2 DEF Sound
<1> QED
  BY <1>1, <1>3 DEF DispatchInv

(* A command comes due. *)
LEMMA DueKeeps ==
    ASSUME DispatchInv, Due
    PROVE  DispatchInv'
<1> DEFINE c == Head(held)
           v == Tail(held)
           e == [Now EXCEPT !.held = v]
           f == Apply(e, c)
<1>1. Engine(Now) /\ held # <<>> /\ Becomes(f) /\ UNCHANGED <<osc, got, session, stage, batch>>
  BY DEF Due, DispatchInv
<1>2. Now.held = held /\ Now.alive = alive /\ Now.events = events
  BY DEF Now
<1>3. held \in Seq(Commands)
  BY <1>1, <1>2 DEF Engine
<1>4. /\ c \in Commands /\ v \in Seq(Commands) /\ held[1] = c /\ DOMAIN held = 1 .. Len(held) /\ Len(held) \in Nat
      /\ DOMAIN v = 1 .. (Len(held) - 1) /\ \A i \in DOMAIN v : v[i] = held[i + 1]
  BY <1>1, <1>3
<1>5. \A n, x : Sent(held, n, x) => Sent(v, n, x) \/ (c.op = "add" /\ c.on = n /\ c.tag = x)
  <2> SUFFICES ASSUME NEW n, NEW x, Sent(held, n, x)
               PROVE  Sent(v, n, x) \/ (c.op = "add" /\ c.on = n /\ c.tag = x)
    OBVIOUS
  <2> HIDE DEF c, v
  <2>1. PICK i \in DOMAIN held : held[i].op = "add" /\ held[i].on = n /\ held[i].tag = x
    BY DEF Sent
  <2>2. CASE i = 1
    BY <1>4, <2>1, <2>2
  <2>3. CASE i # 1
    <3>1. i - 1 \in DOMAIN v /\ v[i - 1] = held[i]
      BY <1>4, <2>1, <2>3
    <3> QED
      BY <2>1, <3>1 DEF Sent
  <2> QED
    BY <2>2, <2>3
<1> HIDE DEF c, v
<1>6. DOMAIN e = DOMAIN Now /\ e.held = v /\ e.alive = alive /\ e.events = events
  BY <1>1, <1>2 DEF Engine
<1> HIDE DEF e
<1>7. Engine(e)
  BY <1>1, <1>2, <1>4, <1>6 DEF Engine
<1>8. Landed(e, f, c)
  BY <1>4, <1>7, ApplyLands
<1> HIDE DEF f
<1>9. Engine(Now') /\ Excused' = Named(f)
  BY <1>1, <1>8, NowBecomes DEF Landed
<1>10. Excused \subseteq Named(f)
  <2> SUFFICES ASSUME NEW n \in Nodes, NEW x \in Defs \ {None}, <<n, x>> \in Excused
               PROVE  <<n, x>> \in Named(f)
    BY DEF Excused, Named
  <2>1. n \in Range(events) \/ alive[n] = x \/ Sent(held, n, x)
    BY <1>2 DEF Excused, Named
  <2>2. n \in Range(events) \/ alive[n] = x \/ Sent(v, n, x) => <<n, x>> \in Named(e)
    BY <1>6 DEF Named
  <2> QED
    BY <1>5, <1>8, <2>1, <2>2 DEF Landed
<1> QED
  BY <1>1, <1>9, <1>10, ElsewhereKeeps

(* A copy ends. *)
LEMMA CopyEndsKeeps ==
    ASSUME DispatchInv, NEW id, CopyEnds(id)
    PROVE  DispatchInv'
<1>1. Engine(Now) /\ UNCHANGED <<osc, got, session, stage, batch, held, alive, events>>
  BY DEF CopyEnds, DispatchInv
<1>2. /\ Now'.held = Now.held /\ Now'.alive = Now.alive /\ Now'.events = Now.events
      /\ DOMAIN (Now') = DOMAIN Now
  BY <1>1 DEF Now
<1>3. Engine(Now')
  BY <1>1, <1>2 DEF Engine
<1>4. Named(Now') = Named(Now)
  BY <1>2 DEF Named
<1> QED
  BY <1>1, <1>3, <1>4, ElsewhereKeeps DEF Excused

(* A synth ends, and says so. *)
LEMMA SynthEndsKeeps ==
    ASSUME DispatchInv, NEW n \in Nodes, SynthEnds(n)
    PROVE  DispatchInv'
<1> DEFINE v == [alive EXCEPT ![n] = None]
           u == Append(events, n)
           e == [Now EXCEPT !.alive[n] = None, !.events = Append(@, n)]
<1>1. Engine(Now) /\ Becomes(e) /\ UNCHANGED <<osc, got, session, stage, batch>>
  BY DEF SynthEnds, DispatchInv
<1>2. Now.held = held /\ Now.alive = alive /\ Now.events = events
  BY DEF Now
<1>3. alive \in [Nodes -> Tags] /\ events \in Seq(Things) /\ n \in Things
  BY <1>1, <1>2 DEF Engine, Things
<1>4. /\ v \in [Nodes -> Tags] /\ \A m \in Nodes : v[m] = IF m = n THEN None ELSE alive[m]
      /\ u \in Seq(Things) /\ Range(u) = Range(events) \cup {n}
  BY <1>3, RangeAppend DEF Tags
<1>5. DOMAIN e = DOMAIN Now /\ e.held = held /\ e.alive = v /\ e.events = u
  BY <1>1, <1>2 DEF Engine
<1> HIDE DEF e, v, u
<1>6. Engine(e)
  BY <1>1, <1>2, <1>4, <1>5 DEF Engine
<1>7. Engine(Now') /\ Excused' = Named(e)
  BY <1>1, <1>6, NowBecomes
<1>8. Excused \subseteq Named(e)
  BY <1>2, <1>4, <1>5 DEF Excused, Named
<1> QED
  BY <1>1, <1>7, <1>8, ElsewhereKeeps

-----------------------------------------------------------------------------
(* The dispatcher.                                                         *)

(* A load. *)
LEMMA LoadKeeps ==
    ASSUME DispatchInv, NEW readable \in BOOLEAN, Load(readable)
    PROVE  DispatchInv'
<1> DEFINE q == osc.asked
           w == osc.window
           job == Head(batch)
           d == For(job)
           new == Push(d, "set", job.on, 0, TRUE)
           region == Push(d, "region", job.on, 0, TRUE)
           full == [new EXCEPT !.mirror = @ \cup {job.on}]
           loaded == CASE ~readable -> Fail(d, job)
                       [] job.op = "b_allocRead" -> IF new.ok THEN Finish(full, job) ELSE d
                       [] OTHER -> IF Known(d, job) /\ region.ok THEN Finish(region, job)
                                   ELSE Fail(d, job)
<1>1. Serving("loads") /\ After(loaded, Tail(batch))
  BY Zenon DEF Load
<1>2. /\ q \in Seq(Request) /\ w \in {0, 1} /\ osc \in Working(q, osc.target, w, {}, Excused)
      /\ job \in Jobs(q)
  BY <1>1, DispatchTypes DEF Serving, JobStages
<1>3. job.target \in Peer /\ job.on \in Things
  BY <1>2, JobIs
<1>4. d \in Working(q, job.target, w, {}, Excused)
  BY <1>2, Updates DEF For
<1> HIDE DEF d, job, q, w
<1>5. new \in Working(q, job.target, w, {}, Excused) /\ region \in Working(q, job.target, w, {}, Excused)
  BY <1>2, <1>3, <1>4, PushKeeps DEF CommandOps, Tags
<1> HIDE DEF new, region
<1>6. full \in Working(q, job.target, w, {}, Excused)
  <2>1. new.mirror \cup {job.on} \in SUBSET Things
    BY <1>3, <1>5, Fields
  <2> QED
    BY <1>5, <2>1, Updates
<1> HIDE DEF full
<1>7. Fail(d, job) \in Working(q, job.target, w, {}, Excused)
  BY <1>2, <1>4, FailKeeps
<1>8. Longer(q, q)
  BY <1>2 DEF Longer
<1>9. \A e \in Working(q, job.target, w, {}, Excused) : e \in Since(q, w, {}, Excused) /\ Finish(e, job) \in Since(q, w, {}, Excused)
  BY <1>2, <1>3, <1>8, FinishKeeps, SinceHas
<1>10. loaded \in {Fail(d, job), Finish(full, job), d, Finish(region, job)}
  OBVIOUS
<1> HIDE DEF loaded
<1>11. loaded \in Since(q, w, {}, Excused)
  BY <1>4, <1>5, <1>6, <1>7, <1>9, <1>10
<1> QED
  BY <1>1, <1>11, Served DEF q, w, JobStages

(* A definition is read, or a host's command run. *)
LEMMA LoadDefKeeps ==
    ASSUME DispatchInv, NEW ok \in BOOLEAN, LoadDef(ok) \/ HostCommand(ok)
    PROVE  DispatchInv'
<1> DEFINE q == osc.asked
           w == osc.window
           job == Head(batch)
           d == For(job)
           read == IF ok THEN Finish(d, job) ELSE Fail(d, job)
           ran == IF ok THEN Say(d, job.rid, "done") ELSE Fail(d, job)
<1>1. PICK s \in {"defs", "cmds"}, e \in {read, ran} : Serving(s) /\ After(e, Tail(batch))
  BY Zenon DEF LoadDef, HostCommand
<1>2. /\ q \in Seq(Request) /\ w \in {0, 1} /\ osc \in Working(q, osc.target, w, {}, Excused)
      /\ job \in Jobs(q)
  BY <1>1, DispatchTypes DEF Serving, JobStages
<1>3. job.target \in Peer /\ job.rid \in Nat /\ Own(q, job.rid, job.target)
  BY <1>2, JobIs
<1>4. d \in Working(q, job.target, w, {}, Excused)
  BY <1>2, Updates DEF For
<1> HIDE DEF d, job, q, w
<1>5. Longer(q, q)
  BY <1>2 DEF Longer
<1>6. Finish(d, job) \in Since(q, w, {}, Excused)
  BY <1>2, <1>3, <1>4, FinishKeeps, SinceHas
<1>7. Fail(d, job) \in Since(q, w, {}, Excused) /\ Say(d, job.rid, "done") \in Since(q, w, {}, Excused)
  <2>1. Fail(d, job) \in Working(q, job.target, w, {}, Excused)
    BY <1>2, <1>4, FailKeeps
  <2>2. Say(d, job.rid, "done") \in Working(q, job.target, w, {}, Excused)
    BY <1>3, <1>4, SayKeeps
  <2> QED
    BY <1>2, <1>3, <1>5, <2>1, <2>2, SinceHas
<1>8. e \in Since(q, w, {}, Excused)
  BY <1>6, <1>7
<1> QED
  BY <1>1, <1>8, Served DEF q, w, JobStages

(* An input stream is opened. *)
LEMMA InOpened ==
    ASSUME NEW q, NEW t, NEW w, NEW C, NEW E, NEW d \in Working(q, t, w, C, E), NEW b, NEW x \in Ins(q) \cup {None}
    PROVE  [d EXCEPT !.openReads[b] = x] \in Working(q, t, w, C, E)
<1> DEFINE v == [d.openReads EXCEPT ![b] = x]
<1>1. v \in [Bufs -> Ins(q) \cup {None}]
  BY Fields
<1>2. [d EXCEPT !.openReads[b] = x] = [d EXCEPT !.openReads = v]
  OBVIOUS
<1> HIDE DEF v
<1> QED
  BY <1>1, <1>2, Updates

(* A stream in is opened, cued and primed. *)
LEMMA OpenReadKeeps ==
    ASSUME DispatchInv, NEW readable \in BOOLEAN, NEW primed \in BOOLEAN, OpenRead(readable, primed)
    PROVE  DispatchInv'
<1> DEFINE q == osc.asked
           w == osc.window
           job == Head(batch)
           d == For(job)
           cued == Push(d, "cue", job.on, job.rid, TRUE)
           f == Finish(cued, job)
           x == [rid |-> job.rid, target |-> job.target]
           back == Push(Fail(cued, job), "free", job.on, 0, TRUE)
           open == [f EXCEPT !.openReads[job.on] = x]
           opened == CASE ~Known(d, job) \/ ~readable \/ ~cued.ok -> Fail(d, job)
                       [] ~primed -> back
                       [] OTHER -> open
<1>1. Serving("reads") /\ After(opened, Tail(batch))
  BY Zenon DEF OpenRead
<1>2. /\ q \in Seq(Request) /\ w \in {0, 1} /\ osc \in Working(q, osc.target, w, {}, Excused)
      /\ job \in Jobs(q)
  BY <1>1, DispatchTypes DEF Serving, JobStages
<1>3. job.target \in Peer /\ job.on \in Things /\ job.rid \in Nat /\ Own(q, job.rid, job.target)
  BY <1>2, JobIs
<1>4. d \in Working(q, job.target, w, {}, Excused)
  BY <1>2, Updates DEF For
<1> HIDE DEF d, job, q, w
<1>5. cued \in Working(q, job.target, w, {}, Excused)
  BY <1>2, <1>3, <1>4, PushKeeps DEF CommandOps, Tags
<1> HIDE DEF cued
<1>6. Fail(d, job) \in Working(q, job.target, w, {}, Excused) /\ Fail(cued, job) \in Working(q, job.target, w, {}, Excused)
  BY <1>2, <1>4, <1>5, FailKeeps
<1>7. back \in Working(q, job.target, w, {}, Excused)
  BY <1>2, <1>3, <1>6, PushKeeps DEF CommandOps, Tags
<1>8. PICK r \in Seq(Request) : Longer(q, r) /\ f \in Working(r, job.target, w, {}, Excused)
  BY <1>2, <1>3, <1>5, FinishKeeps
<1> HIDE DEF f, back
<1>9. open \in Working(r, job.target, w, {}, Excused)
  <2>1. x \in Ins(r)
    BY <1>2, <1>3, <1>8, OwnStays DEF Ins
  <2> HIDE DEF x
  <2> QED
    BY <1>8, <2>1, InOpened
<1>10. Longer(q, q)
  BY <1>2 DEF Longer
<1>11. opened \in {Fail(d, job), back, open}
  OBVIOUS
<1> HIDE DEF opened, open
<1>12. opened \in Since(q, w, {}, Excused)
  <2>1. Fail(d, job) \in Since(q, w, {}, Excused) /\ back \in Since(q, w, {}, Excused)
    BY <1>2, <1>3, <1>6, <1>7, <1>10, SinceHas
  <2>2. open \in Since(q, w, {}, Excused)
    BY <1>2, <1>3, <1>8, <1>9, SinceHas
  <2> QED
    BY <1>11, <2>1, <2>2
<1> QED
  BY <1>1, <1>12, Served DEF q, w, JobStages

(* What is opened or closing is put down for its client. *)
LEMMA OutOpened ==
    ASSUME NEW E, NEW q, NEW t, NEW w, NEW d \in Working(q, t, w, {}, E), NEW b, NEW x \in Outs(q) \cup {None}
    PROVE  [d EXCEPT !.openWrites[b] = x] \in Working(q, t, w, {}, E)
<1> DEFINE v == [d.openWrites EXCEPT ![b] = x]
<1>1. d.openWrites \in [Bufs -> Outs(q) \cup {None}]
  BY Fields DEF OutTables
<1>2. v \in [Bufs -> Outs(q) \cup {None}]
  BY <1>1
<1>3. v \in OutTables(q, {})
  BY <1>2 DEF OutTables
<1>4. [d EXCEPT !.openWrites[b] = x] = [d EXCEPT !.openWrites = v]
  OBVIOUS
<1> HIDE DEF v
<1> QED
  BY <1>3, <1>4, Updates

(* A write that is done leaves the others. *)
LEMMA SwapRemoveKeeps ==
    ASSUME NEW S, NEW s \in Seq(S), NEW i \in DOMAIN s
    PROVE  SwapRemove(s, i) \in Seq(S)
<1>1. /\ Len(s) \in Nat \ {0} /\ i \in 1 .. Len(s)
      /\ Front(s) = [j \in 1 .. (Len(s) - 1) |-> s[j]] /\ Last(s) = s[Len(s)]
  BY DEF Front, Last
<1>2. Front(s) \in Seq(S) /\ Last(s) \in S
  <2> DEFINE n == Len(s) - 1
  <2>1. n \in Nat /\ \A j \in 1 .. n : s[j] \in S
    BY <1>1
  <2>2. [j \in 1 .. n |-> s[j]] \in [1 .. n -> S]
    BY <2>1
  <2>3. [j \in 1 .. n |-> s[j]] \in Seq(S)
    BY <2>1, <2>2, SeqDef
  <2> QED
    BY <1>1, <2>3
<1>3. i # Len(s) => [Front(s) EXCEPT ![i] = Last(s)] \in Seq(S)
  <2>1. i # Len(s) => i \in 1 .. Len(Front(s))
    BY <1>1
  <2> QED
    BY <1>2, <2>1, ExceptSeq
<1> QED
  BY <1>2, <1>3 DEF SwapRemove

(* A stage that goes on or moves on. *)
LEMMA Turned ==
    ASSUME DispatchInv, Serving("writes"), NEW e \in Since(osc.asked, osc.window, {}, Excused), NEW i \in Nat \ {0},
           After(e, At(e, i))
    PROVE  DispatchInv'
<1>1. stage = "writes" /\ got' = got /\ session' = session
  BY DEF Serving
<1>2. Sound(osc, got, stage, batch, Excused) /\ session \in Sessions /\ osc.asked \in Seq(Request)
  BY DEF DispatchInv, Sound
<1>3. /\ e.asked \in Seq(Request) /\ Longer(osc.asked, e.asked) /\ e.target \in Peer
      /\ e \in Working(e.asked, e.target, osc.window, {}, Excused)
  BY <1>2, SinceIs
<1>4. At(e, i) # <<>> => BatchFits("writes", At(e, i), e)
  <2>1. e.writes \in Seq(Writes(e.asked))
    BY <1>3, Fields
  <2>2. i <= Len(e.writes) => i \in DOMAIN e.writes
    BY <2>1
  <2>3. At(e, i) # <<>> => At(e, i) = <<i>> /\ i <= Len(e.writes)
    BY <2>1 DEF At
  <2> QED
    BY <2>2, <2>3 DEF BatchFits, JobStages
<1>5. stage \in StageSet \ {"pump"}
  BY <1>1 DEF StageSet, JobStages
<1>6. /\ osc' \in Working(e.asked, e.target, osc.window, {}, Excused) /\ stage' \in StageSet
      /\ BatchFits(stage', batch', osc')
  BY <1>1, <1>3, <1>4, <1>5, Moved
<1>7. osc' \in Since(osc.asked, osc.window, {}, Excused)
  BY <1>2, <1>3, <1>6, SinceHas
<1>8. Sound(osc', got, stage', batch', Excused)
  BY <1>2, <1>6, <1>7, SoundAfter
<1>11. Now' = Now /\ Excused' = Excused /\ Engine(Now)
  BY EngineStill DEF Serving, DispatchInv
<1> QED
  BY <1>1, <1>2, <1>8, <1>11 DEF DispatchInv

(* A turn of the loop over the writes. *)
LEMMA WriteKeeps ==
    ASSUME DispatchInv, NEW fails, Write(fails)
    PROVE  DispatchInv'
<1> DEFINE q == osc.asked
           w == osc.window
           i == Head(batch)
           job == osc.writes[i].job
           d == [For(job) EXCEPT !.writes[i].sink = TRUE]
           out == [d EXCEPT !.writes = SwapRemove(@, i)]
           failed == Fail(out, job)
           f == Finish(out, job)
           x == [rid |-> job.rid, target |-> job.target, closing |-> None]
           opened == [f EXCEPT !.openWrites[job.on] = x]
<1>1. PICK e \in {failed, opened, d, f}, k \in {i, i + 1} : Serving("writes") /\ After(e, At(e, k))
  BY Zenon DEF Write
<1>2. /\ q \in Seq(Request) /\ w \in {0, 1} /\ osc \in Working(q, osc.target, w, {}, Excused)
  BY DispatchTypes
<1>3. i \in DOMAIN osc.writes /\ osc.writes \in Seq(Writes(q))
  <2>1. batch # <<>> /\ Head(batch) \in DOMAIN osc.writes
    BY <1>1 DEF DispatchInv, Sound, BatchFits, Serving
  <2>2. osc.writes \in Seq(Writes(q))
    BY <1>2, Fields
  <2> QED
    BY <2>1, <2>2
<1>4. osc.writes[i] \in Writes(q) /\ job \in Jobs(q) /\ i \in Nat \ {0}
  <2> HIDE DEF i, q, d, failed, opened, f
  <2>1. i \in Nat \ {0} /\ osc.writes[i] \in Writes(q)
    BY <1>3
  <2> QED
    BY <2>1 DEF Writes
<1>5. job.target \in Peer /\ job.on \in Things /\ job.rid \in Nat /\ Own(q, job.rid, job.target)
  BY <1>4, JobIs
<1> HIDE DEF job, i, q, w
<1>6. For(job) \in Working(q, job.target, w, {}, Excused) /\ For(job).writes = osc.writes
  BY <1>2, Updates, ZenonT(30) DEF For, Working
<1>7. d \in Working(q, job.target, w, {}, Excused) /\ d.writes \in Seq(Writes(q)) /\ DOMAIN d.writes = DOMAIN osc.writes
  <2> DEFINE c == For(job)
             g(v) == [c EXCEPT !.writes = [c.writes EXCEPT ![i] = [c.writes[i] EXCEPT !.sink = v]]]
  <2>1. \A v \in BOOLEAN : [c.writes[i] EXCEPT !.sink = v] \in Writes(q)
    BY <1>3, <1>4, <1>6 DEF Writes
  <2>2. \A y \in Writes(q) : /\ [c.writes EXCEPT ![i] = y] \in Seq(Writes(q))
                             /\ DOMAIN [c.writes EXCEPT ![i] = y] = DOMAIN osc.writes
    BY <1>3, <1>6
  <2> HIDE DEF c
  <2>3. \A v \in BOOLEAN : /\ [c.writes EXCEPT ![i] = [c.writes[i] EXCEPT !.sink = v]] \in Seq(Writes(q))
                           /\ DOMAIN [c.writes EXCEPT ![i] = [c.writes[i] EXCEPT !.sink = v]] = DOMAIN osc.writes
    BY <2>1, <2>2, Zenon
  <2>4. \A y \in Seq(Writes(q)) : /\ [c EXCEPT !.writes = y] \in Working(q, job.target, w, {}, Excused)
                                  /\ [c EXCEPT !.writes = y].writes = y
    BY <1>6, QueueUpdates, ZenonT(30) DEF c, Working
  <2>5. \A v \in BOOLEAN : /\ g(v) \in Working(q, job.target, w, {}, Excused) /\ g(v).writes \in Seq(Writes(q))
                           /\ DOMAIN g(v).writes = DOMAIN osc.writes
    BY <2>3, <2>4, Zenon
  <2>6. d = g(TRUE)
    BY Zenon DEF c
  <2> HIDE DEF g, d
  <2> QED
    BY <2>5, <2>6, Zenon
<1> HIDE DEF d
<1>8. out \in Working(q, job.target, w, {}, Excused)
  <2>1. SwapRemove(d.writes, i) \in Seq(Writes(q))
    BY <1>3, <1>7, SwapRemoveKeeps
  <2> QED
    BY <1>7, <2>1, QueueUpdates
<1> HIDE DEF out
<1>9. failed \in Working(q, job.target, w, {}, Excused)
  BY <1>4, <1>8, FailKeeps
<1>10. PICK r \in Seq(Request) : Longer(q, r) /\ f \in Working(r, job.target, w, {}, Excused)
  BY <1>2, <1>4, <1>5, <1>8, FinishKeeps
<1> HIDE DEF failed, f
<1>11. opened \in Working(r, job.target, w, {}, Excused)
  <2>1. x \in Outs(r)
    BY <1>2, <1>5, <1>10, OwnStays DEF Outs
  <2> HIDE DEF x
  <2> QED
    BY <1>10, <2>1, OutOpened
<1> HIDE DEF opened
<1>12. Longer(q, q)
  BY <1>2 DEF Longer
<1>13. e \in Since(q, w, {}, Excused)
  <2>1. failed \in Since(q, w, {}, Excused) /\ d \in Since(q, w, {}, Excused)
    BY <1>2, <1>5, <1>7, <1>9, <1>12, SinceHas
  <2>2. opened \in Since(q, w, {}, Excused) /\ f \in Since(q, w, {}, Excused)
    BY <1>2, <1>5, <1>10, <1>11, SinceHas
  <2> QED
    BY <2>1, <2>2
<1>14. k \in Nat \ {0}
  BY <1>4
<1> QED
  BY <1>1, <1>13, <1>14, Turned DEF q, w

(* A stream is closed, told to flush, or not open. *)
LEMMA CloseKeeps ==
    ASSUME DispatchInv, Close
    PROVE  DispatchInv'
<1> DEFINE q == osc.asked
           w == osc.window
           job == Head(batch)
           b == job.on
           d == For(job)
           free == Push(d, "free", b, 0, TRUE)
           flush == Push(osc, "close", b, 0, FALSE)
           unread == [free EXCEPT !.openReads[b] = None]
           unheard == [d EXCEPT !.openReads[b] = None]
           told == [flush EXCEPT !.openWrites[b].closing = job]
           later == [osc EXCEPT !.closes = Append(@, job)]
<1>1. Serving("closes") /\ After(CloseJob(osc, job), Tail(batch))
  BY Zenon DEF Close
<1>2. /\ q \in Seq(Request) /\ w \in {0, 1} /\ osc.target \in Peer
      /\ osc \in Working(q, osc.target, w, {}, Excused) /\ job \in Jobs(q)
  BY <1>1, DispatchTypes DEF Serving, JobStages
<1>3. job.target \in Peer /\ b \in Things
  BY <1>2, JobIs
<1>4. CloseJob(osc, job) \in {Finish(unread, job), Fail(unheard, job), osc, Fail(d, job), later}
         \/ (osc.openWrites[b] # None /\ CloseJob(osc, job) = told)
  BY Zenon DEF CloseJob
<1>5. d \in Working(q, job.target, w, {}, Excused)
  BY <1>2, Updates DEF For
<1>6. later \in Working(q, osc.target, w, {}, Excused)
  <2>1. Append(osc.closes, job) \in Seq(Jobs(q))
    BY <1>2, Fields
  <2> QED
    BY <1>2, <2>1, QueueUpdates
<1> HIDE DEF d, job, q, w, b, later
<1>7. free \in Working(q, job.target, w, {}, Excused) /\ flush \in Working(q, osc.target, w, {}, Excused)
  BY <1>2, <1>3, <1>5, PushKeeps DEF CommandOps, Tags
<1>8. flush.openWrites = osc.openWrites
  BY <1>2 DEF Push, Working
<1> HIDE DEF free, flush
<1>9. unread \in Working(q, job.target, w, {}, Excused) /\ unheard \in Working(q, job.target, w, {}, Excused)
  BY <1>5, <1>7, InOpened
<1>10. osc.openWrites[b] # None => told \in Working(q, osc.target, w, {}, Excused)
  <2> SUFFICES ASSUME osc.openWrites[b] # None PROVE told \in Working(q, osc.target, w, {}, Excused)
    OBVIOUS
  <2> DEFINE o == flush.openWrites[b]
             x == [o EXCEPT !.closing = job]
  <2>1. flush.openWrites \in [Bufs -> Outs(q) \cup {None}]
    BY <1>7, Fields DEF OutTables
  <2>2. CASE b \in Bufs
    <3>1. o \in Outs(q)
      BY <1>8, <2>1, <2>2
    <3>2. x \in Outs(q)
      BY <1>2, <3>1 DEF Outs
    <3>3. told = [flush EXCEPT !.openWrites[b] = x]
      BY <1>7 DEF Working
    <3> HIDE DEF x, told
    <3> QED
      BY <1>7, <3>2, <3>3, OutOpened
  <2>3. CASE b \notin Bufs
    <3>1. [flush.openWrites EXCEPT ![b] = x] = flush.openWrites
      BY <2>1, <2>3
    <3>2. told = [flush EXCEPT !.openWrites = [flush.openWrites EXCEPT ![b] = x]]
      OBVIOUS
    <3>3. told = flush
      BY <1>7, <3>1, <3>2 DEF Working
    <3> QED
      BY <1>7, <3>3
  <2> QED
    BY <2>2, <2>3
<1> HIDE DEF unread, unheard, told
<1>11. Fail(unheard, job) \in Working(q, job.target, w, {}, Excused) /\ Fail(d, job) \in Working(q, job.target, w, {}, Excused)
  BY <1>2, <1>5, <1>9, FailKeeps
<1>12. PICK r \in Seq(Request) : Longer(q, r) /\ Finish(unread, job) \in Working(r, job.target, w, {}, Excused)
  BY <1>2, <1>3, <1>9, FinishKeeps
<1>13. Longer(q, q)
  BY <1>2 DEF Longer
<1>14. CloseJob(osc, job) \in Since(q, w, {}, Excused)
  <2>1. Fail(unheard, job) \in Since(q, w, {}, Excused) /\ Fail(d, job) \in Since(q, w, {}, Excused)
    BY <1>2, <1>3, <1>11, <1>13, SinceHas
  <2>2. osc \in Since(q, w, {}, Excused) /\ later \in Since(q, w, {}, Excused)
    BY <1>2, <1>6, <1>13, SinceHas
  <2>3. Finish(unread, job) \in Since(q, w, {}, Excused)
    BY <1>2, <1>3, <1>12, SinceHas
  <2>4. osc.openWrites[b] # None => told \in Since(q, w, {}, Excused)
    BY <1>2, <1>10, <1>13, SinceHas
  <2> QED
    BY <1>4, <2>1, <2>2, <2>3, <2>4
<1> QED
  BY <1>1, <1>14, Served DEF q, w, job, JobStages

(* The streams that are finished are being closed. *)
LEMMA FinishedClosing ==
    ASSUME NEW E, NEW q \in Seq(Request), NEW t, NEW w, NEW d \in Working(q, t, w, {}, E),
           NEW S \in SUBSET {b \in Open(d.openWrites) : d.openWrites[b].closing # None}
    PROVE  d \in Working(q, t, w, S, E) /\ S \in SUBSET (Bufs \cap S)
<1>1. d.openWrites \in OutTables(q, {})
  BY Fields
<1>2. \A b \in S : b \in Bufs /\ d.openWrites[b].closing # None
  BY DEF Open
<1>3. d.openWrites \in OutTables(q, S)
  BY <1>1, <1>2 DEF OutTables
<1> QED
  BY <1>2, <1>3 DEF Working

(* Closing or not, the streams are streams. *)
LEMMA SinceAny ==
    ASSUME NEW q, NEW w, NEW C, NEW E
    PROVE  Since(q, w, C, E) \subseteq Since(q, w, {}, E)
<1>1. \A r : OutTables(r, C) \subseteq OutTables(r, {})
  BY DEF OutTables
<1>2. \A r, t : Working(r, t, w, C, E) \subseteq Working(r, t, w, {}, E)
  BY <1>1 DEF Working
<1> QED
  BY <1>2 DEF Since

(* Every stream is drained or fed. *)
LEMMA DrainKeeps ==
    ASSUME NEW E, NEW q \in Seq(Request), NEW t \in Peer, NEW w \in {0, 1}, NEW d \in Working(q, t, w, {}, E),
           NEW bad \in SUBSET Bufs, NEW closed \in BOOLEAN
    PROVE  Drain(d, bad, closed) \in Since(q, w, {}, E)
<1> DEFINE S == {b \in Open(d.openWrites) \ bad :
                    d.openWrites[b].closing # None /\ d.openWrites[b].rid \in gone}
           shut == FoldSet(LAMBDA b, e : Shut(e, b, closed), d, S)
<1>1. S \in SUBSET {b \in Open(d.openWrites) : d.openWrites[b].closing # None}
  OBVIOUS
<1> HIDE DEF S
<1>2. d \in Working(q, t, w, S, E) /\ S \in SUBSET (Bufs \cap S)
  BY <1>1, FinishedClosing
<1>3. Longer(q, q)
  BY DEF Longer
<1>4. d \in Since(q, w, S, E)
  BY <1>2, <1>3, SinceHas
<1>5. shut \in Since(q, w, S, E)
  BY <1>2, <1>4, AllShut
<1>6. shut \in Since(q, w, {}, E)
  BY <1>5, SinceAny
<1>7. Drain(d, bad, closed) = FoldSet(LAMBDA b, e : Break(e, b), shut, bad)
  BY Zenon DEF Drain, S
<1> HIDE DEF shut
<1>8. FoldSet(LAMBDA b, e : Break(e, b), shut, bad) \in Since(q, w, {}, E)
  BY <1>6, AllBroken
<1> QED
  BY <1>7, <1>8

(* The tick ends and the replies go out. *)
LEMMA PumpKeeps ==
    ASSUME DispatchInv, NEW badOut \in SUBSET Open(osc.openWrites), NEW badIn \in SUBSET Open(osc.openReads),
           NEW closed \in BOOLEAN, Pump(badOut, badIn, closed)
    PROVE  DispatchInv'
<1> DEFINE q == osc.asked
           w == osc.window
           drained == Drain(osc, badOut, closed)
           d == Feed(drained, badIn)
           r == d.asked
<1>1. /\ q \in Seq(Request) /\ w \in {0, 1} /\ osc.target \in Peer
      /\ osc \in Working(q, osc.target, w, {}, Excused) /\ got \in Seq(Replies(q)) /\ session \in Sessions /\ Engine(Now)
  BY DispatchTypes DEF DispatchInv
<1>2. badOut \in SUBSET Bufs /\ badIn \in SUBSET Bufs
  BY DEF Open
<1>3. /\ got' = got \o d.replies /\ osc' = [d EXCEPT !.replies = <<>>]
      /\ stage' = "idle" /\ session' = session /\ Now' = Now /\ Excused' = Excused
  BY EngineStill DEF Pump
<1> HIDE DEF q, w
<1>4. drained \in Since(q, w, {}, Excused)
  BY <1>1, <1>2, DrainKeeps
<1> HIDE DEF drained
<1>5. d \in Since(q, w, {}, Excused)
  <2>1. FoldSet(LAMBDA b, e : Unread(e, b), drained, badIn) \in Since(q, w, {}, Excused)
    BY <1>1, <1>2, <1>4, AllUnread
  <2> QED
    BY <2>1, Zenon DEF Feed
<1> HIDE DEF d
<1>6. r \in Seq(Request) /\ Longer(q, r) /\ d.target \in Peer /\ d \in Working(r, d.target, w, {}, Excused)
  BY <1>1, <1>5, SinceIs
<1> HIDE DEF r
<1>7. d.replies \in Seq(Replies(r))
  BY <1>6, Fields
<1>8. got' \in Seq(Replies(r))
  BY <1>1, <1>3, <1>6, <1>7, GotGrows
<1>9. osc' \in Working(r, d.target, w, {}, Excused)
  <2>1. <<>> \in Seq(Replies(r))
    OBVIOUS
  <2> QED
    BY <1>3, <1>6, <2>1, Updates
<1>10. osc'.asked = r /\ osc'.target = d.target /\ osc'.window = w
  BY <1>9, Fields
<1> QED
  BY <1>1, <1>3, <1>6, <1>8, <1>9, <1>10, IdleFits DEF DispatchInv, Sound

-----------------------------------------------------------------------------
(* The theorem.                                                            *)

(* Every step keeps the invariant. *)
LEMMA DispatchKeeps ==
    ASSUME DispatchInv, [Next]_vars
    PROVE  DispatchInv'
<1>1. CASE \E client \in Clients, p \in session : HandlePacket(client, p)
  BY <1>1, PacketKeeps
<1>2. CASE Service
  BY <1>2, ServiceKeeps
<1>3. CASE Close
  BY <1>3, CloseKeeps
<1>4. CASE \E ok \in BOOLEAN : Load(ok) \/ LoadDef(ok) \/ HostCommand(ok)
  BY <1>4, LoadKeeps, LoadDefKeeps
<1>5. CASE \E ok, primed \in BOOLEAN : OpenRead(ok, primed)
  BY <1>5, OpenReadKeeps
<1>6. CASE \E fails \in {"open", "drain", "close", "nothing"} : Write(fails)
  BY <1>6, WriteKeeps
<1>7. CASE \E badOut \in SUBSET Open(osc.openWrites), badIn \in SUBSET Open(osc.openReads) :
             Pump(badOut, badIn, TRUE) \/ Pump(badOut, badIn, FALSE)
  <2>1. PICK badOut \in SUBSET Open(osc.openWrites), badIn \in SUBSET Open(osc.openReads), closed \in BOOLEAN :
           Pump(badOut, badIn, closed)
    BY <1>7, Zenon
  <2> QED
    BY <2>1, PumpKeeps
<1>8. CASE Block
  BY <1>8, BlockKeeps
<1>9. CASE Due
  BY <1>9, DueKeeps
<1>10. CASE \E id \in copying : CopyEnds(id)
  BY <1>10, CopyEndsKeeps
<1>11. CASE \E n \in Nodes : SynthEnds(n)
  BY <1>11, SynthEndsKeeps
<1>12. CASE UNCHANGED vars
  <2>1. UNCHANGED <<osc, got, session, stage, batch, engine, events>>
    BY <1>12 DEF vars
  <2>2. Now' = Now /\ Excused' = Excused
    BY <2>1, EngineStill
  <2> QED
    BY <2>1, <2>2, ElsewhereKeeps DEF DispatchInv
<1> QED
  BY <1>1, <1>2, <1>3, <1>4, <1>5, <1>6, <1>7, <1>8, <1>9, <1>10, <1>11, <1>12, Zenon DEF Next

(* What was sent is among the replies that name their own requests. *)
LEMMA AnswersFromInv ==
    ASSUME DispatchInv
    PROVE  AnswersComeHome
<1>1. got \in Seq(Replies(osc.asked))
  BY DispatchTypes
<1>2. \A i \in DOMAIN got : got[i] \in Replies(osc.asked)
  BY <1>1
<1> QED
  BY <1>2 DEF AnswersComeHome, Replies, Own

(* Whatever is answered, at once, by a queue many ticks later, after a       *)
(* completion message or because a stream broke, is answered to the client   *)
(* whose request it was.                                                     *)
THEOREM EveryAnswerComesHome == Spec => []AnswersComeHome
<1>1. Init => DispatchInv
  BY InitDispatch
<1>2. DispatchInv /\ [Next]_vars => DispatchInv'
  BY DispatchKeeps
<1>3. DispatchInv => AnswersComeHome
  BY AnswersFromInv
<1> QED
  BY <1>1, <1>2, <1>3, PTL DEF Spec

(* Once nothing is on its way a tracked definition is a living synth's. *)
LEMMA NamesFromInv ==
    ASSUME DispatchInv
    PROVE  NamesRight
<1> SUFFICES ASSUME Quiet, NEW n \in Nodes, osc.nodeDefs[n] # None
             PROVE  alive[n] = osc.nodeDefs[n]
  BY DEF NamesRight
<1>1. Tracks(osc.nodeDefs, osc.ring, Excused)
  BY DispatchTypes, Fields
<1>2. osc.ring = <<>> /\ held = <<>> /\ events = <<>>
  BY DEF Quiet
<1>3. \A x : ~Sent(osc.ring, n, x) /\ ~Sent(held, n, x)
  BY <1>2 DEF Sent
<1>4. n \notin Range(events)
  BY <1>2 DEF Range
<1>5. <<n, osc.nodeDefs[n]>> \in Excused
  BY <1>1, <1>3 DEF Tracks
<1> QED
  BY <1>3, <1>4, <1>5 DEF Excused, Named, Now

(* However s_new, n_free, deferred bundles, refused and failed creations and *)
(* the ends of synths interleave, once the events are in, a node is tracked  *)
(* to have the definition its living synth was made from, or none: a control *)
(* name is never resolved in another definition for good.                    *)
THEOREM NamesStayRight == Spec => []NamesRight
<1>1. Init => DispatchInv
  BY InitDispatch
<1>2. DispatchInv /\ [Next]_vars => DispatchInv'
  BY DispatchKeeps
<1>3. DispatchInv => NamesRight
  BY NamesFromInv
<1> QED
  BY <1>1, <1>2, <1>3, PTL DEF Spec
=============================================================================
