-------------------------- MODULE OscQueriesProofs --------------------------
(***************************************************************************)
(* Proofs that each getter is answered by the replies to its own queries   *)
(* (AnswersRight) and of why (InStep), for every set of messages, every    *)
(* bound and every size of the rings and the scheduler, as long as what    *)
(* the code relies on holds: no getter fails halfway, /sync carries no     *)
(* time tag, and a synth's controls are asked for one at a time.  Without  *)
(* the second the run osc_late_sync finds a wrong answer.                  *)
(***************************************************************************)
EXTENDS OscQueries, SequenceInduction

Matched ==
    /\ Whole
    /\ \A m \in Messages : m.kind = "sync" => m.time = Now
    /\ \A m \in Messages : m.kind \in {"sget", "sgetn"} => m.size = 1

-----------------------------------------------------------------------------
(* The inductive invariant.                                                *)

Headers == {"header", "sgetHeader"}
TreeParts == {"treeHeader", "treeNode"}
TraceKinds == {"traceHeader", "traceEnd"}
ReplyKinds == Single \cup Headers \cup TreeParts \cup TraceKinds
                \cup {"value", "rangeValue", "sgetValue", "missing", "treeEnd"}

Command == [q : Nat, kind : Getters \cup Others, time : Nat]
Deferred == [q : {0}, kind : Others, time : Nat]     \* what the scheduler may hold
ReplySet == [q : Nat, kind : ReplyKinds, count : Nat]
Entry == [q : Nat \ {0}, kind : Getters, inRange : Nat, remaining : Nat \ {0}, own : {TRUE}]

(* The replies a query of one kind may be answered with. *)
AnswerKinds(kind) ==
    CASE kind \in Single -> {kind}
      [] kind = "pairs" -> {"value"}
      [] kind = "ranges" -> {"header", "rangeValue"}
      [] kind = "sget" -> {"sgetValue", "missing"}
      [] kind = "sgetn" -> {"sgetHeader", "rangeValue", "missing"}
      [] kind = "tree" -> TreeParts \cup {"treeEnd"}

(* Every range in s is followed by its values; a value follows its header, *)
(* or is one of the first m, which are q's; a tree has its end.            *)
Runs(s) ==
    \A i \in DOMAIN s : s[i].kind \in Headers =>
        /\ i + s[i].count <= Len(s)
        /\ \A j \in (i + 1)..(i + s[i].count) : s[j].kind = "rangeValue" /\ s[j].q = s[i].q
Led(s, m) ==
    \A i \in DOMAIN s : s[i].kind = "rangeValue" =>
        \/ i <= m
        \/ \E h \in 1..(i - 1) : s[h].kind \in Headers /\ s[h].q = s[i].q /\ i <= h + s[h].count
Ended(s) ==
    \A i \in DOMAIN s : s[i].kind \in TreeParts =>
        \E j \in (i + 1)..Len(s) : s[j].kind = "treeEnd" /\ s[j].q = s[i].q
Begun(s, m, q) ==
    m <= Len(s) /\ \A i \in 1..m : s[i].kind = "rangeValue" /\ s[i].q = q
Closed(s, m) == Runs(s) /\ Led(s, m) /\ Ended(s)

(* In the order of their getters; what belongs to none (0) comes anywhere. *)
Sorted(s) == \A i, j \in DOMAIN s : i < j /\ s[j].q # 0 => s[i].q <= s[j].q
Before(s, t) == \A i \in DOMAIN s, j \in DOMAIN t : t[j].q # 0 => s[i].q <= t[j].q

(* How many values of a range the oldest entry is still waiting for. *)
Mid == IF pending = <<>> THEN 0 ELSE pending[1].inRange

(* The getters whose queries and replies are on their way: the entries and *)
(* the grouped getter that is being issued.                                *)
Asker(e) == [q |-> e.q, kind |-> e.kind]
Issuing == [q |-> asked + 1, kind |-> issuing.kind]
Halfway == issuing # Idle /\ issuing.kind \in Getters \ {"node"} /\ issuing.left < issuing.size
Askers == {Asker(pending[k]) : k \in DOMAIN pending} \cup (IF Halfway THEN {Issuing} ELSE {})

(* What is on its way to a getter: its queries, and the replies that end an answer. *)
QueriesOf(q) == [q : {q}, kind : Getters \cup Others, time : Nat]
EndsOf(e) == [q : {e.q}, kind : Ends(e), count : Nat]
Owing(e) == Tally(ring, QueriesOf(e.q)) + Tally(replies, EndsOf(e))

IssuingOK ==
    issuing # Idle =>
        \E m \in Messages : \E left \in 1..m.size :
            issuing = [kind |-> m.kind, size |-> m.size, left |-> left, time |-> m.time]
Types ==
    /\ IssuingOK
    /\ pending \in Seq(Entry) /\ ring \in Seq(Command)
    /\ held \in Seq(Deferred) /\ replies \in Seq(ReplySet)
    /\ synth \in BOOLEAN /\ traced \in BOOLEAN
    /\ asked \in Nat /\ others \in Nat
    /\ answers \in [1..MaxAsked -> {"none", "right"}]

(* The entries are in the order they were issued, and only the first has   *)
(* begun to be answered.                                                   *)
Entries ==
    /\ \A i, j \in DOMAIN pending : i < j => pending[i].q < pending[j].q
    /\ \A k \in DOMAIN pending :
          /\ pending[k].q <= asked
          /\ k > 1 => pending[k].inRange = 0
          /\ pending[k].kind \notin {"pairs", "ranges"} => pending[k].remaining = 1
Commands ==
    \A k \in DOMAIN ring :
        IF ring[k].kind \in Others THEN ring[k].q = 0
        ELSE ring[k].time = Now /\ Asker(ring[k]) \in Askers
Owned ==
    \A k \in DOMAIN replies :
        IF IsTrace(replies[k]) THEN replies[k].q = 0
        ELSE \E o \in Askers : o.q = replies[k].q /\ replies[k].kind \in AnswerKinds(o.kind)
InOrder == Sorted(replies) /\ Sorted(ring) /\ Before(replies, ring)
Shape ==
    /\ Closed(replies, Mid)
    /\ pending # <<>> => Begun(replies, Mid, pending[1].q)
Counts ==
    /\ \A k \in DOMAIN pending :
          pending[k].remaining = Owing(Asker(pending[k])) + IF pending[k].inRange > 0 THEN 1 ELSE 0
    /\ Halfway => issuing.size - issuing.left = Owing(Issuing)

(* The bounds of TypeOK.  A trace that is asked for, or held, or flagged,  *)
(* is still to be dumped.                                                  *)
Traces == Tally(ring, Deferred) + Len(held) + IF traced THEN 1 ELSE 0
Bounds ==
    /\ asked <= MaxAsked /\ others <= MaxOther
    /\ issuing # Idle =>
          IF issuing.kind \in Getters
          THEN asked + (IF issuing.kind = "node" THEN issuing.left ELSE 1) <= MaxAsked
          ELSE others < MaxOther
    /\ Len(ring) <= RingCap /\ Len(held) <= SchedCap
    /\ Traces <= others
    /\ Len(replies) + 2 * Traces <= ReplyCap + Burst + 2 * others

QueryInv == Types /\ Entries /\ Commands /\ Owned /\ InOrder /\ Shape /\ Counts /\ Bounds

-----------------------------------------------------------------------------
(* Sequences of replies.                                                   *)

(* A field of a member of a sequence of replies, or of commands. *)
LEMMA ReplyFields ==
    \A s \in Seq(ReplySet) : \A i \in DOMAIN s :
        s[i] \in ReplySet /\ s[i].q \in Nat /\ s[i].count \in Nat /\ s[i].kind \in ReplyKinds
<1> TAKE s \in Seq(ReplySet)
<1> TAKE i \in DOMAIN s
<1>1. s[i] \in ReplySet
  OBVIOUS
<1> QED
  BY <1>1 DEF ReplySet

(* The fields of the commands of a sequence. *)
LEMMA CommandFields ==
    \A s \in Seq(Command) : \A i \in DOMAIN s :
        s[i] \in Command /\ s[i].q \in Nat /\ s[i].time \in Nat /\ s[i].kind \in Getters \cup Others
<1> TAKE s \in Seq(Command)
<1> TAKE i \in DOMAIN s
<1>1. s[i] \in Command
  OBVIOUS
<1> QED
  BY <1>1 DEF Command

(* Where the members of a concatenation and of a tail come from. *)
LEMMA Concatenated ==
    \A S : \A s, t \in Seq(S) :
        /\ s \o t \in Seq(S) /\ Len(s \o t) = Len(s) + Len(t) /\ Len(s) \in Nat /\ Len(t) \in Nat
        /\ DOMAIN s = 1..Len(s) /\ DOMAIN t = 1..Len(t) /\ DOMAIN (s \o t) = 1..(Len(s) + Len(t))
        /\ \A i \in 1..Len(s) : (s \o t)[i] = s[i]
        /\ \A i \in 1..Len(t) : (s \o t)[Len(s) + i] = t[i]
  OBVIOUS

(* The same for replies. *)
LEMMA ConcatReplies ==
    \A s, t \in Seq(ReplySet) :
        /\ s \o t \in Seq(ReplySet) /\ Len(s \o t) = Len(s) + Len(t)
        /\ Len(s) \in Nat /\ Len(t) \in Nat
        /\ DOMAIN s = 1..Len(s) /\ DOMAIN t = 1..Len(t) /\ DOMAIN (s \o t) = 1..(Len(s) + Len(t))
        /\ \A i \in 1..Len(s) : (s \o t)[i] = s[i]
        /\ \A i \in 1..Len(t) : (s \o t)[Len(s) + i] = t[i]
  OBVIOUS

(* A sequence without its head. *)
LEMMA Dropped ==
    \A S : \A s \in Seq(S) : s # <<>> =>
        /\ Tail(s) \in Seq(S) /\ Len(Tail(s)) \in Nat /\ Len(s) = Len(Tail(s)) + 1
        /\ DOMAIN s = 1..(Len(Tail(s)) + 1) /\ DOMAIN Tail(s) = 1..Len(Tail(s))
        /\ Head(s) = s[1] /\ Head(s) \in S
        /\ \A i \in 1..Len(Tail(s)) : Tail(s)[i] = s[i + 1]
  OBVIOUS

(* Complete answers added at the end. *)
LEMMA ClosedConcat ==
    ASSUME NEW s \in Seq(ReplySet), NEW t \in Seq(ReplySet), NEW m \in Nat,
           Closed(s, m), Closed(t, 0)
    PROVE  Closed(s \o t, m)
<1> DEFINE u == s \o t
           a == Len(s)
           b == Len(t)
<1>1. /\ a \in Nat /\ b \in Nat /\ Len(u) = a + b
      /\ DOMAIN s = 1..a /\ DOMAIN t = 1..b /\ DOMAIN u = 1..(a + b)
      /\ \A i \in 1..a : u[i] = s[i]
      /\ \A i \in 1..b : u[a + i] = t[i]
  BY Concatenated
<1>2. /\ \A i \in 1..a : s[i].count \in Nat
      /\ \A i \in 1..b : t[i].count \in Nat
  BY <1>1, ReplyFields, Zenon
<1>3. \A i \in 1..(a + b) : i \in 1..a \/ \E k \in 1..b : i = a + k
  <2> TAKE i \in 1..(a + b)
  <2>1. i \in 1..a \/ (i - a \in 1..b /\ i = a + (i - a))
    BY <1>1
  <2> QED
    BY <2>1
<1> HIDE DEF u, a, b
<1>4. Runs(u)
  <2> SUFFICES ASSUME NEW i \in 1..(a + b), u[i].kind \in Headers
               PROVE  /\ i + u[i].count <= a + b
                      /\ \A j \in (i + 1)..(i + u[i].count) :
                            u[j].kind = "rangeValue" /\ u[j].q = u[i].q
    BY <1>1 DEF Runs
  <2>1. CASE i \in 1..a
    <3>1. u[i] = s[i] /\ s[i].count \in Nat
      BY <1>1, <1>2, <2>1
    <3>2. /\ i + s[i].count <= a
          /\ \A j \in (i + 1)..(i + s[i].count) : s[j].kind = "rangeValue" /\ s[j].q = s[i].q
      BY <1>1, <2>1, <3>1 DEF Closed, Runs, a
    <3> DEFINE n == s[i].count
    <3>3. n \in Nat
      BY <3>1
    <3>4. ASSUME NEW j \in (i + 1)..(i + n) PROVE u[j] = s[j]
      <4>1. j \in 1..a
        <5> HIDE DEF n
        <5> QED
          BY <1>1, <2>1, <3>2, <3>3, <3>4 DEF n
      <4> QED
        BY <1>1, <4>1
    <3>5. i + n <= a + b
      BY <1>1, <3>2, <3>3
    <3> QED
      BY <3>1, <3>2, <3>4, <3>5
  <2>2. ASSUME NEW k \in 1..b, i = a + k
        PROVE  /\ i + u[i].count <= a + b
               /\ \A j \in (i + 1)..(i + u[i].count) : u[j].kind = "rangeValue" /\ u[j].q = u[i].q
    <3>1. u[i] = t[k] /\ t[k].count \in Nat
      BY <1>1, <1>2, <2>2
    <3>2. /\ k + t[k].count <= b
          /\ \A j \in (k + 1)..(k + t[k].count) : t[j].kind = "rangeValue" /\ t[j].q = t[k].q
      BY <1>1, <3>1 DEF Closed, Runs, b
    <3> DEFINE n == t[k].count
    <3>3. n \in Nat
      BY <3>1
    <3>4. ASSUME NEW j \in (i + 1)..(i + n)
          PROVE  \E l \in (k + 1)..(k + n) : u[j] = t[l]
      <4>1. j - a \in (k + 1)..(k + n) /\ j - a \in 1..b /\ j = a + (j - a)
        <5> HIDE DEF n
        <5> QED
          BY <1>1, <2>2, <3>2, <3>3, <3>4 DEF n
      <4> QED
        BY <1>1, <4>1
    <3>5. i + n <= a + b
      BY <1>1, <2>2, <3>2, <3>3
    <3> QED
      BY <3>1, <3>2, <3>4, <3>5, ZenonT(30)
  <2> QED
    BY <1>3, <2>1, <2>2
<1>5. Led(u, m)
  <2> SUFFICES ASSUME NEW i \in 1..(a + b), u[i].kind = "rangeValue", ~(i <= m)
               PROVE  \E h \in 1..(i - 1) :
                        u[h].kind \in Headers /\ u[h].q = u[i].q /\ i <= h + u[h].count
    BY <1>1 DEF Led
  <2>1. CASE i \in 1..a
    <3>1. u[i] = s[i]
      BY <1>1, <2>1
    <3>2. PICK h \in 1..(i - 1) :
              s[h].kind \in Headers /\ s[h].q = s[i].q /\ i <= h + s[h].count
      BY <1>1, <2>1, <3>1 DEF Closed, Led
    <3>3. h \in 1..a
      BY <1>1, <2>1
    <3> QED
      BY <1>1, <3>1, <3>2, <3>3
  <2>2. ASSUME NEW k \in 1..b, i = a + k
        PROVE  \E h \in 1..(i - 1) :
                  u[h].kind \in Headers /\ u[h].q = u[i].q /\ i <= h + u[h].count
    <3>1. u[i] = t[k] /\ ~(k <= 0)
      BY <1>1, <2>2
    <3>2. PICK h \in 1..(k - 1) :
              t[h].kind \in Headers /\ t[h].q = t[k].q /\ k <= h + t[h].count
      BY <1>1, <3>1 DEF Closed, Led
    <3>3. h \in 1..b /\ a + h \in 1..(i - 1)
      BY <1>1, <2>2
    <3>4. u[a + h] = t[h] /\ t[h].count \in Nat
      BY <1>1, <1>2, <3>3
    <3>5. i <= (a + h) + t[h].count
      BY <1>1, <2>2, <3>2, <3>4
    <3> QED
      BY <3>1, <3>2, <3>3, <3>4, <3>5
  <2> QED
    BY <1>3, <2>1, <2>2
<1>6. Ended(u)
  <2> SUFFICES ASSUME NEW i \in 1..(a + b), u[i].kind \in TreeParts
               PROVE  \E j \in (i + 1)..(a + b) : u[j].kind = "treeEnd" /\ u[j].q = u[i].q
    BY <1>1 DEF Ended
  <2>1. CASE i \in 1..a
    <3>1. u[i] = s[i]
      BY <1>1, <2>1
    <3>2. PICK j \in (i + 1)..a : s[j].kind = "treeEnd" /\ s[j].q = s[i].q
      BY <1>1, <2>1, <3>1 DEF Closed, Ended, a
    <3>3. j \in 1..a /\ j \in (i + 1)..(a + b)
      BY <1>1, <2>1
    <3> QED
      BY <1>1, <3>1, <3>2, <3>3
  <2>2. ASSUME NEW k \in 1..b, i = a + k
        PROVE  \E j \in (i + 1)..(a + b) : u[j].kind = "treeEnd" /\ u[j].q = u[i].q
    <3>1. u[i] = t[k]
      BY <1>1, <2>2
    <3>2. PICK j \in (k + 1)..b : t[j].kind = "treeEnd" /\ t[j].q = t[k].q
      BY <1>1, <3>1 DEF Closed, Ended, b
    <3>3. j \in 1..b /\ a + j \in (i + 1)..(a + b)
      BY <1>1, <2>2
    <3> QED
      BY <1>1, <3>1, <3>2, <3>3
  <2> QED
    BY <1>3, <2>1, <2>2
<1> QED
  BY <1>4, <1>5, <1>6 DEF Closed, u

(* The first reply taken off: how many values of a range follow it. *)
Following(m, r) == IF r.kind \in Headers THEN r.count ELSE Less(m)

(* Taking the head off a well-formed queue, m values into a range. *)
LEMMA ClosedTail ==
    ASSUME NEW s \in Seq(ReplySet), s # <<>>, NEW m \in Nat, NEW q,
           Closed(s, m), Begun(s, m, q)
    PROVE  /\ Closed(Tail(s), Following(m, Head(s)))
           /\ Begun(Tail(s), Following(m, Head(s)), Head(s).q)
           /\ m > 0 => Head(s).kind = "rangeValue" /\ Head(s).q = q
           /\ Head(s).kind = "rangeValue" => m > 0
           /\ Head(s).kind \in TreeParts =>
                 \E j \in DOMAIN Tail(s) : Tail(s)[j].kind = "treeEnd" /\ Tail(s)[j].q = Head(s).q
           /\ Following(m, Head(s)) \in Nat
<1> DEFINE t == Tail(s)
           r == Head(s)
           b == Len(t)
           n == Following(m, r)
<1>1. /\ b \in Nat /\ Len(s) = b + 1
      /\ DOMAIN s = 1..(b + 1) /\ DOMAIN t = 1..b /\ r = s[1]
      /\ \A i \in 1..b : t[i] = s[i + 1]
  BY Dropped, Zenon
<1>2. r.count \in Nat /\ \A i \in 1..(b + 1) : s[i].count \in Nat
  <2>1. \A i \in 1..(b + 1) : s[i].count \in Nat
    BY <1>1, ReplyFields, Zenon
  <2>2. 1 \in 1..(b + 1)
    BY <1>1
  <2> QED
    BY <1>1, <2>1, <2>2
<1>3. /\ m <= b + 1
      /\ \A i \in 1..m : s[i].kind = "rangeValue" /\ s[i].q = q
  BY <1>1 DEF Begun
<1> HIDE DEF t, r, b
<1>4. m > 0 => r.kind = "rangeValue" /\ r.q = q
  <2> SUFFICES ASSUME m > 0 PROVE r.kind = "rangeValue" /\ r.q = q
    OBVIOUS
  <2>1. 1 \in 1..m
    OBVIOUS
  <2> QED
    BY <1>1, <1>3, <2>1
<1>5. n \in Nat
  BY <1>2 DEF Following, Less
<1>6. r.kind = "rangeValue" => m > 0
  <2> SUFFICES ASSUME r.kind = "rangeValue", ~(m > 0) PROVE FALSE
    OBVIOUS
  <2>1. 1 \in 1..(b + 1) /\ ~(1 <= m)
    BY <1>1
  <2>2. \E h \in 1..(1 - 1) : s[h].kind \in Headers
    BY <1>1, <2>1 DEF Closed, Led
  <2> QED
    BY <2>2
<1>7. r.kind \in Headers => n = r.count /\ m = 0
  BY <1>4 DEF Following, Headers
<1>8. r.kind \notin Headers => n = IF m = 0 THEN 0 ELSE m - 1
  BY DEF Following, Less
<1>9. Runs(t)
  <2> SUFFICES ASSUME NEW i \in 1..b, t[i].kind \in Headers
               PROVE  /\ i + t[i].count <= b
                      /\ \A j \in (i + 1)..(i + t[i].count) :
                            t[j].kind = "rangeValue" /\ t[j].q = t[i].q
    BY <1>1 DEF Runs, b
  <2>1. t[i] = s[i + 1] /\ i + 1 \in 1..(b + 1)
    BY <1>1
  <2> DEFINE c == s[i + 1].count
  <2>2. c \in Nat
    BY <1>2, <2>1
  <2>3. /\ (i + 1) + c <= b + 1
        /\ \A j \in ((i + 1) + 1)..((i + 1) + c) : s[j].kind = "rangeValue" /\ s[j].q = s[i + 1].q
    BY <1>1, <2>1 DEF Closed, Runs
  <2>4. i + c <= b
    <3> HIDE DEF c
    <3> QED
      BY <1>1, <2>2, <2>3
  <2>5. ASSUME NEW j \in (i + 1)..(i + c)
        PROVE  j + 1 \in ((i + 1) + 1)..((i + 1) + c) /\ t[j] = s[j + 1]
    <3>1. j \in 1..b /\ j + 1 \in ((i + 1) + 1)..((i + 1) + c)
      <4> HIDE DEF c
      <4> QED
        BY <1>1, <2>2, <2>4, <2>5
    <3> QED
      BY <1>1, <3>1
  <2> QED
    BY <2>1, <2>3, <2>4, <2>5
<1>10. Led(t, n)
  <2> SUFFICES ASSUME NEW i \in 1..b, t[i].kind = "rangeValue", ~(i <= n)
               PROVE  \E h \in 1..(i - 1) :
                        t[h].kind \in Headers /\ t[h].q = t[i].q /\ i <= h + t[h].count
    BY <1>1 DEF Led
  <2>1. t[i] = s[i + 1] /\ i + 1 \in 1..(b + 1)
    BY <1>1
  <2>2. ~(i + 1 <= m)
    BY <1>1, <1>5, <1>7, <1>8
  <2>3. PICK h \in 1..((i + 1) - 1) :
            s[h].kind \in Headers /\ s[h].q = s[i + 1].q /\ i + 1 <= h + s[h].count
    BY <1>1, <2>1, <2>2 DEF Closed, Led
  <2>4. h # 1
    <3> SUFFICES ASSUME h = 1 PROVE FALSE
      OBVIOUS
    <3>1. r.kind \in Headers /\ i + 1 <= 1 + r.count
      BY <1>1, <2>3
    <3> QED
      BY <1>2, <1>7, <3>1
  <2>5. h - 1 \in 1..b /\ h - 1 \in 1..(i - 1) /\ (h - 1) + 1 = h /\ h \in 1..(b + 1)
    BY <1>1, <2>4
  <2>6. t[h - 1] = s[h] /\ s[h].count \in Nat
    BY <1>1, <1>2, <2>5
  <2>7. i <= (h - 1) + s[h].count
    BY <2>3, <2>5, <2>6
  <2> QED
    BY <2>1, <2>3, <2>5, <2>6, <2>7
<1>11. ASSUME NEW i \in 1..(b + 1), s[i].kind \in TreeParts
       PROVE  \E j \in i..b : t[j].kind = "treeEnd" /\ t[j].q = s[i].q
  <2>1. PICK j \in (i + 1)..(b + 1) : s[j].kind = "treeEnd" /\ s[j].q = s[i].q
    BY <1>1, <1>11 DEF Closed, Ended
  <2>2. j - 1 \in i..b /\ j - 1 \in 1..b /\ (j - 1) + 1 = j
    BY <1>1
  <2>3. t[j - 1] = s[j]
    BY <1>1, <2>2
  <2> QED
    BY <2>1, <2>2, <2>3
<1>12. Ended(t)
  <2> SUFFICES ASSUME NEW i \in 1..b, t[i].kind \in TreeParts
               PROVE  \E j \in (i + 1)..b : t[j].kind = "treeEnd" /\ t[j].q = t[i].q
    BY <1>1 DEF Ended, b
  <2>1. t[i] = s[i + 1] /\ i + 1 \in 1..(b + 1)
    BY <1>1
  <2> QED
    BY <1>11, <2>1
<1>13. r.kind \in TreeParts => \E j \in 1..b : t[j].kind = "treeEnd" /\ t[j].q = r.q
  <2>1. 1 \in 1..(b + 1)
    BY <1>1
  <2> QED
    BY <1>1, <1>11, <2>1
<1>14. Begun(t, n, r.q)
  <2>1. CASE r.kind \in Headers
    <3>1. 1 \in 1..(b + 1)
      BY <1>1
    <3>2. /\ 1 + r.count <= b + 1
          /\ \A j \in (1 + 1)..(1 + r.count) : s[j].kind = "rangeValue" /\ s[j].q = r.q
      BY <1>1, <2>1, <3>1 DEF Closed, Runs
    <3>3. n <= b
      BY <1>1, <1>2, <1>7, <2>1, <3>2
    <3>4. ASSUME NEW i \in 1..n PROVE t[i].kind = "rangeValue" /\ t[i].q = r.q
      <4>1. i \in 1..b /\ i + 1 \in (1 + 1)..(1 + r.count)
        BY <1>1, <1>2, <1>5, <1>7, <2>1, <3>3
      <4> QED
        BY <1>1, <3>2, <4>1
    <3> QED
      BY <3>3, <3>4 DEF Begun, b
  <2>2. CASE r.kind \notin Headers
    <3>1. n <= b
      BY <1>1, <1>3, <1>8, <2>2
    <3>2. ASSUME NEW i \in 1..n PROVE t[i].kind = "rangeValue" /\ t[i].q = r.q
      <4>1. i \in 1..b /\ i + 1 \in 1..m /\ m > 0
        BY <1>1, <1>5, <1>8, <2>2, <3>1
      <4> QED
        BY <1>1, <1>3, <1>4, <4>1
    <3> QED
      BY <3>1, <3>2 DEF Begun, b
  <2> QED
    BY <2>1, <2>2
<1>15. Closed(t, n)
  BY <1>9, <1>10, <1>12 DEF Closed
<1>17. r.kind \in TreeParts => \E j \in DOMAIN t : t[j].kind = "treeEnd" /\ t[j].q = r.q
  BY <1>1, <1>13
<1> QED
  BY <1>4, <1>5, <1>6, <1>14, <1>15, <1>17 DEF t, r

-----------------------------------------------------------------------------
(* The answers.                                                            *)

(* What occurs in one place only occurs once. *)
LEMMA TallyOnce ==
    ASSUME NEW s, NEW P, NEW i \in DOMAIN s, s[i] \in P, \A j \in DOMAIN s : s[j] \in P => j = i
    PROVE  Tally(s, P) = 1
<1>1. Spots(s, P) = {i}
  BY DEF Spots
<1> QED
  BY <1>1, FS_Singleton DEF Tally

(* Replies are of their type. *)
LEMMA ReplyType ==
    \A q \in Nat, count \in Nat : \A kind \in ReplyKinds :
        /\ Reply(q, kind, count) \in ReplySet /\ Reply(q, kind, count).q = q
        /\ Reply(q, kind, count).kind = kind /\ Reply(q, kind, count).count = count
  BY DEF Reply, ReplySet

(* What is true of every answer to a query of getter q. *)
AnswerTo(answer, q, kind) ==
    /\ answer \in Seq(ReplySet) /\ Len(answer) <= Burst /\ Closed(answer, 0)
    /\ \A i \in DOMAIN answer : /\ answer[i].q = q /\ ~IsTrace(answer[i])
                                /\ answer[i].kind \in AnswerKinds(kind)
    /\ Tally(answer, EndsOf([q |-> q, kind |-> kind])) = 1

(* The replies that end a getter's answer, by number and kind. *)
LEMMA EndIs ==
    \A q \in Nat : \A kind \in Getters : \A r \in ReplySet :
        r \in EndsOf([q |-> q, kind |-> kind]) <=> r.q = q /\ r.kind \in Ends([kind |-> kind])
<1> SUFFICES ASSUME NEW q \in Nat, NEW kind \in Getters, NEW r \in ReplySet
             PROVE  r \in EndsOf([q |-> q, kind |-> kind])
                      <=> r.q = q /\ r.kind \in Ends([kind |-> kind])
  OBVIOUS
<1> DEFINE e == [q |-> q, kind |-> kind]
<1>1. e.q = q /\ e.kind = kind
  OBVIOUS
<1>2. Ends(e) = Ends([kind |-> kind])
  BY <1>1 DEF Ends
<1> QED
  BY <1>1, <1>2 DEF EndsOf, ReplySet

(* An answer of a single reply. *)
LEMMA OneReply ==
    ASSUME NEW q \in Nat, NEW kind \in Getters,
           NEW r \in AnswerKinds(kind) \ ({"treeHeader", "treeNode", "rangeValue"} \cup Headers),
           MaxRange \in Nat
    PROVE  AnswerTo(<<Reply(q, r, 0)>>, q, kind)
<1> DEFINE s == <<Reply(q, r, 0)>>
<1>1. r \in ReplyKinds /\ r \in Ends([kind |-> kind]) /\ r \notin TraceKinds
  BY DEF AnswerKinds, ReplyKinds, Ends, TreeParts, Headers, TraceKinds, Getters, Grouped, Single
<1>2. Reply(q, r, 0) \in ReplySet /\ Reply(q, r, 0).q = q /\ Reply(q, r, 0).kind = r
  BY <1>1, ReplyType
<1>3. s \in Seq(ReplySet) /\ Len(s) = 1 /\ DOMAIN s = {1} /\ s[1] = Reply(q, r, 0)
  BY <1>2
<1>4. Closed(s, 0)
  BY <1>2, <1>3 DEF Closed, Runs, Led, Ended, Headers, TreeParts
<1>5. Tally(s, EndsOf([q |-> q, kind |-> kind])) = 1
  <2>1. s[1] \in EndsOf([q |-> q, kind |-> kind])
    BY <1>1, <1>2, <1>3, EndIs
  <2> HIDE DEF s
  <2> QED
    BY <1>3, <2>1, TallyOnce
<1>6. ~IsTrace(s[1])
  BY <1>1, <1>2, <1>3 DEF IsTrace, TraceKinds
<1>7. 1 <= Burst
  BY DEF Burst
<1> QED
  BY <1>2, <1>3, <1>4, <1>5, <1>6, <1>7 DEF AnswerTo

(* A range: a header with its count, and the values. *)
LEMMA RangeReplies ==
    ASSUME NEW q \in Nat, NEW n \in 0..MaxRange, MaxRange \in Nat,
           NEW kind \in {"ranges", "sgetn"}, NEW header \in Headers \cap AnswerKinds(kind)
    PROVE  AnswerTo(Run(q, header, n), q, kind)
<1> DEFINE s == Run(q, header, n)
           first == Reply(q, header, n)
           value == Reply(q, "rangeValue", 0)
<1>1. n \in Nat /\ header \in ReplyKinds /\ "rangeValue" \in ReplyKinds
  BY DEF Headers, ReplyKinds
<1>2. /\ first \in ReplySet /\ first.q = q /\ first.kind = header /\ first.count = n
      /\ value \in ReplySet /\ value.q = q /\ value.kind = "rangeValue"
  BY <1>1, ReplyType
<1>3. /\ s \in Seq(ReplySet) /\ Len(s) = n + 1 /\ DOMAIN s = 1..(n + 1)
      /\ s[1] = first /\ \A i \in 2..(n + 1) : s[i] = value
  <2> DEFINE t == [i \in 1..n |-> value]
             h == <<first>>
  <2>1. h \in Seq(ReplySet) /\ Len(h) = 1 /\ h[1] = first
    BY <1>2
  <2>2. t \in Seq(ReplySet) /\ Len(t) = n /\ \A i \in 1..n : t[i] = value
    BY <1>1, <1>2
  <2>3. s = h \o t
    BY DEF Run
  <2> HIDE DEF h, t, s, first, value
  <2>4. /\ h \o t \in Seq(ReplySet) /\ Len(h \o t) = Len(h) + Len(t)
        /\ DOMAIN (h \o t) = 1..(Len(h) + Len(t))
        /\ \A i \in 1..Len(h) : (h \o t)[i] = h[i]
        /\ \A i \in 1..Len(t) : (h \o t)[Len(h) + i] = t[i]
    BY <2>1, <2>2, ConcatReplies
  <2>5. 1 \in 1..Len(h) /\ Len(h) + Len(t) = n + 1
    BY <1>1, <2>1, <2>2
  <2>6. s[1] = first
    BY <2>1, <2>3, <2>4, <2>5
  <2>7. ASSUME NEW i \in 2..(n + 1) PROVE s[i] = value
    <3>1. i - 1 \in 1..n /\ 1 + (i - 1) = i
      BY <1>1
    <3>2. (h \o t)[1 + (i - 1)] = t[i - 1]
      BY <2>1, <2>2, <2>4, <3>1
    <3> QED
      BY <2>2, <2>3, <3>1, <3>2
  <2> QED
    BY <2>3, <2>4, <2>5, <2>6, <2>7
<1>4. 1 \in 1..(n + 1) /\ \A i \in 1..(n + 1) : i = 1 \/ i \in 2..(n + 1)
  BY <1>1
<1> HIDE DEF s, first, value
<1>5. header # "rangeValue" /\ header \notin TreeParts /\ "rangeValue" \notin TreeParts \cup Headers
  BY DEF Headers, TreeParts
<1>6. Closed(s, 0)
  <2>1. Runs(s)
    <3> SUFFICES ASSUME NEW i \in 1..(n + 1), s[i].kind \in Headers
                 PROVE  /\ i + s[i].count <= Len(s)
                        /\ \A j \in (i + 1)..(i + s[i].count) :
                              s[j].kind = "rangeValue" /\ s[j].q = s[i].q
      BY <1>3 DEF Runs
    <3>1. i = 1 /\ s[i] = first
      BY <1>2, <1>3, <1>4, <1>5
    <3>2. \A j \in (1 + 1)..(1 + n) : j \in 2..(n + 1)
      BY <1>1
    <3> QED
      BY <1>1, <1>2, <1>3, <3>1, <3>2
  <2>2. Led(s, 0)
    <3> SUFFICES ASSUME NEW i \in 1..(n + 1), s[i].kind = "rangeValue"
                 PROVE  \E h \in 1..(i - 1) :
                          s[h].kind \in Headers /\ s[h].q = s[i].q /\ i <= h + s[h].count
      BY <1>3 DEF Led
    <3>1. i \in 2..(n + 1) /\ s[i] = value
      BY <1>2, <1>3, <1>4, <1>5
    <3>2. 1 \in 1..(i - 1) /\ i <= 1 + n
      BY <1>1, <3>1
    <3> QED
      BY <1>2, <1>3, <3>1, <3>2
  <2>3. Ended(s)
    BY <1>2, <1>3, <1>4, <1>5 DEF Ended
  <2> QED
    BY <2>1, <2>2, <2>3 DEF Closed
<1>7. Tally(s, EndsOf([q |-> q, kind |-> kind])) = 1
  <2>1. header \in Ends([kind |-> kind]) /\ "rangeValue" \notin Ends([kind |-> kind])
    BY DEF Ends, Headers, AnswerKinds, Single
  <2>2. kind \in Getters
    BY DEF Getters, Grouped
  <2>3. first \in EndsOf([q |-> q, kind |-> kind]) /\ value \notin EndsOf([q |-> q, kind |-> kind])
    BY <1>2, <2>1, <2>2, EndIs
  <2>4. 1 \in DOMAIN s /\ \A j \in DOMAIN s : s[j] \in EndsOf([q |-> q, kind |-> kind]) => j = 1
    BY <1>3, <1>4, <2>3
  <2> QED
    BY <1>3, <2>3, <2>4, TallyOnce
<1>8. \A i \in DOMAIN s : s[i].q = q /\ s[i].kind \in {header, "rangeValue"}
  BY <1>2, <1>3, <1>4
<1>9. header \in AnswerKinds(kind) /\ "rangeValue" \in AnswerKinds(kind)
  BY DEF AnswerKinds, Single
<1>10. \A i \in DOMAIN s : ~IsTrace(s[i])
  BY <1>8 DEF IsTrace, Headers
<1>11. n + 1 <= Burst
  BY DEF Burst
<1> QED
  BY <1>3, <1>6, <1>7, <1>8, <1>9, <1>10, <1>11 DEF AnswerTo, s

(* A tree: a header, at most a node here, and the end. *)
LEMMA TreeAnswer ==
    ASSUME NEW q \in Nat, NEW s \in TreeReplies(q), MaxRange \in Nat
    PROVE  AnswerTo(s, q, "tree")
<1> DEFINE first == Reply(q, "treeHeader", 0)
           node == Reply(q, "treeNode", 0)
           end == Reply(q, "treeEnd", 0)
<1>1. /\ first \in ReplySet /\ first.q = q /\ first.kind = "treeHeader"
      /\ node \in ReplySet /\ node.q = q /\ node.kind = "treeNode"
      /\ end \in ReplySet /\ end.q = q /\ end.kind = "treeEnd"
  BY ReplyType DEF ReplyKinds, TreeParts
<1>2. PICK n \in 0..1 : s = <<first>> \o [i \in 1..n |-> node] \o <<end>>
  BY DEF TreeReplies
<1> DEFINE m == n + 2
           h == <<first>>
           t == [i \in 1..n |-> node]
           e == <<end>>
<1>3. /\ h \in Seq(ReplySet) /\ Len(h) = 1 /\ h[1] = first
      /\ t \in Seq(ReplySet) /\ Len(t) = n /\ \A i \in 1..n : t[i] = node
      /\ e \in Seq(ReplySet) /\ Len(e) = 1 /\ e[1] = end
      /\ s = h \o t \o e
  BY <1>1, <1>2
<1> HIDE DEF first, node, end, h, t, e
<1>4. /\ s \in Seq(ReplySet) /\ Len(s) = m /\ DOMAIN s = 1..m /\ s[m] = end
      /\ \A i \in 1..m : i = m \/ s[i] \in {first, node}
  <2> DEFINE u == h \o t
  <2>1. /\ u \in Seq(ReplySet) /\ Len(u) = Len(h) + Len(t)
        /\ \A i \in 1..Len(h) : u[i] = h[i]
        /\ \A i \in 1..Len(t) : u[Len(h) + i] = t[i]
    BY <1>3, ConcatReplies
  <2> HIDE DEF u
  <2>2. /\ u \o e \in Seq(ReplySet) /\ Len(u \o e) = Len(u) + Len(e)
        /\ DOMAIN (u \o e) = 1..(Len(u) + Len(e))
        /\ \A i \in 1..Len(u) : (u \o e)[i] = u[i]
        /\ \A i \in 1..Len(e) : (u \o e)[Len(u) + i] = e[i]
    BY <1>3, <2>1, ConcatReplies
  <2>3. s = u \o e /\ Len(u) = n + 1 /\ Len(u) + Len(e) = m
    BY <1>3, <2>1 DEF u
  <2>4. s[m] = end
    <3>1. 1 \in 1..Len(e) /\ Len(u) + 1 = m
      BY <1>3, <2>3
    <3> QED
      BY <1>3, <2>2, <2>3, <3>1
  <2>5. ASSUME NEW i \in 1..m, i # m PROVE s[i] \in {first, node}
    <3>1. i \in 1..Len(u)
      BY <2>3, <2>5
    <3>2. s[i] = u[i]
      BY <2>2, <2>3, <3>1
    <3>3. CASE i = 1
      <4>1. i \in 1..Len(h)
        BY <1>3, <3>3
      <4> QED
        BY <1>3, <2>1, <3>2, <3>3, <4>1
    <3>4. CASE i # 1
      <4>1. i - 1 \in 1..n /\ 1 + (i - 1) = i
        BY <2>3, <3>1, <3>4
      <4>2. u[1 + (i - 1)] = t[i - 1]
        BY <1>3, <2>1, <4>1
      <4> QED
        BY <1>3, <3>2, <4>1, <4>2
    <3> QED
      BY <3>3, <3>4
  <2> QED
    BY <2>2, <2>3, <2>4, <2>5
<1>5. m \in Nat /\ m \in 1..m /\ m <= 3
  OBVIOUS
<1>6. Closed(s, 0)
  <2>1. \A i \in DOMAIN s : s[i].kind \notin Headers /\ s[i].kind # "rangeValue"
    BY <1>1, <1>4 DEF Headers
  <2>2. Ended(s)
    <3> SUFFICES ASSUME NEW i \in 1..m, s[i].kind \in TreeParts
                 PROVE  \E j \in (i + 1)..m : s[j].kind = "treeEnd" /\ s[j].q = s[i].q
      BY <1>4 DEF Ended
    <3>1. i # m /\ s[i].q = q
      BY <1>1, <1>4 DEF TreeParts
    <3>2. m \in (i + 1)..m
      BY <3>1
    <3> QED
      BY <1>1, <1>4, <3>1, <3>2
  <2> QED
    BY <2>1, <2>2 DEF Closed, Runs, Led
<1>7. Tally(s, EndsOf([q |-> q, kind |-> "tree"])) = 1
  <2>1. Ends([kind |-> "tree"]) = {"treeEnd"} /\ "tree" \in Getters
    BY DEF Ends, Getters
  <2>2. /\ end \in EndsOf([q |-> q, kind |-> "tree"])
        /\ first \notin EndsOf([q |-> q, kind |-> "tree"])
        /\ node \notin EndsOf([q |-> q, kind |-> "tree"])
    BY <1>1, <2>1, EndIs
  <2>3. m \in DOMAIN s /\ \A j \in DOMAIN s : s[j] \in EndsOf([q |-> q, kind |-> "tree"]) => j = m
    BY <1>4, <1>5, <2>2
  <2> QED
    BY <1>4, <2>2, <2>3, TallyOnce
<1>8. \A i \in DOMAIN s : s[i].q = q /\ s[i].kind \in {"treeHeader", "treeNode", "treeEnd"}
  BY <1>1, <1>4
<1>9. AnswerKinds("tree") = {"treeHeader", "treeNode", "treeEnd"}
  BY DEF AnswerKinds, TreeParts, Single
<1>10. \A i \in DOMAIN s : ~IsTrace(s[i])
  BY <1>8 DEF IsTrace
<1> HIDE DEF m
<1>11. m <= Burst
  BY <1>5 DEF Burst
<1> QED
  BY <1>4, <1>6, <1>7, <1>8, <1>9, <1>10, <1>11 DEF AnswerTo

(* What the answers are, by kind of command. *)
LEMMA ComposedCases ==
    \A c \in Command :
        /\ c.kind \in Single => Composed(c) = {<<Reply(c.q, c.kind, 0)>>}
        /\ c.kind = "pairs" => Composed(c) = {<<Reply(c.q, "value", 0)>>}
        /\ c.kind = "ranges" => Composed(c) = {Run(c.q, "header", n) : n \in 0..MaxRange}
        /\ c.kind = "sget" =>
              Composed(c) = {<<Reply(c.q, IF synth THEN "sgetValue" ELSE "missing", 0)>>}
        /\ c.kind = "sgetn" /\ synth =>
              Composed(c) = {Run(c.q, "sgetHeader", n) : n \in 0..MaxRange}
        /\ c.kind = "sgetn" /\ ~synth => Composed(c) = {<<Reply(c.q, "missing", 0)>>}
        /\ c.kind = "tree" => Composed(c) = TreeReplies(c.q)
        /\ c.kind \in Others => Composed(c) = {<<>>}
<1> TAKE c \in Command
<1> DEFINE k == c.kind
           s1 == {<<Reply(c.q, c.kind, 0)>>}
           s2 == {<<Reply(c.q, "value", 0)>>}
           s3 == {Run(c.q, "header", n) : n \in 0..MaxRange}
           s4 == {<<Reply(c.q, IF synth THEN "sgetValue" ELSE "missing", 0)>>}
           s5 == {Run(c.q, "sgetHeader", n) : n \in 0..MaxRange}
           s6 == {<<Reply(c.q, "missing", 0)>>}
           s7 == TreeReplies(c.q)
           s8 == {<<>>}
           answers0 == Composed(c)
<1>1. answers0 = CASE k \in Single -> s1
                   [] k = "pairs" -> s2
                   [] k = "ranges" -> s3
                   [] k = "sget" -> s4
                   [] k = "sgetn" -> IF synth THEN s5 ELSE s6
                   [] k = "tree" -> s7
                   [] k \in Others -> s8
  BY Zenon DEF Composed
<1> HIDE DEF k, s1, s2, s3, s4, s5, s6, s7, s8, answers0
<1>2. /\ k \in Single => answers0 = s1
      /\ k = "pairs" => answers0 = s2
      /\ k = "ranges" => answers0 = s3
      /\ k = "sget" => answers0 = s4
      /\ k = "sgetn" /\ synth => answers0 = s5
      /\ k = "sgetn" /\ ~synth => answers0 = s6
      /\ k = "tree" => answers0 = s7
      /\ k \in Others => answers0 = s8
  BY <1>1 DEF Single, Others
<1> QED
  BY <1>2, Zenon DEF k, s1, s2, s3, s4, s5, s6, s7, s8, answers0

(* World::apply answers a query completely, and nothing else. *)
LEMMA ComposedAnswers ==
    ASSUME NEW c \in Command, NEW answer \in Composed(c)
    PROVE  IF c.kind \in Others THEN answer = <<>> ELSE AnswerTo(answer, c.q, c.kind)
<1>1. c.q \in Nat /\ c.kind \in Getters \cup Others /\ MaxRange \in Nat
  BY BoundAssumption DEF Command
<1>2. CASE c.kind \in Others
  <2>1. Composed(c) = {<<>>}
    BY <1>2, ComposedCases
  <2> QED
    BY <1>2, <2>1
<1>3. CASE c.kind \in Single \cup {"pairs", "sget"} \/ (c.kind = "sgetn" /\ ~synth)
  <2>1. PICK r \in AnswerKinds(c.kind) :
            /\ r \notin {"treeHeader", "treeNode", "rangeValue"} \cup Headers
            /\ answer = <<Reply(c.q, r, 0)>>
    <3>1. CASE c.kind \in Single
      <4>1. Composed(c) = {<<Reply(c.q, c.kind, 0)>>} /\ c.kind \in AnswerKinds(c.kind)
        BY <3>1, ComposedCases DEF AnswerKinds, Single
      <4> QED
        BY <3>1, <4>1 DEF Single, Headers
    <3>2. CASE c.kind = "pairs"
      <4>1. Composed(c) = {<<Reply(c.q, "value", 0)>>} /\ "value" \in AnswerKinds(c.kind)
        BY <3>2, ComposedCases DEF AnswerKinds, Single
      <4> QED
        BY <4>1 DEF Headers
    <3>3. CASE c.kind = "sget"
      <4>1. /\ Composed(c) = {<<Reply(c.q, IF synth THEN "sgetValue" ELSE "missing", 0)>>}
            /\ (IF synth THEN "sgetValue" ELSE "missing") \in AnswerKinds(c.kind)
        BY <3>3, ComposedCases DEF AnswerKinds, Single
      <4> QED
        BY <4>1 DEF Headers
    <3>4. CASE c.kind = "sgetn" /\ ~synth
      <4>1. Composed(c) = {<<Reply(c.q, "missing", 0)>>} /\ "missing" \in AnswerKinds(c.kind)
        BY <3>4, ComposedCases DEF AnswerKinds, Single
      <4> QED
        BY <4>1 DEF Headers
    <3> QED
      BY <1>3, <3>1, <3>2, <3>3, <3>4
  <2>2. c.kind \in Getters /\ c.kind \notin Others
    BY <1>3 DEF Getters, Grouped, Single, Others
  <2> QED
    BY <1>1, <2>1, <2>2, OneReply
<1>4. CASE c.kind = "ranges" \/ (c.kind = "sgetn" /\ synth)
  <2>1. PICK n \in 0..MaxRange, header \in Headers \cap AnswerKinds(c.kind) :
            answer = Run(c.q, header, n)
    <3>1. CASE c.kind = "ranges"
      <4>1. /\ Composed(c) = {Run(c.q, "header", n) : n \in 0..MaxRange}
            /\ "header" \in Headers \cap AnswerKinds(c.kind)
        BY <3>1, ComposedCases DEF AnswerKinds, Single, Headers
      <4> QED
        BY <4>1
    <3>2. CASE c.kind = "sgetn" /\ synth
      <4>1. /\ Composed(c) = {Run(c.q, "sgetHeader", n) : n \in 0..MaxRange}
            /\ "sgetHeader" \in Headers \cap AnswerKinds(c.kind)
        BY <3>2, ComposedCases DEF AnswerKinds, Single, Headers
      <4> QED
        BY <4>1
    <3> QED
      BY <1>4, <3>1, <3>2
  <2>2. c.kind \in {"ranges", "sgetn"} /\ c.kind \notin Others
    BY <1>4 DEF Others
  <2> QED
    BY <1>1, <2>1, <2>2, RangeReplies
<1>5. CASE c.kind = "tree"
  <2>1. answer \in TreeReplies(c.q) /\ c.kind \notin Others
    BY <1>5, ComposedCases DEF Others
  <2> QED
    BY <1>1, <1>5, <2>1, TreeAnswer
<1> QED
  BY <1>1, <1>2, <1>3, <1>4, <1>5 DEF Getters, Grouped

-----------------------------------------------------------------------------
(* The invariant: what follows from it of the getters on record.           *)

(* The invariant holds at the start. *)
LEMMA InitInv == Init => QueryInv
<1> SUFFICES ASSUME Init PROVE QueryInv
  OBVIOUS
<1>1. MaxAsked \in Nat /\ MaxOther \in Nat /\ RingCap \in Nat /\ SchedCap \in Nat
      /\ ReplyCap \in Nat /\ Burst \in Nat
  BY BoundAssumption DEF Burst
<1>2. Types
  <2>1. /\ <<>> \in Seq(Entry) /\ <<>> \in Seq(Command)
        /\ <<>> \in Seq(Deferred) /\ <<>> \in Seq(ReplySet)
    OBVIOUS
  <2>2. answers \in [1..MaxAsked -> {"none", "right"}]
    BY DEF Init
  <2> QED
    BY <2>1, <2>2 DEF Types, IssuingOK, Init
<1>3. Entries /\ Commands /\ Owned /\ InOrder /\ Shape
  BY DEF Init, Entries, Commands, Owned, InOrder, Sorted, Before, Shape, Closed, Runs, Led, Ended
<1>4. Counts
  BY DEF Init, Counts, Halfway
<1>5. Traces = 0
  <2>1. Tally(ring, Deferred) = 0
    BY TallyEmpty DEF Init
  <2> QED
    BY <2>1 DEF Traces, Init
<1>6. Bounds
  BY <1>1, <1>5 DEF Bounds, Init
<1> QED
  BY <1>2, <1>3, <1>4, <1>6 DEF QueryInv

(* The message being issued is one that clients send. *)
LEMMA IssuingIs ==
    ASSUME Types, issuing # Idle, Matched
    PROVE  /\ issuing.kind \in Getters \cup Others
           /\ issuing.size \in Nat \ {0} /\ issuing.left \in 1..issuing.size
           /\ issuing.time \in Nat /\ (issuing.kind = "sync" => issuing.time = Now)
           /\ issuing.kind \notin {"pairs", "ranges", "node"} => issuing.size = 1
           /\ DOMAIN issuing = {"kind", "size", "left", "time"}
           /\ issuing = [kind |-> issuing.kind, size |-> issuing.size,
                         left |-> issuing.left, time |-> issuing.time]
           /\ \E m \in Messages : issuing.kind = m.kind /\ issuing.size = m.size /\ issuing.time = m.time
<1>1. PICK m \in Messages : \E left \in 1..m.size :
          issuing = [kind |-> m.kind, size |-> m.size, left |-> left, time |-> m.time]
  BY DEF Types, IssuingOK
<1>2. PICK left \in 1..m.size :
          issuing = [kind |-> m.kind, size |-> m.size, left |-> left, time |-> m.time]
  BY <1>1
<1>3. /\ m.kind \in Getters \cup Others /\ m.size \in Nat \ {0} /\ m.time \in Nat
      /\ m.size = 1 \/ m.kind \in Grouped \cup {"node"}
  BY MessageAssumption
<1>4. m.kind = "sync" => m.time = Now
  BY DEF Matched
<1>5. m.kind \in {"sget", "sgetn"} => m.size = 1
  BY DEF Matched
<1>6. m.kind \notin {"pairs", "ranges", "node"} => m.size = 1
  BY <1>3, <1>5 DEF Grouped
<1> QED
  BY <1>2, <1>3, <1>4, <1>6

(* Who asks: the entries on record and the getter being issued. *)
LEMMA AskerFields ==
    /\ \A k \in DOMAIN pending : Asker(pending[k]) \in Askers
    /\ Halfway => Issuing \in Askers
    /\ \A o \in Askers : (\E k \in DOMAIN pending : o = Asker(pending[k])) \/ (Halfway /\ o = Issuing)
  BY DEF Askers

(* A getter is known by its number. *)
LEMMA AskersAre ==
    ASSUME Types, Entries, Matched
    PROVE  /\ \A o \in Askers : /\ o.q \in Nat \ {0} /\ o.q <= asked + 1 /\ o.kind \in Getters
                                /\ o = [q |-> o.q, kind |-> o.kind]
                                /\ ~Halfway => o.q <= asked
           /\ \A o, p \in Askers : o.q = p.q => o = p
           /\ Halfway => \A k \in DOMAIN pending : pending[k].q # asked + 1
<1>1. asked \in Nat
  BY DEF Types
<1>2. \A k \in DOMAIN pending : /\ pending[k] \in Entry /\ pending[k].q \in Nat \ {0}
                                /\ pending[k].kind \in Getters /\ pending[k].q <= asked
  <2> TAKE k \in DOMAIN pending
  <2>1. pending[k] \in Entry /\ pending[k].q <= asked
    BY DEF Types, Entries
  <2> QED
    BY <2>1 DEF Entry
<1>3. Halfway => issuing.kind \in Getters
  BY DEF Halfway
<1>4. \A k \in DOMAIN pending : Asker(pending[k]).q = pending[k].q /\ Asker(pending[k]).kind = pending[k].kind
  BY DEF Asker
<1>5. Issuing.q = asked + 1 /\ Issuing.kind = issuing.kind
  BY DEF Issuing
<1>6. ASSUME NEW o \in Askers
      PROVE  /\ o.q \in Nat \ {0} /\ o.q <= asked + 1 /\ o.kind \in Getters
             /\ o = [q |-> o.q, kind |-> o.kind]
             /\ ~Halfway => o.q <= asked
  <2>1. ASSUME NEW k \in DOMAIN pending, o = Asker(pending[k])
        PROVE  /\ o.q \in Nat \ {0} /\ o.q <= asked /\ o.kind \in Getters
               /\ o = [q |-> o.q, kind |-> o.kind]
    BY <1>2, <1>4, <2>1 DEF Asker
  <2>2. CASE Halfway /\ o = Issuing
    BY <1>1, <1>3, <1>5, <2>2 DEF Issuing
  <2> QED
    BY <1>1, <2>1, <2>2, AskerFields
<1>7. ASSUME NEW i \in DOMAIN pending, NEW j \in DOMAIN pending, pending[i].q = pending[j].q
      PROVE  i = j
  <2>1. i \in Nat /\ j \in Nat
    BY DEF Types
  <2>2. ~(i < j) /\ ~(j < i)
    BY <1>2, <1>7 DEF Entries
  <2> QED
    BY <2>1, <2>2
<1>8. ASSUME NEW o \in Askers, NEW p \in Askers, o.q = p.q
      PROVE  o = p
  <2>1. CASE Halfway /\ o = Issuing /\ p = Issuing
    BY <2>1
  <2>2. ASSUME NEW k \in DOMAIN pending, o = Asker(pending[k]), p = Issuing PROVE FALSE
    BY <1>1, <1>2, <1>4, <1>5, <1>8, <2>2
  <2>3. ASSUME NEW k \in DOMAIN pending, p = Asker(pending[k]), o = Issuing PROVE FALSE
    BY <1>1, <1>2, <1>4, <1>5, <1>8, <2>3
  <2>4. ASSUME NEW i \in DOMAIN pending, NEW j \in DOMAIN pending,
               o = Asker(pending[i]), p = Asker(pending[j])
        PROVE  o = p
    <3>1. i = j
      BY <1>4, <1>7, <1>8, <2>4
    <3> QED
      BY <2>4, <3>1
  <2> QED
    BY <2>1, <2>2, <2>3, <2>4, AskerFields
<1>9. \A k \in DOMAIN pending : pending[k].q # asked + 1
  BY <1>1, <1>2
<1> QED
  BY <1>6, <1>8, <1>9

(* Every query and reply of a getter is numbered with its number. *)
LEMMA NumbersAre ==
    ASSUME QueryInv, Matched
    PROVE  /\ \A k \in DOMAIN ring : /\ ring[k].q \in Nat /\ ring[k].q <= asked + 1
                                     /\ ~Halfway => ring[k].q <= asked
           /\ \A k \in DOMAIN replies : /\ replies[k].q \in Nat /\ replies[k].q <= asked + 1
                                        /\ ~Halfway => replies[k].q <= asked
<1>1. /\ asked \in Nat
      /\ \A o \in Askers : o.q \in Nat /\ o.q <= asked + 1 /\ (~Halfway => o.q <= asked)
  BY AskersAre DEF QueryInv, Types
<1>2. ring \in Seq(Command) /\ replies \in Seq(ReplySet)
  BY DEF QueryInv, Types
<1>3. \A k \in DOMAIN ring : Asker(ring[k]).q = ring[k].q
  BY DEF Asker
<1>4. \A k \in DOMAIN ring : ring[k].q = 0 \/ \E o \in Askers : o.q = ring[k].q
  BY <1>3 DEF QueryInv, Commands
<1>5. \A k \in DOMAIN replies : replies[k].q = 0 \/ \E o \in Askers : o.q = replies[k].q
  BY DEF QueryInv, Owned
<1> QED
  BY <1>1, <1>4, <1>5

(* Which commands count as queries of a getter. *)
LEMMA QueryIs ==
    \A c \in Command : \A q : c \in QueriesOf(q) <=> c.q = q
  BY DEF Command, QueriesOf

(* What ends an answer bears its getter's number. *)
LEMMA EndNumber == \A e : \A r \in EndsOf(e) : r.q = e.q
  BY DEF EndsOf

(* What is on its way to a getter is counted by numbers. *)
LEMMA OwingType ==
    ASSUME Types
    PROVE  \A e : /\ Tally(ring, QueriesOf(e.q)) \in Nat /\ Tally(replies, EndsOf(e)) \in Nat
                  /\ Owing(e) \in Nat
<1>1. ring \in Seq(Command) /\ replies \in Seq(ReplySet)
  BY DEF Types
<1> TAKE e
<1>2. Tally(ring, QueriesOf(e.q)) \in Nat
  BY <1>1, TallyType
<1>3. Tally(replies, EndsOf(e)) \in Nat
  BY <1>1, TallyType
<1> QED
  BY <1>2, <1>3 DEF Owing

(* What is on its way to a grouped getter before it is on record: what was pushed. *)
LEMMA IssuingOwed ==
    ASSUME QueryInv, Matched, issuing # Idle, issuing.kind \in Getters
    PROVE  Owing(Issuing) = IF issuing.kind = "node" THEN 0 ELSE issuing.size - issuing.left
<1>1. CASE Halfway
  BY <1>1 DEF QueryInv, Counts, Halfway
<1>2. CASE ~Halfway
  <2>1. issuing.kind = "node" \/ issuing.left = issuing.size
    BY <1>2, IssuingIs DEF QueryInv, Halfway
  <2>2. /\ ring \in Seq(Command) /\ replies \in Seq(ReplySet) /\ asked \in Nat
        /\ DOMAIN ring = 1..Len(ring) /\ DOMAIN replies = 1..Len(replies)
        /\ issuing.left \in Nat
    BY IssuingIs DEF QueryInv, Types
  <2>3. Tally(ring, QueriesOf(asked + 1)) = 0
    <3>1. \A k \in DOMAIN ring : ring[k].q # asked + 1
      BY <1>2, <2>2, NumbersAre
    <3>2. \A k \in 1..Len(ring) : ring[k] \notin QueriesOf(asked + 1)
      BY <2>2, <3>1, CommandFields, QueryIs
    <3> QED
      BY <2>2, <3>2, TallyType
  <2>4. Tally(replies, EndsOf(Issuing)) = 0
    <3>1. \A k \in DOMAIN replies : replies[k].q # asked + 1
      BY <1>2, <2>2, NumbersAre
    <3>2. \A k \in 1..Len(replies) : replies[k] \notin EndsOf(Issuing)
      BY <2>2, <3>1, EndNumber DEF Issuing
    <3> QED
      BY <2>2, <3>2, TallyType
  <2>5. Issuing.q = asked + 1
    BY DEF Issuing
  <2>6. issuing.left \in Int /\ issuing.size \in Int
    BY IssuingIs DEF QueryInv
  <2> QED
    BY <2>1, <2>3, <2>4, <2>5, <2>6 DEF Owing
<1> QED
  BY <1>1, <1>2

-----------------------------------------------------------------------------
(* The steps that move no query and no reply.                              *)

Placed == Entries /\ Commands /\ Owned /\ InOrder /\ Shape /\ Counts

(* Nobody new asks. *)
LEMMA AskersStill ==
    ASSUME UNCHANGED <<pending, asked>>, Halfway' => Halfway /\ issuing' = issuing,
           Halfway => Halfway'
    PROVE  Askers' = Askers
<1>1. CASE Halfway
  <2>1. Halfway' /\ issuing' = issuing
    BY <1>1
  <2> QED
    BY <1>1, <2>1 DEF Askers, Issuing
<1>2. CASE ~Halfway
  <2>1. ~Halfway'
    BY <1>2
  <2> QED
    BY <1>2, <2>1 DEF Askers
<1> QED
  BY <1>1, <1>2

(* A step that touches no queue and no record. *)
LEMMA QuietKeeps ==
    ASSUME QueryInv, UNCHANGED <<pending, asked, ring, replies>>,
           Halfway' => Halfway /\ issuing' = issuing, Halfway => Halfway'
    PROVE  Placed'
<1>1. Askers' = Askers
  BY AskersStill
<1>2. /\ pending' = pending /\ asked' = asked /\ ring' = ring /\ replies' = replies
      /\ Entries /\ Commands /\ Owned /\ InOrder /\ Shape /\ Counts
  BY DEF QueryInv
<1>3. Entries' /\ InOrder'
  BY <1>2 DEF Entries, InOrder
<1>4. Commands' /\ Owned'
  BY <1>1, <1>2 DEF Commands, Owned
<1>5. Shape'
  BY <1>2 DEF Shape, Mid
<1>6. Counts'
  <2>1. \A k \in DOMAIN pending' :
            pending'[k].remaining
                = Tally(ring', QueriesOf(Asker(pending'[k]).q))
                    + Tally(replies', EndsOf(Asker(pending'[k])))
                    + IF pending'[k].inRange > 0 THEN 1 ELSE 0
    BY <1>2 DEF Counts, Owing
  <2>2. ASSUME Halfway'
        PROVE  issuing'.size - issuing'.left
                 = Tally(ring', QueriesOf(Issuing'.q)) + Tally(replies', EndsOf(Issuing'))
    <3>1. Halfway /\ issuing' = issuing /\ Issuing' = Issuing
      BY <1>2, <2>2 DEF Issuing
    <3> QED
      BY <1>2, <3>1 DEF Counts, Owing
  <2> QED
    BY <2>1, <2>2 DEF Counts, Owing
<1> QED
  BY <1>3, <1>4, <1>5, <1>6 DEF Placed

(* A message starts. *)
LEMMA BeginKeeps ==
    ASSUME QueryInv, Matched, NEW m \in Messages, Begin(m)
    PROVE  QueryInv'
<1>1. /\ issuing = Idle /\ UNCHANGED <<pending, asked, others, answers, ring, replies, held, synth, traced>>
      /\ issuing' = [kind |-> m.kind, size |-> m.size, left |-> m.size, time |-> m.time]
  BY DEF Begin, engine
<1>2. m.kind \in Getters \cup Others /\ m.size \in Nat \ {0} /\ m.time \in Nat
  BY MessageAssumption
<1>3. ~Halfway /\ ~Halfway'
  BY <1>1, <1>2 DEF Halfway
<1>4. Placed'
  BY <1>1, <1>3, QuietKeeps
<1>5. Types'
  <2>1. IssuingOK'
    <3>1. m.size \in 1..m.size
      BY <1>2
    <3> QED
      BY <1>1, <3>1 DEF IssuingOK
  <2> QED
    BY <1>1, <2>1 DEF QueryInv, Types
<1>6. Bounds'
  <2>1. Traces' = Traces
    BY <1>1 DEF Traces
  <2>2. IF issuing'.kind \in Getters
        THEN asked' + (IF issuing'.kind = "node" THEN issuing'.left ELSE 1) <= MaxAsked
        ELSE others' < MaxOther
    BY <1>1 DEF Begin
  <2> QED
    BY <1>1, <2>1, <2>2 DEF QueryInv, Bounds
<1> QED
  BY <1>4, <1>5, <1>6 DEF QueryInv, Placed

(* A message fails before its first element. *)
LEMMA FailKeeps ==
    ASSUME QueryInv, Matched, Fail
    PROVE  QueryInv'
<1>1. /\ issuing # Idle /\ issuing' = Idle
      /\ UNCHANGED <<pending, others, answers, ring, replies, held, synth, traced>>
      /\ issuing.left = issuing.size \/ issuing.kind = "node"
      /\ asked' = IF issuing.kind \in Grouped /\ issuing.left < issuing.size
                  THEN asked + 1 ELSE asked
  BY DEF Fail, engine, Matched
<1>2. issuing.left \in Nat /\ issuing.size \in Nat
  BY <1>1, IssuingIs DEF QueryInv
<1>3. ~(issuing.kind \in Grouped /\ issuing.left < issuing.size)
  BY <1>1, <1>2 DEF Grouped
<1>4. asked' = asked
  BY <1>1, <1>3
<1>5. ~Halfway /\ ~Halfway'
  BY <1>1, <1>2 DEF Halfway
<1>6. Placed'
  BY <1>1, <1>4, <1>5, QuietKeeps
<1>7. Types'
  BY <1>1, <1>4 DEF QueryInv, Types, IssuingOK
<1>8. Bounds'
  <2>1. Traces' = Traces
    BY <1>1 DEF Traces
  <2> QED
    BY <1>1, <1>4, <2>1 DEF QueryInv, Bounds
<1> QED
  BY <1>6, <1>7, <1>8 DEF QueryInv, Placed

(* A synth ends. *)
LEMMA SynthEndsKeeps ==
    ASSUME QueryInv, SynthEnds
    PROVE  QueryInv'
<1>1. /\ UNCHANGED <<issuing, pending, asked, others, answers, ring, replies, held>>
      /\ synth' = FALSE /\ traced' = FALSE
  BY DEF SynthEnds, host
<1>2. Placed'
  <2>1. Halfway' <=> Halfway
    BY <1>1 DEF Halfway
  <2> QED
    BY <1>1, <2>1, QuietKeeps
<1>3. Types'
  BY <1>1 DEF QueryInv, Types, IssuingOK
<1>4. Bounds'
  <2> DEFINE t == Tally(ring, Deferred)
             h == Len(held)
  <2>1. t \in Nat /\ h \in Nat
    BY TallyType DEF QueryInv, Types
  <2>2. Traces = t + h + (IF traced THEN 1 ELSE 0) /\ Traces' = t + h + 0
    BY <1>1 DEF Traces
  <2> HIDE DEF t, h
  <2>3. Traces \in Nat /\ Traces' \in Nat /\ Traces' <= Traces
    BY <2>1, <2>2
  <2>4. ReplyCap + Burst \in Nat /\ others \in Nat /\ Len(replies) \in Nat
    BY BoundAssumption DEF QueryInv, Types, Burst
  <2>5. Traces <= others /\ Len(replies) + 2 * Traces <= (ReplyCap + Burst) + 2 * others
    BY DEF QueryInv, Bounds
  <2>6. Traces' <= others /\ Len(replies) + 2 * Traces' <= (ReplyCap + Burst) + 2 * others
    BY <2>3, <2>4, <2>5
  <2> QED
    BY <1>1, <2>6 DEF QueryInv, Bounds
<1> QED
  BY <1>2, <1>3, <1>4 DEF QueryInv, Placed

-----------------------------------------------------------------------------
(* The dispatcher pushes a command.                                        *)

(* One that answers nothing. *)
LEMMA PushOther ==
    ASSUME QueryInv, Matched, Push, issuing.kind \in Others
    PROVE  QueryInv'
<1> DEFINE c == [q |-> 0, kind |-> issuing.kind, time |-> TimeOf(issuing.kind, issuing.time)]
<1>1. /\ issuing # Idle /\ issuing.kind \notin Getters /\ issuing.kind # "node"
  BY DEF Push, Others, Getters, Grouped, Single
<1>2. issuing.left = 1 /\ issuing.time \in Nat
  BY <1>1, IssuingIs DEF QueryInv, Others
<1>3. c \in Deferred /\ c \in Command /\ c.q = 0 /\ c.kind \in Others
  BY <1>2 DEF Deferred, Command, TimeOf, Now
<1>4. /\ ring' = Append(ring, c) /\ Len(ring) < RingCap
      /\ issuing' = Idle /\ others' = others + 1
      /\ UNCHANGED <<pending, asked, answers, replies, held, synth, traced>>
  BY <1>1, <1>2 DEF Push, engine
<1> HIDE DEF c
<1> DEFINE n == Len(ring)
<1>5. /\ ring \in Seq(Command) /\ n \in Nat /\ ring' \in Seq(Command) /\ Len(ring') = n + 1
      /\ DOMAIN ring = 1..n /\ DOMAIN ring' = 1..(n + 1) /\ ring'[n + 1] = c
      /\ \A k \in 1..n : ring'[k] = ring[k]
      /\ \A k \in 1..(n + 1) : k \in 1..n \/ k = n + 1
  BY <1>3, <1>4 DEF QueryInv, Types
<1>6. ~Halfway /\ ~Halfway'
  BY <1>1, <1>4 DEF Halfway
<1>7. Askers' = Askers
  BY <1>4, <1>6, AskersStill
<1> HIDE DEF n
<1>8. Types'
  BY <1>4, <1>5 DEF QueryInv, Types, IssuingOK
<1>9. Entries' /\ Owned' /\ Shape'
  BY <1>4, <1>7 DEF QueryInv, Entries, Owned, Shape, Mid
<1>10. Commands'
  BY <1>3, <1>5, <1>7 DEF QueryInv, Commands
<1>11. InOrder'
  <2>1. Sorted(replies) /\ Sorted(ring) /\ Before(replies, ring)
    BY DEF QueryInv, InOrder
  <2>2. Sorted(ring')
    <3> SUFFICES ASSUME NEW i \in 1..(n + 1), NEW j \in 1..(n + 1), i < j, ring'[j].q # 0
                 PROVE  ring'[i].q <= ring'[j].q
      BY <1>5 DEF Sorted
    <3>1. j # n + 1
      BY <1>3, <1>5
    <3>2. i \in 1..n /\ j \in 1..n
      BY <1>5, <3>1
    <3> QED
      BY <1>5, <2>1, <3>2 DEF Sorted
  <2>3. Before(replies', ring')
    BY <1>3, <1>4, <1>5, <2>1 DEF Before
  <2> QED
    BY <1>4, <2>1, <2>2, <2>3 DEF InOrder
<1>12. ASSUME NEW e, e.q \in Nat \ {0} PROVE Owing(e)' = Owing(e)
  <2>1. c \notin QueriesOf(e.q)
    BY <1>3, <1>12, QueryIs
  <2>2. Tally(ring', QueriesOf(e.q)) = Tally(ring, QueriesOf(e.q)) + 0
    BY <1>3, <1>4, <1>5, <2>1, TallyAppend
  <2>3. Tally(ring, QueriesOf(e.q)) \in Nat
    BY <1>5, TallyType
  <2> QED
    BY <1>4, <2>2, <2>3 DEF Owing
<1>13. Counts'
  <2>1. \A k \in DOMAIN pending : Asker(pending[k]).q \in Nat \ {0}
    BY AskersAre, AskerFields DEF QueryInv
  <2>2. \A k \in DOMAIN pending : Owing(Asker(pending[k]))' = Owing(Asker(pending[k]))
    BY <1>4, <1>12, <2>1
  <2> QED
    BY <1>4, <1>6, <2>2 DEF QueryInv, Counts
<1>14. Bounds'
  <2> DEFINE t == Tally(ring, Deferred)
             tp == Tally(ring', Deferred)
             h == Len(held)
             d == IF traced THEN 1 ELSE 0
  <2>1. t \in Nat /\ h \in Nat /\ d \in Nat /\ others \in Nat /\ Len(replies) \in Nat
    BY TallyType DEF QueryInv, Types
  <2>2. tp = t + 1
    BY <1>3, <1>4, <1>5, TallyAppend
  <2>3. Traces = t + h + d /\ Traces' = tp + h + d
    BY <1>4 DEF Traces
  <2>4. ReplyCap + Burst \in Nat /\ RingCap \in Nat /\ MaxOther \in Nat
    BY BoundAssumption DEF Burst
  <2>5. Traces <= others /\ Len(replies) + 2 * Traces <= (ReplyCap + Burst) + 2 * others
    BY DEF QueryInv, Bounds
  <2> HIDE DEF t, tp, h, d
  <2>6. Traces' <= others + 1
        /\ Len(replies) + 2 * Traces' <= (ReplyCap + Burst) + 2 * (others + 1)
    BY <2>1, <2>2, <2>3, <2>4, <2>5
  <2>7. others < MaxOther /\ others + 1 <= MaxOther /\ Len(ring') <= RingCap
    BY <1>1, <1>4, <1>5, <2>1, <2>4 DEF QueryInv, Bounds, n
  <2> QED
    BY <1>4, <2>6, <2>7 DEF QueryInv, Bounds
<1> QED
  BY <1>8, <1>9, <1>10, <1>11, <1>13, <1>14 DEF QueryInv

(* What will be on its way to a getter after the step. *)
OwingThen(e) == Tally(ring', QueriesOf(e.q)) + Tally(replies', EndsOf(e))

(* Counts of the next state, said by OwingThen. *)
LEMMA CountsThen ==
    ASSUME \A k \in DOMAIN pending' :
               pending'[k].remaining
                   = OwingThen(Asker(pending'[k])) + IF pending'[k].inRange > 0 THEN 1 ELSE 0,
           Halfway' => issuing'.size - issuing'.left = OwingThen(Issuing')
    PROVE  Counts'
  BY DEF Counts, Owing, OwingThen

(* One query of a getter. *)
LEMMA PushGetter ==
    ASSUME QueryInv, Matched, Push, issuing.kind \in Getters
    PROVE  QueryInv'
<1> DEFINE kind == issuing.kind
           ends == kind = "node" \/ issuing.left = 1
           c == [q |-> asked + 1, kind |-> kind, time |-> TimeOf(kind, issuing.time)]
           e == [q |-> asked + 1, kind |-> kind, inRange |-> 0,
                 remaining |-> IF kind = "node" THEN 1 ELSE issuing.size, own |-> TRUE]
           n == Len(ring)
           p == Len(pending)
           owed == IF kind = "node" THEN 0 ELSE issuing.size - issuing.left
           X == Issuing
<1>1. issuing # Idle /\ kind \notin Others
  BY DEF Push, Others, Getters, Grouped, Single
<1>2. /\ issuing.size \in Nat \ {0} /\ issuing.left \in 1..issuing.size /\ issuing.time \in Nat
      /\ kind = "sync" => issuing.time = Now
      /\ kind \notin {"pairs", "ranges", "node"} => issuing.size = 1
      /\ issuing = [kind |-> issuing.kind, size |-> issuing.size,
                    left |-> issuing.left, time |-> issuing.time]
      /\ \E m \in Messages : issuing.kind = m.kind /\ issuing.size = m.size /\ issuing.time = m.time
  BY <1>1, IssuingIs DEF QueryInv
<1>3. asked \in Nat /\ n \in Nat /\ p \in Nat
  BY DEF QueryInv, Types
<1>4. /\ c \in Command /\ c.q = asked + 1 /\ c.kind = kind /\ c.time = Now
      /\ c \notin Deferred
  <2>1. TimeOf(kind, issuing.time) = Now
    BY <1>2 DEF TimeOf
  <2> QED
    BY <1>1, <1>3, <2>1 DEF Command, Deferred, Now
<1>5. /\ e \in Entry /\ e.q = asked + 1 /\ e.kind = kind /\ e.inRange = 0
      /\ e.remaining = (IF kind = "node" THEN 1 ELSE issuing.size)
      /\ Asker(e) = Issuing
  BY <1>2, <1>3 DEF Entry, Asker, Issuing
<1>6. /\ ring' = Append(ring, c) /\ n < RingCap /\ others' = others
      /\ IF ends THEN pending' = Append(pending, e) /\ asked' = asked + 1
         ELSE pending' = pending /\ asked' = asked
      /\ issuing' = IF issuing.left = 1 THEN Idle ELSE [issuing EXCEPT !.left = @ - 1]
      /\ UNCHANGED <<answers, replies, held, synth, traced>>
  BY <1>1 DEF Push, engine
<1>7. /\ ring \in Seq(Command) /\ ring' \in Seq(Command) /\ Len(ring') = n + 1
      /\ DOMAIN ring = 1..n /\ DOMAIN ring' = 1..(n + 1) /\ ring'[n + 1] = c
      /\ \A k \in 1..n : ring'[k] = ring[k]
      /\ \A k \in 1..(n + 1) : k \in 1..n \/ k = n + 1
  <2>1. ring \in Seq(Command)
    BY DEF QueryInv, Types
  <2> HIDE DEF c
  <2> QED
    BY <1>4, <1>6, <2>1
<1>8. /\ pending \in Seq(Entry) /\ DOMAIN pending = 1..p
      /\ ends => /\ pending' \in Seq(Entry) /\ DOMAIN pending' = 1..(p + 1) /\ pending' # <<>>
                 /\ pending'[p + 1] = e /\ \A k \in 1..p : pending'[k] = pending[k]
                 /\ \A k \in 1..(p + 1) : k \in 1..p \/ k = p + 1
  <2>1. pending \in Seq(Entry)
    BY DEF QueryInv, Types
  <2> HIDE DEF e, ends
  <2> QED
    BY <1>5, <1>6, <2>1, SMTT(30)
<1>9. ends => ~Halfway'
  BY <1>6 DEF Halfway, Idle
<1>10. ~ends => /\ Halfway' /\ Issuing' = Issuing /\ issuing'.left = issuing.left - 1
                /\ issuing'.size = issuing.size /\ issuing'.kind = kind
                /\ issuing' = [kind |-> issuing.kind, size |-> issuing.size,
                               left |-> issuing.left - 1, time |-> issuing.time]
  <2> SUFFICES ASSUME ~ends
               PROVE  /\ Halfway' /\ Issuing' = Issuing /\ issuing'.left = issuing.left - 1
                      /\ issuing'.size = issuing.size /\ issuing'.kind = kind
                      /\ issuing' = [kind |-> issuing.kind, size |-> issuing.size,
                                     left |-> issuing.left - 1, time |-> issuing.time]
    OBVIOUS
  <2>1. issuing' = [kind |-> issuing.kind, size |-> issuing.size,
                    left |-> issuing.left - 1, time |-> issuing.time]
    BY <1>2, <1>6
  <2>2. issuing' # Idle
    BY <1>1, <2>1 DEF Idle, Getters, Grouped, Single
  <2> QED
    BY <1>2, <1>6, <2>1, <2>2 DEF Halfway, Issuing
<1>11. owed \in Nat /\ OwingThen(Issuing) = owed + 1
  <2>1. Owing(Issuing) = owed
    BY <1>1, IssuingOwed
  <2>2. c \in QueriesOf(asked + 1) /\ Issuing.q = asked + 1
    BY <1>4, QueryIs DEF Issuing
  <2> DEFINE a == Tally(ring, QueriesOf(asked + 1))
             ap == Tally(ring', QueriesOf(asked + 1))
             b == Tally(replies, EndsOf(Issuing))
  <2>3. a \in Nat /\ b \in Nat
    BY TallyType DEF QueryInv, Types
  <2>4. ap = a + 1
    <3> HIDE DEF c
    <3> QED
      BY <1>6, <1>7, <1>4, <2>2, TallyAppend
  <2>5. Owing(Issuing) = a + b
    BY <2>2 DEF Owing
  <2>6. OwingThen(Issuing) = ap + b
    BY <1>6, <2>2 DEF OwingThen
  <2> HIDE DEF a, ap, b, owed
  <2>7. owed = a + b /\ OwingThen(Issuing) = owed + 1 /\ owed \in Nat
    BY <2>1, <2>3, <2>4, <2>5, <2>6
  <2> QED
    BY <2>7
<1>12. ASSUME NEW o, o.q # asked + 1 PROVE OwingThen(o) = Owing(o)
  <2>1. c \notin QueriesOf(o.q)
    BY <1>4, <1>12, QueryIs
  <2>2. Tally(ring', QueriesOf(o.q)) = Tally(ring, QueriesOf(o.q)) + 0
    <3> HIDE DEF c
    <3> QED
      BY <1>4, <1>6, <1>7, <2>1, TallyAppend
  <2>3. Tally(ring, QueriesOf(o.q)) \in Nat
    BY <1>7, TallyType
  <2> QED
    BY <1>6, <2>2, <2>3 DEF Owing, OwingThen
<1>13. \A k \in 1..p : /\ pending[k].q \in Nat \ {0} /\ pending[k].q <= asked
                       /\ Asker(pending[k]).q = pending[k].q
                       /\ pending[k].remaining = Owing(Asker(pending[k]))
                                                   + IF pending[k].inRange > 0 THEN 1 ELSE 0
  <2> TAKE k \in 1..p
  <2>1. pending[k] \in Entry
    BY <1>8
  <2> QED
    BY <1>8, <2>1 DEF QueryInv, Entries, Entry, Asker, Counts
<1> HIDE DEF c, e, n, p, owed, kind
<1>14. Askers' = Askers \cup {Issuing}
  <2>1. CASE ends
    <3>1. Askers' = {Asker(pending'[k]) : k \in 1..(p + 1)}
      BY <1>8, <1>9, <2>1 DEF Askers
    <3>2. \A k \in 1..p : Asker(pending'[k]) = Asker(pending[k])
      BY <1>8, <2>1
    <3>3. Asker(pending'[p + 1]) = Issuing
      BY <1>5, <1>8, <2>1
    <3>4. p + 1 \in 1..(p + 1) /\ 1..p \subseteq 1..(p + 1)
      BY <1>3
    <3>5. Askers' = {Asker(pending[k]) : k \in 1..p} \cup {Issuing}
      BY <1>8, <2>1, <3>1, <3>2, <3>3, <3>4
    <3> QED
      BY <1>8, <3>5 DEF Askers
  <2>2. CASE ~ends
    BY <1>6, <1>10, <2>2 DEF Askers
  <2> QED
    BY <2>1, <2>2
<1>15. Types'
  <2>1. IssuingOK'
    <3>1. CASE issuing.left = 1
      BY <1>6, <3>1 DEF IssuingOK
    <3>2. CASE issuing.left # 1
      <4>1. issuing' = [kind |-> issuing.kind, size |-> issuing.size,
                        left |-> issuing.left - 1, time |-> issuing.time]
        BY <1>2, <1>6, <3>2
      <4>2. issuing.left - 1 \in 1..issuing.size
        BY <1>2, <3>2
      <4>3. PICK m \in Messages : issuing.kind = m.kind /\ issuing.size = m.size /\ issuing.time = m.time
        BY <1>2
      <4> QED
        BY <4>1, <4>2, <4>3 DEF IssuingOK
    <3> QED
      BY <3>1, <3>2
  <2>2. pending' \in Seq(Entry)
    BY <1>6, <1>8
  <2>3. asked' \in Nat
    BY <1>3, <1>6
  <2> QED
    BY <1>6, <1>7, <2>1, <2>2, <2>3 DEF QueryInv, Types
<1>16. Entries'
  <2>1. CASE ends
    <3>1. ASSUME NEW i \in 1..(p + 1), NEW j \in 1..(p + 1), i < j
          PROVE  pending'[i].q < pending'[j].q
      <4>1. i \in 1..p
        BY <1>3, <3>1
      <4>2. CASE j \in 1..p
        BY <1>8, <2>1, <3>1, <4>1, <4>2 DEF QueryInv, Entries
      <4>3. CASE j = p + 1
        BY <1>3, <1>5, <1>8, <1>13, <2>1, <4>1, <4>3
      <4> QED
        BY <1>8, <2>1, <4>2, <4>3
    <3>2. ASSUME NEW k \in 1..(p + 1)
          PROVE  /\ pending'[k].q <= asked + 1
                 /\ k > 1 => pending'[k].inRange = 0
                 /\ pending'[k].kind \notin {"pairs", "ranges"} => pending'[k].remaining = 1
      <4>1. CASE k \in 1..p
        <5>1. pending'[k] = pending[k]
          BY <1>8, <2>1, <4>1
        <5>2. /\ pending[k].q \in Nat /\ pending[k].q <= asked
              /\ k > 1 => pending[k].inRange = 0
              /\ pending[k].kind \notin {"pairs", "ranges"} => pending[k].remaining = 1
          BY <1>8, <1>13, <4>1 DEF QueryInv, Entries
        <5> QED
          BY <1>3, <5>1, <5>2
      <4>2. CASE k = p + 1
        BY <1>2, <1>3, <1>5, <1>8, <2>1, <4>2 DEF kind
      <4> QED
        BY <1>8, <2>1, <4>1, <4>2
    <3> QED
      BY <1>6, <1>8, <2>1, <3>1, <3>2 DEF Entries
  <2>2. CASE ~ends
    BY <1>6, <2>2 DEF QueryInv, Entries
  <2> QED
    BY <2>1, <2>2
<1>17. Commands'
  <2> SUFFICES ASSUME NEW k \in 1..(n + 1)
               PROVE  IF ring'[k].kind \in Others THEN ring'[k].q = 0
                      ELSE ring'[k].time = Now /\ Asker(ring'[k]) \in Askers'
    BY <1>7 DEF Commands
  <2>1. CASE k \in 1..n
    BY <1>7, <1>14, <2>1 DEF QueryInv, Commands
  <2>2. CASE k = n + 1
    <3>1. Asker(c) = Issuing
      BY <1>4 DEF Asker, Issuing, kind
    <3> QED
      BY <1>1, <1>4, <1>7, <1>14, <2>2, <3>1
  <2> QED
    BY <1>7, <2>1, <2>2
<1>18. Owned'
  BY <1>6, <1>14 DEF QueryInv, Owned
<1>19. InOrder'
  <2>1. Sorted(replies) /\ Sorted(ring) /\ Before(replies, ring)
    BY DEF QueryInv, InOrder
  <2>2. /\ \A k \in 1..n : ring[k].q <= asked + 1
        /\ \A k \in DOMAIN replies : replies[k].q <= asked + 1
    BY <1>7, NumbersAre
  <2>3. Sorted(ring')
    <3> SUFFICES ASSUME NEW i \in 1..(n + 1), NEW j \in 1..(n + 1), i < j, ring'[j].q # 0
                 PROVE  ring'[i].q <= ring'[j].q
      BY <1>7 DEF Sorted
    <3>1. i \in 1..n
      BY <1>3
    <3>2. CASE j = n + 1
      BY <1>4, <1>7, <2>2, <3>1, <3>2
    <3>3. CASE j \in 1..n
      BY <1>7, <2>1, <3>1, <3>3 DEF Sorted
    <3> QED
      BY <1>7, <3>2, <3>3
  <2>4. Before(replies', ring')
    <3> SUFFICES ASSUME NEW i \in DOMAIN replies, NEW j \in 1..(n + 1), ring'[j].q # 0
                 PROVE  replies[i].q <= ring'[j].q
      BY <1>6, <1>7 DEF Before
    <3>1. CASE j = n + 1
      BY <1>4, <1>7, <2>2, <3>1
    <3>2. CASE j \in 1..n
      BY <1>7, <2>1, <3>2 DEF Before
    <3> QED
      BY <1>7, <3>1, <3>2
  <2> QED
    BY <1>6, <2>1, <2>3, <2>4 DEF InOrder
<1>20. Shape'
  <2>1. Closed(replies, Mid) /\ (pending # <<>> => Begun(replies, Mid, pending[1].q))
    BY DEF QueryInv, Shape
  <2>2. Mid' = Mid /\ (pending # <<>> => pending'[1] = pending[1])
    <3>1. CASE ends
      <4>1. CASE pending = <<>>
        BY <1>5, <1>8, <3>1, <4>1 DEF Mid, p
      <4>2. CASE pending # <<>>
        <5>1. 1 \in 1..p
          BY <1>8, <4>2 DEF p
        <5> QED
          BY <1>8, <3>1, <4>2, <5>1 DEF Mid
      <4> QED
        BY <4>1, <4>2
    <3>2. CASE ~ends
      BY <1>6, <3>2 DEF Mid
    <3> QED
      BY <3>1, <3>2
  <2>3. pending = <<>> => \A q : Begun(replies, Mid, q)
    <3>1. Len(replies) \in Nat
      BY DEF QueryInv, Types
    <3> QED
      BY <3>1 DEF Begun, Mid
  <2> QED
    BY <1>6, <2>1, <2>2, <2>3 DEF Shape
<1>21. Counts'
  <2>1. ASSUME NEW k \in 1..p
        PROVE  pending[k].remaining = OwingThen(Asker(pending[k]))
                                        + IF pending[k].inRange > 0 THEN 1 ELSE 0
    <3>1. Asker(pending[k]).q # asked + 1
      BY <1>3, <1>13
    <3>2. OwingThen(Asker(pending[k])) = Owing(Asker(pending[k]))
      BY <1>12, <3>1
    <3> QED
      BY <1>13, <3>2
  <2>2. CASE ends
    <3>1. e.remaining = owed + 1
      BY <1>2, <1>5, <2>2 DEF owed, kind
    <3>2. e.remaining = OwingThen(Asker(e)) + IF e.inRange > 0 THEN 1 ELSE 0
      BY <1>5, <1>11, <3>1
    <3>3. ASSUME NEW k \in 1..(p + 1)
          PROVE  pending'[k].remaining = OwingThen(Asker(pending'[k]))
                                           + IF pending'[k].inRange > 0 THEN 1 ELSE 0
      <4>1. CASE k \in 1..p
        BY <1>8, <2>1, <2>2, <4>1
      <4>2. CASE k = p + 1
        BY <1>8, <2>2, <3>2, <4>2
      <4> QED
        BY <1>8, <2>2, <4>1, <4>2
    <3> QED
      BY <1>8, <1>9, <2>2, <3>3, CountsThen
  <2>3. CASE ~ends
    <3>1. issuing'.size - issuing'.left = owed + 1
      BY <1>2, <1>10, <2>3 DEF owed, kind
    <3>2. issuing'.size - issuing'.left = OwingThen(Issuing')
      BY <1>10, <1>11, <2>3, <3>1
    <3> QED
      BY <1>6, <1>8, <2>1, <2>3, <3>2, CountsThen
  <2> QED
    BY <2>2, <2>3
<1>22. Bounds'
  <2> DEFINE t == Tally(ring, Deferred)
             tp == Tally(ring', Deferred)
  <2>1. t \in Nat
    BY <1>7, TallyType
  <2>2. tp = t + 0
    BY <1>4, <1>6, <1>7, TallyAppend
  <2>3. Traces' = Traces
    <3> HIDE DEF t, tp
    <3>1. tp = t
      BY <2>1, <2>2
    <3> QED
      BY <1>6, <3>1 DEF Traces, t, tp
  <2>4. asked + (IF kind = "node" THEN issuing.left ELSE 1) <= MaxAsked
    BY <1>1 DEF QueryInv, Bounds, kind
  <2>5. MaxAsked \in Nat /\ RingCap \in Nat /\ issuing.left \in Nat \ {0}
    BY <1>2, BoundAssumption
  <2>6. asked' <= MaxAsked
    BY <1>3, <1>6, <2>4, <2>5, SMTT(30) DEF QueryInv, Bounds
  <2>7. issuing' # Idle =>
          IF issuing'.kind \in Getters
          THEN asked' + (IF issuing'.kind = "node" THEN issuing'.left ELSE 1) <= MaxAsked
          ELSE others' < MaxOther
    <3> SUFFICES ASSUME issuing.left # 1
                 PROVE  asked' + (IF issuing'.kind = "node" THEN issuing'.left ELSE 1) <= MaxAsked
                        /\ issuing'.kind \in Getters
      BY <1>6
    <3>1. issuing'.kind = kind /\ issuing'.left = issuing.left - 1
      BY <1>2, <1>6 DEF kind
    <3> QED
      BY <1>3, <1>6, <2>4, <2>5, <3>1 DEF kind
  <2>8. Len(ring') <= RingCap
    BY <1>3, <1>6, <1>7, <2>5
  <2> QED
    BY <1>6, <2>3, <2>6, <2>7, <2>8 DEF QueryInv, Bounds
<1> QED
  BY <1>15, <1>16, <1>17, <1>18, <1>19, <1>20, <1>21, <1>22 DEF QueryInv

(* An element is pushed. *)
LEMMA PushKeeps ==
    ASSUME QueryInv, Matched, Push
    PROVE  QueryInv'
<1>1. issuing.kind \in Getters \cup Others
  BY IssuingIs DEF QueryInv, Push
<1> QED
  BY <1>1, PushOther, PushGetter

-----------------------------------------------------------------------------
(* The audio thread takes a command and answers it.                        *)

(* Order at the two ends of a queue. *)
LEMMA SortedConcat ==
    ASSUME NEW s \in Seq(ReplySet), NEW t \in Seq(ReplySet), Sorted(s), Sorted(t), Before(s, t)
    PROVE  Sorted(s \o t)
<1> DEFINE u == s \o t
           a == Len(s)
           b == Len(t)
<1>1. /\ a \in Nat /\ b \in Nat /\ DOMAIN s = 1..a /\ DOMAIN t = 1..b /\ DOMAIN u = 1..(a + b)
      /\ \A i \in 1..a : u[i] = s[i]
      /\ \A i \in 1..b : u[a + i] = t[i]
  BY ConcatReplies
<1> HIDE DEF u, a, b
<1>2. \A i \in 1..(a + b) : i \in 1..a \/ (i - a \in 1..b /\ u[i] = t[i - a])
  <2> TAKE i \in 1..(a + b)
  <2>1. i \in 1..a \/ (i - a \in 1..b /\ a + (i - a) = i)
    BY <1>1
  <2> QED
    BY <1>1, <2>1
<1> SUFFICES ASSUME NEW i \in 1..(a + b), NEW j \in 1..(a + b), i < j, u[j].q # 0
             PROVE  u[i].q <= u[j].q
  BY <1>1 DEF Sorted, u
<1>3. CASE i \in 1..a /\ j \in 1..a
  BY <1>1, <1>3 DEF Sorted
<1>4. CASE i \in 1..a /\ j - a \in 1..b /\ u[j] = t[j - a]
  BY <1>1, <1>4 DEF Before
<1>5. CASE /\ i - a \in 1..b /\ u[i] = t[i - a]
           /\ j - a \in 1..b /\ u[j] = t[j - a]
  <2>1. i - a < j - a
    BY <1>1
  <2> QED
    BY <1>1, <1>5, <2>1, ZenonT(30) DEF Sorted
<1>6. j \in 1..a => i \in 1..a
  BY <1>1
<1> QED
  BY <1>2, <1>3, <1>4, <1>5, <1>6

(* Order without the head. *)
LEMMA SortedTail ==
    ASSUME NEW S, NEW s \in Seq(S), s # <<>>, Sorted(s)
    PROVE  /\ Sorted(Tail(s))
           /\ \A j \in DOMAIN Tail(s) : Tail(s)[j].q # 0 => Head(s).q <= Tail(s)[j].q
<1> DEFINE t == Tail(s)
           b == Len(t)
<1>1. /\ b \in Nat /\ DOMAIN s = 1..(b + 1) /\ DOMAIN t = 1..b /\ Head(s) = s[1]
      /\ \A i \in 1..b : t[i] = s[i + 1]
  OBVIOUS
<1> HIDE DEF t, b
<1>2. \A i \in 1..b : i + 1 \in 1..(b + 1) /\ 1 < i + 1 /\ 1 \in 1..(b + 1)
  BY <1>1
<1>3. ASSUME NEW i \in 1..b, NEW j \in 1..b, i < j, t[j].q # 0 PROVE t[i].q <= t[j].q
  <2>1. i + 1 < j + 1
    BY <1>1, <1>3
  <2> QED
    BY <1>1, <1>2, <1>3, <2>1 DEF Sorted
<1>4. ASSUME NEW j \in 1..b, t[j].q # 0 PROVE s[1].q <= t[j].q
  BY <1>1, <1>2, <1>4 DEF Sorted
<1> QED
  BY <1>1, <1>3, <1>4 DEF Sorted, t

(* Order between two queues when the second moves on. *)
LEMMA BeforeTail ==
    ASSUME NEW S, NEW s, NEW t \in Seq(S), t # <<>>, Before(s, t)
    PROVE  Before(s, Tail(t))
<1>1. DOMAIN Tail(t) = 1..Len(Tail(t)) /\ \A j \in DOMAIN Tail(t) : j + 1 \in DOMAIN t /\ Tail(t)[j] = t[j + 1]
  OBVIOUS
<1> QED
  BY <1>1 DEF Before

(* Complete answers at the end leave the shape of what was there. *)
LEMMA ShapeConcat ==
    ASSUME Types, Shape, NEW t \in Seq(ReplySet), Closed(t, 0),
           replies' = replies \o t, pending' = pending
    PROVE  Shape'
<1>1. Mid' = Mid
  BY DEF Mid
<1>2. replies \in Seq(ReplySet) /\ pending \in Seq(Entry)
  BY DEF Types
<1>3. Mid \in Nat
  <2>1. CASE pending = <<>>
    BY <2>1 DEF Mid
  <2>2. CASE pending # <<>>
    <3>1. pending[1] \in Entry
      BY <1>2, <2>2
    <3> QED
      BY <2>2, <3>1 DEF Mid, Entry
  <2> QED
    BY <2>1, <2>2
<1>4. Closed(replies', Mid)
  BY <1>2, <1>3, ClosedConcat DEF Shape
<1>5. ASSUME NEW q, Begun(replies, Mid, q) PROVE Begun(replies', Mid, q)
  <2> DEFINE u == replies \o t
             a == Len(replies)
  <2>1. /\ a \in Nat /\ Len(t) \in Nat /\ Len(u) = a + Len(t)
        /\ \A i \in 1..a : u[i] = replies[i]
    BY <1>2, ConcatReplies
  <2>2. Mid <= a /\ \A i \in 1..Mid : i \in 1..a
    BY <1>3, <1>5, <2>1 DEF Begun
  <2>3. Mid <= Len(u)
    BY <1>3, <2>1, <2>2
  <2> HIDE DEF u
  <2> QED
    BY <1>5, <2>1, <2>2, <2>3 DEF Begun, u
<1> QED
  BY <1>1, <1>4, <1>5 DEF Shape

(* The scheduler takes a command. *)
LEMMA ScheduledIs ==
    ASSUME held \in Seq(Deferred), NEW c \in Deferred
    PROVE  Scheduled(c) \in Seq(Deferred) /\ Len(Scheduled(c)) = Len(held) + 1
<1> DEFINE n == Len(held)
           places == {k \in DOMAIN held : held[k].time <= c.time}
           b == Cardinality(places)
           x == SubSeq(held, 1, (b + 1) - 1)
           y == SubSeq(held, b + 1, n)
<1>1. n \in Nat /\ DOMAIN held = 1..n
  OBVIOUS
<1>2. b \in 0..n
  <2>1. IsFiniteSet(1..n) /\ Cardinality(1..n) = n
    BY <1>1, FS_Interval, SMTT(30)
  <2>2. places \in SUBSET (1..n)
    BY <1>1
  <2> HIDE DEF places
  <2>3. IsFiniteSet(places) /\ Cardinality(places) <= n
    BY <2>1, <2>2, FS_Subset
  <2>4. Cardinality(places) \in Nat
    BY <2>3, FS_CardinalityType
  <2> QED
    BY <1>1, <2>3, <2>4
<1> HIDE DEF n, b
<1>3. /\ x \in Seq(Deferred) /\ Len(x) = b
      /\ y \in Seq(Deferred) /\ Len(y) = n - b
  <2>1. x = SubSeq(held, 1, b)
    BY <1>2
  <2>2. \A i \in 1..b : held[i] \in Deferred
    BY <1>1, <1>2
  <2>3. \A i \in (b + 1)..n : held[i] \in Deferred
    BY <1>1, <1>2
  <2>4. /\ SubSeq(held, 1, b) \in Seq(Deferred)
        /\ Len(SubSeq(held, 1, b)) = IF 1 <= b THEN b - 1 + 1 ELSE 0
    BY <1>2, <2>2, SubSeqProperties
  <2>5. /\ SubSeq(held, b + 1, n) \in Seq(Deferred)
        /\ Len(SubSeq(held, b + 1, n)) = IF b + 1 <= n THEN n - (b + 1) + 1 ELSE 0
    BY <1>1, <1>2, <2>3, SubSeqProperties
  <2> QED
    BY <1>1, <1>2, <2>1, <2>4, <2>5
<1>4. Scheduled(c) = x \o <<c>> \o y
  BY DEF Scheduled, InsertAt, n, b
<1> HIDE DEF x, y
<1>5. x \o <<c>> \o y \in Seq(Deferred) /\ Len(x \o <<c>> \o y) = (b + 1) + (n - b)
  BY <1>1, <1>2, <1>3
<1>6. (b + 1) + (n - b) = n + 1
  BY <1>1, <1>2
<1>7. Scheduled(c) \in Seq(Deferred) /\ Len(Scheduled(c)) = n + 1
  BY <1>4, <1>5, <1>6
<1> QED
  BY <1>7 DEF n

(* What has to be dumped stays in bound when nothing is added. *)
LEMMA BoundsKept ==
    ASSUME QueryInv, UNCHANGED <<asked, others, issuing>>,
           Len(ring') <= RingCap, Len(held') <= SchedCap,
           Traces' \in Nat, Traces' <= Traces, Traces \in Nat,
           \/ Len(replies') = Len(replies)
           \/ Len(replies') \in Nat /\ Len(replies') <= Len(replies)
           \/ Len(replies) <= ReplyCap /\ Len(replies') \in Nat /\ Len(replies') <= Len(replies) + Burst
    PROVE  Bounds'
<1>1. ReplyCap \in Nat /\ Burst \in Nat /\ others \in Nat /\ Len(replies) \in Nat
  BY BoundAssumption DEF QueryInv, Types, Burst
<1>2. Traces <= others /\ Len(replies) + 2 * Traces <= ReplyCap + Burst + 2 * others
  BY DEF QueryInv, Bounds
<1>3. Traces' <= others /\ Len(replies') + 2 * Traces' <= ReplyCap + Burst + 2 * others
  <2>1. Traces' <= others
    BY <1>1, <1>2
  <2>2. CASE Len(replies') = Len(replies)
    BY <1>1, <1>2, <2>2
  <2>4. CASE Len(replies') \in Nat /\ Len(replies') <= Len(replies)
    BY <1>1, <1>2, <2>1, <2>4
  <2>3. CASE Len(replies) <= ReplyCap /\ Len(replies') \in Nat /\ Len(replies') <= Len(replies) + Burst
    BY <1>1, <2>1, <2>3
  <2> QED
    BY <2>1, <2>2, <2>3, <2>4
<1> QED
  BY <1>3 DEF QueryInv, Bounds

(* The command ring without its first command, which answers nothing. *)
LEMMA RingShrinks ==
    ASSUME QueryInv, Matched, ring # <<>>, ring' = Tail(ring), Head(ring).kind \in Others,
           UNCHANGED <<host, replies>>
    PROVE  Placed'
<1>1. /\ UNCHANGED <<issuing, pending, asked, replies>>
      /\ ring \in Seq(Command) /\ ring' \in Seq(Command)
  BY DEF host, QueryInv, Types
<1>2. Head(ring).q = 0 /\ Head(ring) \in Command
  <2>1. 1 \in DOMAIN ring /\ Head(ring) = ring[1]
    BY <1>1
  <2> QED
    BY <1>1, <2>1 DEF QueryInv, Commands
<1>3. (Halfway' <=> Halfway) /\ Askers' = Askers /\ Issuing' = Issuing
  <2>1. Halfway' <=> Halfway
    BY <1>1 DEF Halfway
  <2> QED
    BY <1>1, <2>1, AskersStill DEF Issuing
<1>4. \A k \in DOMAIN ring' : k + 1 \in DOMAIN ring /\ ring'[k] = ring[k + 1]
  BY <1>1
<1>5. Entries' /\ Owned' /\ Shape'
  BY <1>1, <1>3 DEF QueryInv, Entries, Owned, Shape, Mid
<1>6. Commands'
  BY <1>3, <1>4 DEF QueryInv, Commands
<1>7. InOrder'
  BY <1>1, SortedTail, BeforeTail DEF QueryInv, InOrder
<1>8. ASSUME NEW e, e.q \in Nat \ {0} PROVE OwingThen(e) = Owing(e)
  <2>1. Head(ring) \notin QueriesOf(e.q)
    BY <1>2, <1>8, QueryIs
  <2>2. Tally(ring, QueriesOf(e.q)) = Tally(ring', QueriesOf(e.q)) + 0
    BY <1>1, <2>1, TallyTail
  <2>3. Tally(ring', QueriesOf(e.q)) \in Nat
    BY <1>1, TallyType
  <2> QED
    BY <1>1, <2>2, <2>3 DEF Owing, OwingThen
<1>9. Counts'
  <2>1. \A o \in Askers : OwingThen(o) = Owing(o)
    BY <1>8, AskersAre DEF QueryInv
  <2>2. \A k \in DOMAIN pending : OwingThen(Asker(pending[k])) = Owing(Asker(pending[k]))
    BY <2>1, AskerFields
  <2>3. Halfway => OwingThen(Issuing) = Owing(Issuing)
    BY <2>1, AskerFields
  <2>4. \A k \in DOMAIN pending' :
            pending'[k].remaining
                = OwingThen(Asker(pending'[k])) + IF pending'[k].inRange > 0 THEN 1 ELSE 0
    BY <1>1, <2>2 DEF QueryInv, Counts
  <2>5. Halfway' => issuing'.size - issuing'.left = OwingThen(Issuing')
    BY <1>1, <1>3, <2>3 DEF QueryInv, Counts
  <2> QED
    BY <2>4, <2>5, CountsThen
<1> QED
  BY <1>5, <1>6, <1>7, <1>9 DEF Placed

(* What is still to be dumped is counted by a number. *)
LEMMA TracesType ==
    ASSUME Types
    PROVE  Traces \in Nat /\ Tally(ring, Deferred) \in Nat /\ Len(held) \in Nat
<1> DEFINE t == Tally(ring, Deferred)
           h == Len(held)
<1>1. t \in Nat /\ h \in Nat
  BY TallyType DEF Types
<1>2. Traces = t + h + (IF traced THEN 1 ELSE 0)
  BY DEF Traces
<1> HIDE DEF t, h
<1>3. Traces \in Nat
  BY <1>1, <1>2
<1> QED
  BY <1>1, <1>3 DEF t, h

(* The first command of the ring. *)
LEMMA FirstCommand ==
    ASSUME QueryInv, Matched, ring # <<>>
    PROVE  /\ Head(ring) \in Command /\ Head(ring) = ring[1] /\ 1 \in DOMAIN ring
           /\ IF Head(ring).kind \in Others THEN Head(ring) \in Deferred
              ELSE /\ Head(ring).kind \in Getters /\ Head(ring).time = Now
                   /\ Asker(Head(ring)) \in Askers /\ Head(ring).q \in Nat \ {0}
           /\ Tail(ring) \in Seq(Command) /\ Len(Tail(ring)) <= RingCap
<1>1. ring \in Seq(Command) /\ Len(ring) <= RingCap /\ RingCap \in Nat
  BY BoundAssumption DEF QueryInv, Types, Bounds
<1>2. /\ Head(ring) \in Command /\ Head(ring) = ring[1] /\ 1 \in DOMAIN ring
      /\ Tail(ring) \in Seq(Command) /\ Len(Tail(ring)) <= RingCap
  BY <1>1
<1>3. CASE Head(ring).kind \in Others
  <2>1. Head(ring).q = 0
    BY <1>2, <1>3 DEF QueryInv, Commands
  <2> QED
    BY <1>2, <1>3, <2>1 DEF Command, Deferred
<1>4. CASE Head(ring).kind \notin Others
  <2>1. Head(ring).time = Now /\ Asker(Head(ring)) \in Askers
    BY <1>2, <1>4 DEF QueryInv, Commands
  <2>2. Asker(Head(ring)).q \in Nat \ {0}
    BY <2>1, AskersAre DEF QueryInv
  <2>3. Head(ring).q \in Nat \ {0} /\ Head(ring).kind \in Getters
    BY <1>2, <1>4, <2>2 DEF Asker, Command
  <2> QED
    BY <1>2, <1>4, <2>1, <2>3
<1> QED
  BY <1>3, <1>4

(* What is no query gets no answer. *)
LEMMA NoAnswer ==
    ASSUME QueryInv, NEW c \in Deferred, NEW rest \in Seq(Deferred), Apply(c, rest)
    PROVE  /\ replies' = replies /\ held' \in {<<>>, rest} /\ Len(held') <= Len(rest)
           /\ held' \in Seq(Deferred)
           /\ synth' \in BOOLEAN /\ traced' \in BOOLEAN
<1>1. c \in Command /\ c.kind \in Others
  BY DEF Deferred, Command
<1>2. \A answer \in Composed(c) : answer = <<>>
  BY <1>1, ComposedCases
<1>3. replies' = replies \o <<>>
  BY <1>2 DEF Apply
<1>4. replies \in Seq(ReplySet)
  BY DEF QueryInv, Types
<1>5. held' \in {<<>>, rest}
  BY DEF Apply
<1>6. Len(held') <= Len(rest) /\ held' \in Seq(Deferred)
  <2>1. Len(rest) \in Nat /\ <<>> \in Seq(Deferred) /\ Len(<<>>) = 0
    OBVIOUS
  <2>2. CASE held' = <<>>
    BY <2>1, <2>2
  <2>3. CASE held' = rest
    BY <2>1, <2>3
  <2> QED
    BY <1>5, <2>2, <2>3
<1>7. synth' \in BOOLEAN
  BY DEF Apply
<1>8. traced' \in BOOLEAN
  BY DEF Apply
<1> QED
  BY <1>3, <1>4, <1>5, <1>6, <1>7, <1>8

(* A command that asks for nothing leaves the ring. *)
LEMMA DrainOther ==
    ASSUME QueryInv, Matched, DrainCommand, Head(ring).kind \in Others
    PROVE  QueryInv'
<1> DEFINE c == Head(ring)
<1>1. /\ ring # <<>> /\ ring' = Tail(ring)
      /\ UNCHANGED <<issuing, pending, asked, others, answers>>
  BY DEF DrainCommand, host
<1>2. /\ c \in Deferred /\ c \in Command /\ ring' \in Seq(Command) /\ Len(ring') <= RingCap
  BY <1>1, FirstCommand
<1>3. /\ held \in Seq(Deferred) /\ ring \in Seq(Command) /\ replies \in Seq(ReplySet)
      /\ synth \in BOOLEAN /\ traced \in BOOLEAN
      /\ Len(held) <= SchedCap /\ SchedCap \in Nat /\ Len(held) \in Nat
  BY BoundAssumption DEF QueryInv, Types, Bounds
<1>4. \/ /\ held' = Scheduled(c) /\ Len(held) < SchedCap
         /\ UNCHANGED <<replies, synth, traced>>
      \/ Apply(c, held)
  BY DEF DrainCommand
<1> HIDE DEF c
<1>5. /\ replies' = replies /\ held' \in Seq(Deferred)
      /\ synth' \in BOOLEAN /\ traced' \in BOOLEAN /\ Len(held') <= SchedCap
      /\ Len(held') + (IF traced' THEN 1 ELSE 0) <= Len(held) + (IF traced THEN 1 ELSE 0) + 1
  <2>1. CASE held' = Scheduled(c) /\ Len(held) < SchedCap /\ UNCHANGED <<replies, synth, traced>>
    <3>1. Scheduled(c) \in Seq(Deferred) /\ Len(Scheduled(c)) = Len(held) + 1
      BY <1>2, <1>3, ScheduledIs
    <3> QED
      BY <1>3, <2>1, <3>1
  <2>2. CASE Apply(c, held)
    <3>1. /\ replies' = replies /\ held' \in Seq(Deferred) /\ Len(held') <= Len(held)
          /\ synth' \in BOOLEAN /\ traced' \in BOOLEAN
      BY <1>2, <1>3, <2>2, NoAnswer
    <3>2. Len(held') \in Nat
      BY <3>1
    <3> QED
      BY <1>3, <3>1, <3>2
  <2> QED
    BY <1>4, <2>1, <2>2
<1>6. Placed'
  BY <1>1, <1>5, RingShrinks DEF host
<1>7. Types'
  BY <1>1, <1>2, <1>5 DEF QueryInv, Types, IssuingOK
<1>8. Bounds'
  <2> DEFINE t == Tally(ring, Deferred)
             tp == Tally(ring', Deferred)
             h == Len(held)
             hp == Len(held')
             d == IF traced THEN 1 ELSE 0
             dp == IF traced' THEN 1 ELSE 0
  <2>1. t \in Nat /\ tp \in Nat /\ h \in Nat /\ hp \in Nat /\ d \in Nat /\ dp \in Nat
    BY <1>2, <1>3, <1>5, TallyType
  <2>2. t = tp + 1
    BY <1>1, <1>2, <1>3, TallyTail DEF c
  <2>3. hp + dp <= h + d + 1
    BY <1>5
  <2>4. Traces = t + h + d /\ Traces' = tp + hp + dp
    BY DEF Traces
  <2> HIDE DEF t, tp, h, hp, d, dp
  <2>5. Traces \in Nat /\ Traces' \in Nat /\ Traces' <= Traces
    BY <2>1, <2>2, <2>3, <2>4
  <2> QED
    BY <1>1, <1>2, <1>5, <2>5, BoundsKept
<1> QED
  BY <1>6, <1>7, <1>8 DEF QueryInv, Placed

(* A held command comes due. *)
LEMMA ApplyDueKeeps ==
    ASSUME QueryInv, Matched, ApplyDue
    PROVE  QueryInv'
<1> DEFINE c == Head(held)
           rest == Tail(held)
<1>1. /\ held # <<>> /\ Apply(c, rest)
      /\ UNCHANGED <<issuing, pending, asked, others, answers, ring>>
  BY DEF ApplyDue, host
<1>2. /\ held \in Seq(Deferred) /\ ring \in Seq(Command) /\ Len(held) <= SchedCap
      /\ Len(held) \in Nat /\ SchedCap \in Nat /\ Len(ring) <= RingCap /\ traced \in BOOLEAN
  BY BoundAssumption DEF QueryInv, Types, Bounds
<1>3. c \in Deferred /\ rest \in Seq(Deferred) /\ Len(rest) + 1 = Len(held)
  BY <1>1, <1>2
<1> HIDE DEF c, rest
<1>4. /\ replies' = replies /\ held' \in Seq(Deferred) /\ Len(held') <= Len(rest)
      /\ synth' \in BOOLEAN /\ traced' \in BOOLEAN
  BY <1>1, <1>3, NoAnswer
<1>5. Placed'
  <2>1. Halfway' <=> Halfway
    BY <1>1 DEF Halfway
  <2> QED
    BY <1>1, <1>4, <2>1, QuietKeeps
<1>6. Types'
  BY <1>1, <1>4 DEF QueryInv, Types, IssuingOK
<1>7. Bounds'
  <2> DEFINE t == Tally(ring, Deferred)
             h == Len(held)
             hp == Len(held')
             d == IF traced THEN 1 ELSE 0
             dp == IF traced' THEN 1 ELSE 0
  <2>1. t \in Nat /\ h \in Nat /\ hp \in Nat /\ d \in 0..1 /\ dp \in 0..1
    BY <1>2, <1>4, TallyType
  <2>2. hp + 1 <= h
    <3>1. Len(rest) \in Nat
      BY <1>3
    <3> QED
      BY <1>2, <1>3, <1>4, <2>1, <3>1
  <2>3. Traces = t + h + d /\ Traces' = t + hp + dp
    BY <1>1 DEF Traces
  <2>4. Len(held') <= SchedCap
    BY <1>2, <2>1, <2>2
  <2> HIDE DEF t, h, hp, d, dp
  <2>5. Traces \in Nat /\ Traces' \in Nat /\ Traces' <= Traces
    BY <2>1, <2>2, <2>3
  <2> QED
    BY <1>1, <1>2, <1>4, <2>4, <2>5, BoundsKept
<1> QED
  BY <1>5, <1>6, <1>7 DEF QueryInv, Placed

(* A query is answered: its answer takes its place. *)
LEMMA DrainQuery ==
    ASSUME QueryInv, Matched, DrainCommand, Head(ring).kind \notin Others
    PROVE  QueryInv'
<1> DEFINE c == Head(ring)
<1>1. /\ ring # <<>> /\ ring' = Tail(ring) /\ Len(replies) <= ReplyCap
      /\ UNCHANGED <<issuing, pending, asked, others, answers>>
  BY DEF DrainCommand, host, Flushed
<1>2. /\ c \in Command /\ c = ring[1] /\ 1 \in DOMAIN ring
      /\ c.kind \in Getters /\ c.kind \notin Others /\ c.time = Now
      /\ Asker(c) \in Askers /\ c.q \in Nat \ {0}
      /\ ring' \in Seq(Command) /\ Len(ring') <= RingCap
  BY <1>1, FirstCommand
<1>3. Apply(c, held)
  BY <1>2 DEF DrainCommand
<1> HIDE DEF c
<1>4. PICK t \in Composed(c) : replies' = replies \o t
  BY <1>3 DEF Apply
<1>5. AnswerTo(t, c.q, c.kind)
  BY <1>2, ComposedAnswers
<1>6. /\ t \in Seq(ReplySet) /\ Len(t) <= Burst /\ Closed(t, 0)
      /\ \A i \in DOMAIN t : t[i].q = c.q /\ ~IsTrace(t[i]) /\ t[i].kind \in AnswerKinds(c.kind)
      /\ Tally(t, EndsOf(Asker(c))) = 1
  BY <1>5 DEF AnswerTo, Asker
<1>7. held' = held /\ synth' \in BOOLEAN /\ traced' \in BOOLEAN /\ (traced' => traced)
  <2>1. c.kind # "clear" /\ c.kind # "trace"
    BY <1>2 DEF Others
  <2> QED
    BY <1>3, <2>1 DEF Apply
<1>8. /\ ring \in Seq(Command) /\ replies \in Seq(ReplySet) /\ replies' \in Seq(ReplySet)
      /\ held \in Seq(Deferred) /\ Len(held) <= SchedCap
      /\ Len(replies') = Len(replies) + Len(t) /\ Len(t) \in Nat /\ Len(replies) \in Nat
  <2>1. ring \in Seq(Command) /\ replies \in Seq(ReplySet) /\ held \in Seq(Deferred) /\ Len(held) <= SchedCap
    BY DEF QueryInv, Types, Bounds
  <2> QED
    BY <1>4, <1>6, <2>1, ConcatReplies
<1>9. (Halfway' <=> Halfway) /\ Askers' = Askers /\ Issuing' = Issuing
  <2>1. Halfway' <=> Halfway
    BY <1>1 DEF Halfway
  <2> QED
    BY <1>1, <2>1, AskersStill DEF Issuing
<1>10. Types'
  BY <1>1, <1>2, <1>7, <1>8 DEF QueryInv, Types, IssuingOK
<1>11. Entries'
  BY <1>1 DEF QueryInv, Entries
<1>12. Commands'
  <2>1. \A k \in DOMAIN ring' : k + 1 \in DOMAIN ring /\ ring'[k] = ring[k + 1]
    BY <1>1, <1>8
  <2> QED
    BY <1>9, <2>1 DEF QueryInv, Commands
<1> DEFINE a == Len(replies)
           b == Len(t)
<1>13. /\ a \in Nat /\ b \in Nat /\ DOMAIN replies = 1..a /\ DOMAIN t = 1..b
       /\ DOMAIN replies' = 1..(a + b)
       /\ \A i \in 1..a : replies'[i] = replies[i]
       /\ \A i \in 1..b : replies'[a + i] = t[i]
  BY <1>4, <1>6, <1>8, ConcatReplies
<1>14. \A i \in 1..(a + b) : \/ i \in 1..a /\ replies'[i] = replies[i]
                             \/ i - a \in 1..b /\ replies'[i] = t[i - a]
  <2> HIDE DEF a, b
  <2> TAKE i \in 1..(a + b)
  <2>1. i \in 1..a \/ (i - a \in 1..b /\ a + (i - a) = i)
    BY <1>13
  <2> QED
    BY <1>13, <2>1
<1> HIDE DEF a, b
<1>15. Owned'
  <2> SUFFICES ASSUME NEW k \in 1..(a + b)
               PROVE  IF IsTrace(replies'[k]) THEN replies'[k].q = 0
                      ELSE \E o \in Askers : o.q = replies'[k].q /\ replies'[k].kind \in AnswerKinds(o.kind)
    BY <1>9, <1>13 DEF Owned, IsTrace
  <2>1. CASE k \in 1..a /\ replies'[k] = replies[k]
    BY <1>13, <2>1 DEF QueryInv, Owned
  <2>2. CASE k - a \in 1..b /\ replies'[k] = t[k - a]
    <3>1. Asker(c).q = c.q /\ Asker(c).kind = c.kind
      BY DEF Asker
    <3>2. k - a \in DOMAIN t
      BY <1>13, <2>2
    <3>3. /\ replies'[k].q = c.q /\ ~IsTrace(replies'[k])
          /\ replies'[k].kind \in AnswerKinds(c.kind)
      BY <1>6, <2>2, <3>2
    <3> QED
      BY <1>2, <3>1, <3>3
  <2> QED
    BY <1>14, <2>1, <2>2
<1>16. InOrder'
  <2>1. Sorted(replies) /\ Sorted(ring) /\ Before(replies, ring)
    BY DEF QueryInv, InOrder
  <2>2. Sorted(t)
    <3>1. \A i \in DOMAIN t : t[i].q = c.q /\ c.q <= c.q
      BY <1>2, <1>6
    <3> QED
      BY <3>1 DEF Sorted
  <2>3. \A i \in DOMAIN replies : replies[i].q <= c.q
    BY <1>2, <2>1 DEF Before
  <2>4. Before(replies, t)
    BY <1>6, <2>3 DEF Before
  <2>5. Sorted(replies')
    BY <1>4, <1>6, <1>8, <2>1, <2>2, <2>4, SortedConcat
  <2>6. /\ Sorted(ring')
        /\ \A j \in DOMAIN ring' : ring'[j].q # 0 => c.q <= ring'[j].q
    BY <1>1, <1>8, <2>1, SortedTail DEF c
  <2>7. Before(replies, ring')
    BY <1>1, <1>8, <2>1, BeforeTail
  <2>8. Before(replies', ring')
    <3> SUFFICES ASSUME NEW i \in 1..(a + b), NEW j \in DOMAIN ring', ring'[j].q # 0
                 PROVE  replies'[i].q <= ring'[j].q
      BY <1>13 DEF Before
    <3>1. CASE i \in 1..a /\ replies'[i] = replies[i]
      BY <1>13, <2>7, <3>1 DEF Before
    <3>2. CASE i - a \in 1..b /\ replies'[i] = t[i - a]
      BY <1>6, <1>13, <2>6, <3>2, ZenonT(30)
    <3> QED
      BY <1>14, <3>1, <3>2
  <2> QED
    BY <2>5, <2>6, <2>8 DEF InOrder
<1>17. Shape'
  BY <1>1, <1>4, <1>6, ShapeConcat DEF QueryInv
<1>18. ASSUME NEW o \in Askers PROVE OwingThen(o) = Owing(o)
  <2> DEFINE x == Tally(ring, QueriesOf(o.q))
             xp == Tally(ring', QueriesOf(o.q))
             y == Tally(replies, EndsOf(o))
             yp == Tally(replies', EndsOf(o))
             z == Tally(t, EndsOf(o))
             one == IF c.q = o.q THEN 1 ELSE 0
  <2>1. x = xp + one
    <3>1. c \in QueriesOf(o.q) <=> c.q = o.q
      BY <1>2, QueryIs
    <3> QED
      BY <1>1, <1>8, <3>1, TallyTail DEF c
  <2>2. yp = y + z
    BY <1>4, <1>6, <1>8, TallyConcat
  <2>3. z = one
    <3>1. CASE c.q = o.q
      <4>1. o = Asker(c)
        <5>1. Asker(c).q = o.q
          BY <3>1 DEF Asker
        <5> QED
          BY <1>2, <5>1, AskersAre DEF QueryInv
      <4> QED
        BY <1>6, <3>1, <4>1
    <3>2. CASE c.q # o.q
      <4>1. \A i \in 1..Len(t) : t[i] \notin EndsOf(o)
        BY <1>6, <1>13, <3>2, EndNumber DEF b
      <4>2. z = 0
        BY <1>6, <4>1, TallyType
      <4> QED
        BY <3>2, <4>2
    <3> QED
      BY <3>1, <3>2
  <2>4. x \in Nat /\ xp \in Nat /\ y \in Nat /\ yp \in Nat /\ one \in Nat
    BY <1>2, <1>8, TallyType
  <2>5. Owing(o) = x + y /\ OwingThen(o) = xp + yp
    BY DEF Owing, OwingThen
  <2> HIDE DEF x, xp, y, yp, z, one
  <2> QED
    BY <2>1, <2>2, <2>3, <2>4, <2>5
<1>19. Counts'
  <2>1. \A k \in DOMAIN pending : OwingThen(Asker(pending[k])) = Owing(Asker(pending[k]))
    BY <1>18, AskerFields
  <2>2. Halfway => OwingThen(Issuing) = Owing(Issuing)
    BY <1>18, AskerFields
  <2>3. \A k \in DOMAIN pending' :
            pending'[k].remaining
                = OwingThen(Asker(pending'[k])) + IF pending'[k].inRange > 0 THEN 1 ELSE 0
    BY <1>1, <2>1 DEF QueryInv, Counts
  <2>4. Halfway' => issuing'.size - issuing'.left = OwingThen(Issuing')
    BY <1>1, <1>9, <2>2 DEF QueryInv, Counts
  <2> QED
    BY <2>3, <2>4, CountsThen
<1>20. Bounds'
  <2> DEFINE u == Tally(ring, Deferred)
             up == Tally(ring', Deferred)
             h == Len(held)
             d == IF traced THEN 1 ELSE 0
             dp == IF traced' THEN 1 ELSE 0
  <2>1. u \in Nat /\ up \in Nat /\ h \in Nat /\ d \in 0..1 /\ dp \in 0..1 /\ dp <= d
    BY <1>2, <1>7, <1>8, TallyType
  <2>2. c \notin Deferred
    BY <1>2 DEF Deferred
  <2>3. u = up + 0
    BY <1>1, <1>2, <1>8, <2>2, TallyTail DEF c
  <2>4. Traces = u + h + d /\ Traces' = up + h + dp
    BY <1>7 DEF Traces
  <2> HIDE DEF u, up, h, d, dp
  <2>5. Traces \in Nat /\ Traces' \in Nat /\ Traces' <= Traces
    BY <2>1, <2>3, <2>4
  <2>6. Len(replies') \in Nat /\ Len(replies') <= Len(replies) + Burst
    <3>1. Burst \in Nat
      BY BoundAssumption DEF Burst
    <3> QED
      BY <1>6, <1>8, <3>1
  <2> QED
    BY <1>1, <1>2, <1>7, <1>8, <2>5, <2>6, BoundsKept
<1> QED
  BY <1>10, <1>11, <1>12, <1>15, <1>16, <1>17, <1>19, <1>20 DEF QueryInv

(* A dump follows what is there and answers nobody. *)
LEMMA DrainTraceKeeps ==
    ASSUME QueryInv, Matched, DrainTrace
    PROVE  QueryInv'
<1> DEFINE first == Reply(0, "traceHeader", 0)
           second == Reply(0, "traceEnd", 0)
           t == <<first, second>>
<1>1. /\ UNCHANGED <<issuing, pending, asked, others, answers, ring, held, synth>>
      /\ traced /\ traced' = FALSE /\ replies' = replies \o t
  BY DEF DrainTrace, host
<1>2. /\ first \in ReplySet /\ first.q = 0 /\ first.kind = "traceHeader"
      /\ second \in ReplySet /\ second.q = 0 /\ second.kind = "traceEnd"
  BY ReplyType DEF ReplyKinds, TraceKinds
<1> HIDE DEF first, second
<1>3. /\ t \in Seq(ReplySet) /\ Len(t) = 2 /\ DOMAIN t = 1..2
      /\ \A i \in 1..2 : t[i].q = 0 /\ t[i].kind \in TraceKinds
  <2>1. t \in Seq(ReplySet) /\ Len(t) = 2 /\ t[1] = first /\ t[2] = second /\ DOMAIN t = 1..2
    BY <1>2
  <2>2. \A i \in 1..2 : i = 1 \/ i = 2
    OBVIOUS
  <2> HIDE DEF t
  <2> QED
    BY <1>2, <2>1, <2>2 DEF TraceKinds
<1> HIDE DEF t
<1>4. Closed(t, 0)
  BY <1>3 DEF Closed, Runs, Led, Ended, TraceKinds, Headers, TreeParts
<1>5. /\ ring \in Seq(Command) /\ replies \in Seq(ReplySet) /\ Len(held) \in Nat
  BY DEF QueryInv, Types
<1> DEFINE a == Len(replies)
<1>6. /\ a \in Nat /\ DOMAIN replies = 1..a /\ DOMAIN replies' = 1..(a + 2)
      /\ replies' \in Seq(ReplySet) /\ Len(replies') = a + 2
      /\ \A i \in 1..a : replies'[i] = replies[i]
      /\ \A i \in 1..2 : replies'[a + i] = t[i]
  <2>1. /\ replies \o t \in Seq(ReplySet) /\ Len(replies \o t) = a + Len(t)
        /\ a \in Nat /\ DOMAIN replies = 1..a /\ DOMAIN (replies \o t) = 1..(a + Len(t))
        /\ \A i \in 1..a : (replies \o t)[i] = replies[i]
        /\ \A i \in 1..Len(t) : (replies \o t)[a + i] = t[i]
    BY <1>3, <1>5, ConcatReplies
  <2> HIDE DEF a
  <2> QED
    BY <1>1, <1>3, <2>1
<1>7. \A i \in 1..(a + 2) : \/ i \in 1..a /\ replies'[i] = replies[i]
                            \/ i \notin 1..a /\ replies'[i].q = 0 /\ replies'[i].kind \in TraceKinds
  <2> HIDE DEF a
  <2> TAKE i \in 1..(a + 2)
  <2>1. i \in 1..a \/ (i \notin 1..a /\ i - a \in 1..2 /\ a + (i - a) = i)
    BY <1>6
  <2> QED
    BY <1>3, <1>6, <2>1
<1> HIDE DEF a
<1>8. (Halfway' <=> Halfway) /\ Askers' = Askers /\ Issuing' = Issuing
  <2>1. Halfway' <=> Halfway
    BY <1>1 DEF Halfway
  <2> QED
    BY <1>1, <2>1, AskersStill DEF Issuing
<1>9. Types'
  BY <1>1, <1>6 DEF QueryInv, Types, IssuingOK
<1>10. Entries' /\ Commands'
  BY <1>1, <1>8 DEF QueryInv, Entries, Commands
<1>11. Owned'
  <2> SUFFICES ASSUME NEW k \in 1..(a + 2)
               PROVE  IF IsTrace(replies'[k]) THEN replies'[k].q = 0
                      ELSE \E o \in Askers : o.q = replies'[k].q /\ replies'[k].kind \in AnswerKinds(o.kind)
    BY <1>6, <1>8 DEF Owned, IsTrace
  <2>1. CASE k \in 1..a /\ replies'[k] = replies[k]
    BY <1>6, <2>1 DEF QueryInv, Owned
  <2>2. CASE replies'[k].q = 0 /\ replies'[k].kind \in TraceKinds
    BY <2>2 DEF IsTrace, TraceKinds
  <2> QED
    BY <1>7, <2>1, <2>2
<1>12. InOrder'
  <2>1. Sorted(replies) /\ Sorted(ring) /\ Before(replies, ring)
    BY DEF QueryInv, InOrder
  <2>2. Sorted(replies')
    <3>1. Sorted(t) /\ Before(replies, t)
      BY <1>3 DEF Sorted, Before
    <3> QED
      BY <1>1, <1>3, <1>5, <2>1, <3>1, SortedConcat
  <2>3. Before(replies', ring')
    <3> SUFFICES ASSUME NEW i \in 1..(a + 2), NEW j \in DOMAIN ring, ring[j].q # 0
                 PROVE  replies'[i].q <= ring[j].q
      BY <1>1, <1>6 DEF Before
    <3>1. CASE i \in 1..a /\ replies'[i] = replies[i]
      BY <1>6, <2>1, <3>1 DEF Before
    <3>2. CASE replies'[i].q = 0
      <4>1. ring[j].q \in Nat
        BY <1>5, CommandFields
      <4> QED
        BY <3>2, <4>1
    <3> QED
      BY <1>7, <3>1, <3>2
  <2> QED
    BY <1>1, <2>1, <2>2, <2>3 DEF InOrder
<1>13. Shape'
  BY <1>1, <1>3, <1>4, ShapeConcat DEF QueryInv
<1>14. ASSUME NEW o \in Askers PROVE OwingThen(o) = Owing(o)
  <2>1. o.q # 0
    BY AskersAre DEF QueryInv
  <2>2. \A i \in 1..Len(t) : t[i] \notin EndsOf(o)
    BY <1>3, <2>1, EndNumber
  <2>3. Tally(t, EndsOf(o)) = 0
    BY <1>3, <2>2, TallyType
  <2>4. Tally(replies', EndsOf(o)) = Tally(replies, EndsOf(o)) + 0
    BY <1>1, <1>3, <1>5, <2>3, TallyConcat
  <2>5. Tally(replies, EndsOf(o)) \in Nat
    BY <1>5, TallyType
  <2> QED
    BY <1>1, <2>4, <2>5 DEF Owing, OwingThen
<1>15. Counts'
  <2>1. \A k \in DOMAIN pending : OwingThen(Asker(pending[k])) = Owing(Asker(pending[k]))
    BY <1>14, AskerFields
  <2>2. Halfway => OwingThen(Issuing) = Owing(Issuing)
    BY <1>14, AskerFields
  <2>3. \A k \in DOMAIN pending' :
            pending'[k].remaining
                = OwingThen(Asker(pending'[k])) + IF pending'[k].inRange > 0 THEN 1 ELSE 0
    BY <1>1, <2>1 DEF QueryInv, Counts
  <2>4. Halfway' => issuing'.size - issuing'.left = OwingThen(Issuing')
    BY <1>1, <1>8, <2>2 DEF QueryInv, Counts
  <2> QED
    BY <2>3, <2>4, CountsThen
<1>16. Bounds'
  <2> DEFINE u == Tally(ring, Deferred)
             h == Len(held)
  <2>1. u \in Nat /\ h \in Nat
    BY <1>5, TallyType
  <2>2. Traces = u + h + 1 /\ Traces' = u + h + 0
    BY <1>1 DEF Traces
  <2> HIDE DEF u, h
  <2>3. Traces' \in Nat /\ Traces = Traces' + 1
    BY <2>1, <2>2
  <2>4. ReplyCap + Burst \in Nat /\ others \in Nat
    BY BoundAssumption DEF Burst, QueryInv, Types
  <2>5. Traces <= others /\ a + 2 * Traces <= (ReplyCap + Burst) + 2 * others
    BY DEF QueryInv, Bounds, a
  <2> DEFINE v == Traces
             w == Traces'
             most == ReplyCap + Burst
  <2>6. Traces' <= others /\ (a + 2) + 2 * Traces' <= (ReplyCap + Burst) + 2 * others
    <3>1. w \in Nat /\ v = w + 1 /\ most \in Nat /\ v <= others /\ a + 2 * v <= most + 2 * others
      BY <2>3, <2>4, <2>5
    <3> HIDE DEF v, w, most
    <3>2. w <= others /\ (a + 2) + 2 * w <= most + 2 * others
      BY <1>6, <2>4, <3>1
    <3> QED
      BY <3>2 DEF w, most
  <2> QED
    BY <1>1, <1>6, <2>6 DEF QueryInv, Bounds
<1> QED
  BY <1>9, <1>10, <1>11, <1>12, <1>13, <1>15, <1>16 DEF QueryInv

-----------------------------------------------------------------------------
(* The dispatcher takes a reply.                                           *)

(* Whatever the reply does to the oldest entry, what is left in flight is  *)
(* in order and still owned; its numbers go on from there.                 *)
LEMMA RepliesShrink ==
    ASSUME QueryInv, Matched, replies # <<>>, replies' = Tail(replies)
    PROVE  /\ replies' \in Seq(ReplySet) /\ Len(replies') \in Nat /\ Len(replies') + 1 = Len(replies)
           /\ Head(replies) \in ReplySet /\ Head(replies) = replies[1] /\ 1 \in DOMAIN replies
           /\ \A k \in DOMAIN replies' : k + 1 \in DOMAIN replies /\ replies'[k] = replies[k + 1]
           /\ Sorted(replies') /\ Before(replies', ring)
           /\ \A e : Tally(replies, EndsOf(e))
                       = Tally(replies', EndsOf(e)) + IF Head(replies) \in EndsOf(e) THEN 1 ELSE 0
<1>1. replies \in Seq(ReplySet)
  BY DEF QueryInv, Types
<1>2. /\ replies' \in Seq(ReplySet) /\ Len(replies') \in Nat /\ Len(replies') + 1 = Len(replies)
      /\ Head(replies) \in ReplySet /\ Head(replies) = replies[1] /\ 1 \in DOMAIN replies
      /\ \A k \in DOMAIN replies' : k + 1 \in DOMAIN replies /\ replies'[k] = replies[k + 1]
  BY <1>1
<1>3. Sorted(replies')
  BY <1>1, SortedTail DEF QueryInv, InOrder
<1>4. Before(replies', ring)
  BY <1>2 DEF QueryInv, InOrder, Before
<1>5. ASSUME NEW e
      PROVE  Tally(replies, EndsOf(e))
               = Tally(replies', EndsOf(e)) + IF Head(replies) \in EndsOf(e) THEN 1 ELSE 0
  BY <1>1, TallyTail
<1> QED
  BY <1>2, <1>3, <1>4, <1>5

(* The rest of the open range is a number. *)
LEMMA MidType == Types => Mid \in Nat
<1> SUFFICES ASSUME Types PROVE Mid \in Nat
  OBVIOUS
<1>1. CASE pending = <<>>
  BY <1>1 DEF Mid
<1>2. CASE pending # <<>>
  <2>1. pending[1] \in Entry
    BY <1>2 DEF Types
  <2> QED
    BY <1>2, <2>1 DEF Mid, Entry
<1> QED
  BY <1>1, <1>2

(* A record of a dump is handed to the trace sink. *)
LEMMA DeliverTrace ==
    ASSUME QueryInv, Matched, replies # <<>>, IsTrace(Head(replies)), replies' = Tail(replies),
           UNCHANGED <<issuing, pending, asked, others, answers, ring, engine>>
    PROVE  QueryInv'
<1> DEFINE r == Head(replies)
<1>1. UNCHANGED <<issuing, pending, asked, others, answers, ring, held, synth, traced>>
  BY DEF engine
<1>2. /\ replies' \in Seq(ReplySet) /\ Len(replies') \in Nat /\ Len(replies') + 1 = Len(replies)
      /\ r \in ReplySet /\ r = replies[1] /\ 1 \in DOMAIN replies
      /\ \A k \in DOMAIN replies' : k + 1 \in DOMAIN replies /\ replies'[k] = replies[k + 1]
      /\ Sorted(replies') /\ Before(replies', ring)
      /\ \A e : Tally(replies, EndsOf(e))
                  = Tally(replies', EndsOf(e)) + IF r \in EndsOf(e) THEN 1 ELSE 0
  BY RepliesShrink
<1>3. r.q = 0
  BY <1>2 DEF QueryInv, Owned
<1>4. r.kind \in TraceKinds
  BY DEF IsTrace, TraceKinds
<1> HIDE DEF r
<1>5. (Halfway' <=> Halfway) /\ Askers' = Askers /\ Issuing' = Issuing
  <2>1. Halfway' <=> Halfway
    BY <1>1 DEF Halfway
  <2> QED
    BY <1>1, <2>1, AskersStill DEF Issuing
<1>6. Types' /\ Entries' /\ Commands'
  BY <1>1, <1>2, <1>5 DEF QueryInv, Types, IssuingOK, Entries, Commands
<1>7. Owned'
  BY <1>2, <1>5 DEF QueryInv, Owned, IsTrace
<1>8. InOrder'
  BY <1>1, <1>2 DEF QueryInv, InOrder
<1>9. Shape'
  <2>1. Mid \in Nat /\ Closed(replies, Mid) /\ replies \in Seq(ReplySet)
    BY MidType DEF QueryInv, Types, Shape
  <2>2. r.kind \notin Headers /\ r.kind # "rangeValue"
    BY <1>4 DEF TraceKinds, Headers
  <2>3. \E q : Begun(replies, Mid, q)
    <3>1. CASE pending = <<>>
      BY <1>2, <3>1 DEF Begun, Mid
    <3>2. CASE pending # <<>>
      BY <3>2 DEF QueryInv, Shape
    <3> QED
      BY <3>1, <3>2
  <2>4. PICK q : Begun(replies, Mid, q)
    BY <2>3
  <2>5. /\ Closed(replies', Following(Mid, r))
        /\ Mid > 0 => r.kind = "rangeValue" /\ r.q = q
    BY <2>1, <2>4, ClosedTail DEF r
  <2>6. Mid = 0 /\ Following(Mid, r) = 0
    BY <2>1, <2>2, <2>5 DEF Following, Less
  <2>7. Mid' = 0
    BY <1>1, <2>6 DEF Mid
  <2>8. Closed(replies', Mid') /\ \A x : Begun(replies', Mid', x)
    BY <1>2, <2>5, <2>6, <2>7 DEF Begun
  <2> QED
    BY <2>8 DEF Shape
<1>10. ASSUME NEW o \in Askers PROVE OwingThen(o) = Owing(o)
  <2>1. o.q # 0
    BY AskersAre DEF QueryInv
  <2>2. r \notin EndsOf(o)
    BY <1>3, <2>1, EndNumber
  <2>3. Tally(replies, EndsOf(o)) = Tally(replies', EndsOf(o)) + 0
    BY <1>2, <2>2
  <2>4. Tally(replies', EndsOf(o)) \in Nat
    BY <1>2, TallyType
  <2> QED
    BY <1>1, <2>3, <2>4 DEF Owing, OwingThen
<1>11. Counts'
  <2>1. \A k \in DOMAIN pending : OwingThen(Asker(pending[k])) = Owing(Asker(pending[k]))
    BY <1>10, AskerFields
  <2>2. Halfway => OwingThen(Issuing) = Owing(Issuing)
    BY <1>10, AskerFields
  <2>3. \A k \in DOMAIN pending' :
            pending'[k].remaining
                = OwingThen(Asker(pending'[k])) + IF pending'[k].inRange > 0 THEN 1 ELSE 0
    BY <1>1, <2>1 DEF QueryInv, Counts
  <2>4. Halfway' => issuing'.size - issuing'.left = OwingThen(Issuing')
    BY <1>1, <1>5, <2>2 DEF QueryInv, Counts
  <2> QED
    BY <2>3, <2>4, CountsThen
<1>12. Bounds'
  <2>1. Traces' = Traces /\ Traces \in Nat
    BY <1>1, TracesType DEF QueryInv, Traces
  <2>2. Traces' <= Traces /\ Len(replies') <= Len(replies)
    BY <1>2, <2>1
  <2> QED
    BY <1>1, <1>2, <2>1, <2>2, BoundsKept DEF QueryInv, Bounds
<1> QED
  BY <1>6, <1>7, <1>8, <1>9, <1>11, <1>12 DEF QueryInv

(* A reply that is no dump reaches the getter whose query it answers. *)
LEMMA ReplyReaches ==
    ASSUME QueryInv, Matched, ~Halfway, replies # <<>>, ~IsTrace(Head(replies))
    PROVE  /\ pending # <<>> /\ Head(replies).q = pending[1].q
           /\ Head(replies).kind \in AnswerKinds(pending[1].kind)
<1> DEFINE r == Head(replies)
           e == pending[1]
<1>1. /\ r \in ReplySet /\ r = replies[1] /\ 1 \in DOMAIN replies /\ r.q \in Nat
      /\ replies \in Seq(ReplySet) /\ ring \in Seq(Command) /\ pending \in Seq(Entry)
  <2>1. replies \in Seq(ReplySet) /\ ring \in Seq(Command) /\ pending \in Seq(Entry)
    BY DEF QueryInv, Types
  <2>2. r \in ReplySet /\ r = replies[1] /\ 1 \in DOMAIN replies
    BY <2>1
  <2>3. r.q \in Nat
    BY <2>2 DEF ReplySet
  <2> QED
    BY <2>1, <2>2, <2>3
<1>2. PICK o \in Askers : o.q = r.q /\ r.kind \in AnswerKinds(o.kind)
  BY <1>1 DEF QueryInv, Owned
<1>3. PICK k \in DOMAIN pending : o = Asker(pending[k])
  BY <1>2, AskerFields
<1>4. /\ pending[k].q = r.q /\ pending[k].kind = o.kind
      /\ k \in 1..Len(pending) /\ 1 \in DOMAIN pending /\ pending # <<>>
  BY <1>1, <1>2, <1>3 DEF Asker
<1>5. e \in Entry /\ e.q \in Nat \ {0} /\ e.inRange \in Nat /\ e.remaining \in Nat \ {0}
  <2>1. e \in Entry
    BY <1>1, <1>4
  <2> QED
    BY <2>1 DEF Entry
<1>6. r.q = e.q
  <2> SUFFICES ASSUME r.q # e.q PROVE FALSE
    OBVIOUS
  <2>1. k # 1
    BY <1>4
  <2>2. e.q < r.q
    <3>1. 1 < k
      BY <1>4, <2>1
    <3> QED
      BY <1>4, <3>1 DEF QueryInv, Entries
  <2>3. Mid = e.inRange
    BY <1>4 DEF Mid
  <2>4. e.inRange = 0
    <3> SUFFICES ASSUME e.inRange # 0 PROVE FALSE
      OBVIOUS
    <3>1. Begun(replies, Mid, e.q) /\ 1 \in 1..Mid
      BY <1>4, <1>5, <2>3 DEF QueryInv, Shape
    <3>2. replies[1].q = e.q
      BY <3>1 DEF Begun
    <3> QED
      BY <1>1, <3>2
  <2> DEFINE A == Asker(e)
             x == Tally(ring, QueriesOf(A.q))
             y == Tally(replies, EndsOf(A))
  <2>5. A.q = e.q /\ x \in Nat /\ y \in Nat
    BY <1>1, TallyType DEF Asker
  <2>6. x + y # 0
    <3>1. e.remaining = Owing(A) + IF e.inRange > 0 THEN 1 ELSE 0
      BY <1>4 DEF QueryInv, Counts
    <3>2. Owing(A) = x + y
      BY DEF Owing
    <3> HIDE DEF x, y, A
    <3> QED
      BY <1>5, <2>4, <2>5, <3>1, <3>2
  <2>7. x # 0 \/ y # 0
    <3> HIDE DEF x, y, A
    <3> QED
      BY <2>5, <2>6
  <2>8. CASE x # 0
    <3>1. PICK j \in 1..Len(ring) : ring[j] \in QueriesOf(A.q)
      BY <1>1, <2>8, TallyType
    <3>2. j \in DOMAIN ring /\ ring[j].q = e.q
      BY <1>1, <2>5, <3>1 DEF QueriesOf
    <3>3. replies[1].q <= ring[j].q
      BY <1>1, <1>5, <3>2 DEF QueryInv, InOrder, Before
    <3> QED
      BY <1>1, <1>5, <2>2, <3>2, <3>3
  <2>9. CASE y # 0
    <3>1. PICK j \in 1..Len(replies) : replies[j] \in EndsOf(A)
      BY <1>1, <2>9, TallyType
    <3>2. j \in DOMAIN replies /\ replies[j].q = e.q
      BY <1>1, <2>5, <3>1, EndNumber
    <3>3. j # 1 /\ 1 < j
      BY <1>1, <2>2, <3>1, <3>2, <1>5
    <3>4. replies[1].q <= replies[j].q
      BY <1>1, <1>5, <3>2, <3>3 DEF QueryInv, InOrder, Sorted
    <3> QED
      BY <1>1, <1>5, <2>2, <3>2, <3>4
  <2> QED
    BY <2>7, <2>8, <2>9
<1>7. o = Asker(e)
  <2>1. Asker(e) \in Askers /\ Asker(e).q = o.q
    BY <1>2, <1>4, <1>6, AskerFields DEF Asker
  <2> QED
    BY <1>2, <2>1, AskersAre DEF QueryInv
<1> QED
  BY <1>2, <1>4, <1>6, <1>7 DEF Asker

(* What apply_reply does, by kind of entry. *)
LEMMA AfterCases ==
    \A e \in Entry, r \in ReplySet :
        /\ e.kind \in Single => AfterReply(e, r) = [e EXCEPT !.remaining = 0]
        /\ e.kind = "pairs" => AfterReply(e, r) = [e EXCEPT !.remaining = Less(@)]
        /\ e.kind = "ranges" => AfterReply(e, r) = AfterRanges(e, r)
        /\ e.kind = "sget" => AfterReply(e, r) = AfterSGet(e, r)
        /\ e.kind = "sgetn" => AfterReply(e, r) = AfterSGetN(e, r)
        /\ e.kind = "tree" =>
              AfterReply(e, r) = IF r.kind = "treeEnd" THEN [e EXCEPT !.remaining = 0] ELSE e
<1> TAKE e \in Entry, r \in ReplySet
<1> DEFINE k == e.kind
           a == AfterReply(e, r)
           a1 == [e EXCEPT !.remaining = 0]
           a2 == [e EXCEPT !.remaining = Less(@)]
           a3 == AfterRanges(e, r)
           a4 == AfterSGet(e, r)
           a5 == AfterSGetN(e, r)
           a6 == IF r.kind = "treeEnd" THEN [e EXCEPT !.remaining = 0] ELSE e
<1>1. a = CASE k \in Single -> a1
            [] k = "pairs" -> a2
            [] k = "ranges" -> a3
            [] k = "sget" -> a4
            [] k = "sgetn" -> a5
            [] k = "tree" -> a6
  BY Zenon DEF AfterReply
<1> HIDE DEF k, a, a1, a2, a3, a4, a5, a6
<1>2. /\ k \in Single => a = a1
      /\ k = "pairs" => a = a2
      /\ k = "ranges" => a = a3
      /\ k = "sget" => a = a4
      /\ k = "sgetn" => a = a5
      /\ k = "tree" => a = a6
  BY <1>1 DEF Single
<1> QED
  BY <1>2, Zenon DEF k, a, a1, a2, a3, a4, a5, a6

(* An entry with its counts changed. *)
Counted(e, y, z) == [q |-> e.q, kind |-> e.kind, inRange |-> y, remaining |-> z, own |-> TRUE]

(* An entry is its number, its kind and its two counts. *)
LEMMA Updated ==
    \A e \in Entry :
        /\ e.inRange \in Nat /\ e.remaining \in Nat \ {0} /\ e.kind \in Getters
        /\ e = Counted(e, e.inRange, e.remaining)
        /\ \A z : [e EXCEPT !.remaining = z] = Counted(e, e.inRange, z)
        /\ \A y, z : [e EXCEPT !.inRange = y, !.remaining = z] = Counted(e, y, z)
        /\ \A y, z : Counted(e, y, z).remaining = z
<1> TAKE e \in Entry
<1>1. /\ e.inRange \in Nat /\ e.remaining \in Nat \ {0} /\ e.kind \in Getters /\ e.own = TRUE
      /\ e = [q |-> e.q, kind |-> e.kind, inRange |-> e.inRange,
              remaining |-> e.remaining, own |-> e.own]
  BY DEF Entry
<1>5. e = Counted(e, e.inRange, e.remaining)
  BY <1>1, Zenon DEF Counted
<1>6. ASSUME NEW z PROVE [e EXCEPT !.remaining = z] = Counted(e, e.inRange, z)
  <2>1. [e EXCEPT !.remaining = z]
          = [q |-> e.q, kind |-> e.kind, inRange |-> e.inRange, remaining |-> z, own |-> e.own]
    BY DEF Entry
  <2> QED
    BY <1>1, <2>1, Zenon DEF Counted
<1>7. ASSUME NEW y, NEW z PROVE [e EXCEPT !.inRange = y, !.remaining = z] = Counted(e, y, z)
  <2>1. [e EXCEPT !.inRange = y, !.remaining = z]
          = [q |-> e.q, kind |-> e.kind, inRange |-> y, remaining |-> z, own |-> e.own]
    <3>1. PICK q, kind, n, o : q = e.q /\ kind = e.kind /\ n = e.remaining /\ o = e.own
      OBVIOUS
    <3> DEFINE f == [q |-> q, kind |-> kind, inRange |-> y, remaining |-> n, own |-> o]
    <3>2. [e EXCEPT !.inRange = y] = f
      <4>1. [e EXCEPT !.inRange = y]
              = [q |-> e.q, kind |-> e.kind, inRange |-> y, remaining |-> e.remaining, own |-> e.own]
        BY DEF Entry
      <4> QED
        BY <3>1, <4>1
    <3>3. [f EXCEPT !.remaining = z]
            = [q |-> q, kind |-> kind, inRange |-> y, remaining |-> z, own |-> o]
      OBVIOUS
    <3>4. [e EXCEPT !.inRange = y, !.remaining = z] = [[e EXCEPT !.inRange = y] EXCEPT !.remaining = z]
      OBVIOUS
    <3> QED
      BY <3>1, <3>2, <3>3, <3>4, Zenon
  <2> QED
    BY <1>1, <2>1, Zenon DEF Counted
<1>8. \A y, z : Counted(e, y, z).remaining = z
  BY DEF Counted
<1> QED
  BY <1>1, <1>5, <1>6, <1>7, <1>8

(* What an entry waits for after one of its replies: the ends of its       *)
(* answers that are still to come, and the rest of the range it is in.     *)
LEMMA AfterIs ==
    ASSUME NEW e \in Entry, NEW r \in ReplySet, r.kind \in AnswerKinds(e.kind),
           e.kind \notin {"pairs", "ranges"} => e.remaining = 1,
           r.kind = "rangeValue" <=> e.inRange > 0
    PROVE  \E z \in Nat :
             /\ AfterReply(e, r) = Counted(e, Following(e.inRange, r), z)
             /\ z + ((IF r.kind \in Ends(e) THEN 1 ELSE 0) + (IF e.inRange > 0 THEN 1 ELSE 0))
                  = e.remaining + (IF Following(e.inRange, r) > 0 THEN 1 ELSE 0)
<1>0. PICK a : a = AfterReply(e, r)
  OBVIOUS
<1>1. PICK x : x = Following(e.inRange, r)
  OBVIOUS
<1>2. PICK m \in Nat : m = e.inRange
  BY Updated
<1>3. PICK n \in Nat \ {0} : n = e.remaining
  BY Updated
<1>4. PICK k \in Getters : k = e.kind
  BY Updated
<1>5. PICK s : s = r.kind
  OBVIOUS
<1>6. PICK c \in Nat : c = r.count
  BY DEF ReplySet
<1>7. /\ e = Counted(e, m, n)
      /\ \A z : [e EXCEPT !.remaining = z] = Counted(e, m, z)
      /\ \A y, z : [e EXCEPT !.inRange = y, !.remaining = z] = Counted(e, y, z)
  BY <1>2, <1>3, Updated
<1>8. /\ s \in AnswerKinds(k)
      /\ k \notin {"pairs", "ranges"} => n = 1
      /\ s = "rangeValue" <=> m > 0
      /\ x = IF s \in Headers THEN c ELSE Less(m)
  BY <1>1, <1>2, <1>3, <1>4, <1>5, <1>6 DEF Following
<1>9. Ends(e) = IF k = "tree" THEN {"treeEnd"}
                ELSE IF k \in {"ranges", "sgetn"} THEN {"header", "sgetHeader", "missing"}
                ELSE Single \cup {"value", "sgetValue", "missing"}
  BY <1>4 DEF Ends
<1> DEFINE final == IF s \in Ends(e) THEN 1 ELSE 0
           mid == IF m > 0 THEN 1 ELSE 0
           next == IF x > 0 THEN 1 ELSE 0
<1>10. SUFFICES \E z \in Nat : a = Counted(e, x, z) /\ z + (final + mid) = n + next
  BY <1>0, <1>1, <1>2, <1>3, <1>5, Zenon
<1>11. ASSUME s \in Ends(e), s \notin Headers, s # "rangeValue"
       PROVE  m = 0 /\ x = 0 /\ final + mid = 1 /\ next = 0
  BY <1>8, <1>11 DEF Less
<1>12. CASE k \in Single
  <2>1. s = k
    BY <1>8, <1>12 DEF AnswerKinds, Single
  <2>2. s \in Ends(e) /\ s \notin Headers /\ s # "rangeValue" /\ n = 1
    BY <1>8, <1>9, <1>12, <2>1 DEF Single, Headers
  <2>3. a = Counted(e, m, 0)
    BY <1>0, <1>4, <1>7, <1>12, AfterCases
  <2> QED
    BY <1>11, <2>2, <2>3
<1>13. CASE k = "pairs"
  <2>1. s = "value"
    BY <1>8, <1>13 DEF AnswerKinds, Single
  <2>2. s \in Ends(e) /\ s \notin Headers /\ s # "rangeValue"
    BY <1>9, <1>13, <2>1 DEF Headers
  <2>3. a = Counted(e, m, n - 1)
    <3>1. a = [e EXCEPT !.remaining = Less(@)]
      BY <1>0, <1>4, <1>13, AfterCases
    <3>2. a = [e EXCEPT !.remaining = Less(n)]
      BY <1>3, <3>1
    <3>3. Less(n) = n - 1
      BY DEF Less
    <3> QED
      BY <1>7, <3>2, <3>3
  <2>4. m = 0 /\ x = 0 /\ final + mid = 1 /\ next = 0
    BY <1>11, <2>2
  <2>5. n - 1 \in Nat /\ (n - 1) + 1 = n + 0
    OBVIOUS
  <2> HIDE DEF final, mid, next
  <2>6. a = Counted(e, x, n - 1) /\ (n - 1) + (final + mid) = n + next
    BY <2>3, <2>4, <2>5
  <2> QED
    BY <2>5, <2>6
<1>14. ASSUME k \in {"ranges", "sgetn"}, s \in {"header", "sgetHeader", "rangeValue"},
              a = [e EXCEPT !.inRange = x, !.remaining = IF x = 0 THEN Less(@) ELSE @]
       PROVE  \E z \in Nat : a = Counted(e, x, z) /\ z + (final + mid) = n + next
  <2>1. x \in Nat
    BY <1>8 DEF Less
  <2>2. final + mid = 1
    BY <1>8, <1>9, <1>14
  <2>3. PICK z \in Nat : z = IF x = 0 THEN n - 1 ELSE n
    OBVIOUS
  <2>4. a = [e EXCEPT !.inRange = x, !.remaining = z]
    <3>1. a = [e EXCEPT !.inRange = x, !.remaining = IF x = 0 THEN Less(n) ELSE n]
      BY <1>3, <1>14
    <3>2. z = IF x = 0 THEN Less(n) ELSE n
      BY <2>3 DEF Less
    <3> QED
      BY <3>1, <3>2
  <2>5. a = Counted(e, x, z)
    BY <1>7, <2>4
  <2>6. z + 1 = n + next
    BY <2>1, <2>3
  <2> QED
    BY <2>2, <2>5, <2>6
<1>15. CASE k = "ranges"
  <2>1. s \in {"header", "rangeValue"}
    BY <1>8, <1>15 DEF AnswerKinds, Single
  <2>2. a = AfterRanges(e, r)
    BY <1>0, <1>4, <1>15, AfterCases
  <2>3. (CASE s = "header" -> c [] s = "rangeValue" -> Less(m) [] OTHER -> m) = x
    BY <1>8, <2>1 DEF Headers
  <2>4. a = [e EXCEPT !.inRange = x, !.remaining = IF x = 0 THEN Less(@) ELSE @]
    BY <1>2, <1>5, <1>6, <2>2, <2>3, Zenon DEF AfterRanges
  <2> QED
    BY <1>14, <1>15, <2>1, <2>4
<1>16. CASE k = "sgetn" /\ s # "missing"
  <2>1. s \in {"sgetHeader", "rangeValue"}
    BY <1>8, <1>16 DEF AnswerKinds, Single
  <2>2. a = AfterSGetN(e, r)
    BY <1>0, <1>4, <1>16, AfterCases
  <2>3. (IF s = "sgetHeader" THEN c ELSE Less(m)) = x
    BY <1>8, <2>1 DEF Headers
  <2> DEFINE b == [e EXCEPT !.inRange = x, !.remaining = IF x = 0 THEN Less(@) ELSE @]
             b2 == [e EXCEPT !.remaining = 0]
  <2>4. a = CASE s \in {"sgetHeader", "rangeValue"} -> b
              [] s = "missing" -> b2
              [] OTHER -> e
    BY <1>2, <1>5, <1>6, <2>2, <2>3, Zenon DEF AfterSGetN
  <2> HIDE DEF b, b2
  <2>5. a = b
    BY <2>1, <2>4
  <2> QED
    BY <1>14, <1>16, <2>1, <2>5 DEF b
<1>17. CASE (k = "sget" /\ s = "sgetValue") \/ (k \in {"sget", "sgetn"} /\ s = "missing")
  <2>1. s \in Ends(e) /\ s \notin Headers /\ s # "rangeValue" /\ n = 1
    BY <1>8, <1>9, <1>17 DEF Headers
  <2> DEFINE b == [e EXCEPT !.remaining = 0]
             b2 == [e EXCEPT !.remaining = Less(@)]
  <2>2. a = b \/ a = b2
    <3>1. CASE k = "sget"
      <4>1. a = CASE s = "sgetValue" -> b2
                  [] s = "missing" -> b
                  [] OTHER -> e
        <5>1. a = AfterSGet(e, r)
          BY <1>0, <1>4, <3>1, AfterCases
        <5> QED
          BY <1>5, <5>1, Zenon DEF AfterSGet
      <4> HIDE DEF b, b2
      <4> QED
        BY <1>17, <3>1, <4>1
    <3>2. CASE k = "sgetn"
      <4> DEFINE y == IF s = "sgetHeader" THEN r.count ELSE Less(e.inRange)
                 b3 == [e EXCEPT !.inRange = y, !.remaining = IF y = 0 THEN Less(@) ELSE @]
      <4>1. a = CASE s \in {"sgetHeader", "rangeValue"} -> b3
                  [] s = "missing" -> b
                  [] OTHER -> e
        <5>1. a = AfterSGetN(e, r)
          BY <1>0, <1>4, <3>2, AfterCases
        <5> QED
          BY <1>5, <5>1, Zenon DEF AfterSGetN
      <4> HIDE DEF b, b2, b3
      <4> QED
        BY <1>17, <3>2, <4>1
    <3> QED
      BY <1>17, <3>1, <3>2
  <2>3. a = Counted(e, m, 0)
    <3>1. b2 = [e EXCEPT !.remaining = Less(n)] /\ Less(n) = 0
      BY <1>3, <2>1 DEF Less
    <3> QED
      BY <1>7, <2>2, <3>1
  <2> QED
    BY <1>11, <2>1, <2>3
<1>18. CASE k = "tree"
  <2>1. s \in {"treeHeader", "treeNode", "treeEnd"}
    BY <1>8, <1>18 DEF AnswerKinds, TreeParts, Single
  <2>2. s \notin Headers /\ s # "rangeValue" /\ n = 1 /\ (s \in Ends(e) <=> s = "treeEnd")
    BY <1>8, <1>9, <1>18, <2>1 DEF Headers
  <2>3. m = 0 /\ x = 0
    BY <1>8, <2>2 DEF Less
  <2>4. a = IF s = "treeEnd" THEN [e EXCEPT !.remaining = 0] ELSE e
    BY <1>0, <1>4, <1>5, <1>18, AfterCases
  <2>5. CASE s = "treeEnd"
    <3>1. a = Counted(e, m, 0)
      BY <1>7, <2>4, <2>5
    <3> QED
      BY <2>2, <2>3, <2>5, <3>1
  <2>6. CASE s # "treeEnd"
    <3>1. a = Counted(e, m, 1)
      BY <1>7, <2>2, <2>4, <2>6
    <3> QED
      BY <2>2, <2>3, <2>6, <3>1
  <2> QED
    BY <2>5, <2>6
<1>19. k = "sget" => s \in {"sgetValue", "missing"}
  BY <1>8 DEF AnswerKinds, Single
<1> QED
  BY <1>12, <1>13, <1>15, <1>16, <1>17, <1>18, <1>19 DEF Getters, Grouped

(* Of the replies to a getter's query, all but the values of a range and   *)
(* the first records of a tree end an answer.                              *)
LEMMA AnswerEnds ==
    \A e \in Entry : \A s \in AnswerKinds(e.kind) :
        /\ s \in Ends(e) \/ s = "rangeValue" \/ s \in TreeParts
        /\ s \in Headers \cup {"treeEnd"} => s \in Ends(e)
        /\ s \notin TraceKinds
<1> TAKE e \in Entry
<1>1. PICK k \in Getters : k = e.kind
  BY DEF Entry
<1>2. Ends(e) = IF k = "tree" THEN {"treeEnd"}
                ELSE IF k \in {"ranges", "sgetn"} THEN {"header", "sgetHeader", "missing"}
                ELSE Single \cup {"value", "sgetValue", "missing"}
  BY <1>1 DEF Ends
<1> SUFFICES ASSUME NEW s \in AnswerKinds(k)
             PROVE  /\ s \in Ends(e) \/ s = "rangeValue" \/ s \in TreeParts
                    /\ s \in Headers \cup {"treeEnd"} => s \in Ends(e)
                    /\ s \notin TraceKinds
  BY <1>1
<1> QED
  BY <1>2 DEF AnswerKinds, Single, Grouped, Getters, Headers, TreeParts, TraceKinds

(* The reply is taken off the queue and off what its getter waits for. *)
LEMMA ReplyTaken ==
    ASSUME QueryInv, Matched, Deliver, ~IsTrace(Head(replies)),
           NEW e, e = pending[1]
    PROVE  /\ pending # <<>> /\ e \in Entry
           /\ \A o \in Askers : o # Asker(e) => OwingThen(o) = Owing(o)
           /\ \E x \in Nat, z \in Nat :
                /\ Closed(replies', x) /\ Begun(replies', x, e.q)
                /\ z = OwingThen(Asker(e)) + (IF x > 0 THEN 1 ELSE 0)
                /\ z <= e.remaining
                /\ IF z = 0
                   THEN /\ pending' = Tail(pending)
                        /\ answers' = [answers EXCEPT ![e.q] = "right"]
                   ELSE /\ pending' = <<Counted(e, x, z)>> \o Tail(pending)
                        /\ answers' = answers
<1> DEFINE r == Head(replies)
           A == Asker(e)
           x == Following(Mid, r)
           final == IF r.kind \in Ends(e) THEN 1 ELSE 0
           mid == IF e.inRange > 0 THEN 1 ELSE 0
           next == IF x > 0 THEN 1 ELSE 0
           a == Tally(ring, QueriesOf(A.q))
           b == Tally(replies', EndsOf(A))
<1>1. /\ replies # <<>> /\ replies' = Tail(replies) /\ issuing = Idle
      /\ ring' = ring /\ ~Halfway
  BY DEF Deliver, Halfway
<1>2. pending # <<>> /\ r.q = e.q /\ r.kind \in AnswerKinds(e.kind)
  BY <1>1, ReplyReaches
<1>3. /\ pending \in Seq(Entry) /\ replies \in Seq(ReplySet) /\ ring \in Seq(Command)
      /\ Mid \in Nat /\ Closed(replies, Mid)
  BY MidType DEF QueryInv, Types, Shape
<1>4. e \in Entry /\ 1 \in DOMAIN pending /\ Head(pending) = e /\ Mid = e.inRange
  BY <1>2, <1>3 DEF Mid
<1>5. /\ replies' \in Seq(ReplySet) /\ r \in ReplySet
      /\ \A o : Tally(replies, EndsOf(o))
                  = Tally(replies', EndsOf(o)) + IF r \in EndsOf(o) THEN 1 ELSE 0
  BY <1>1, RepliesShrink
<1>6. /\ Closed(replies', x) /\ Begun(replies', x, r.q) /\ x \in Nat
      /\ r.kind = "rangeValue" <=> Mid > 0
  <2>1. Begun(replies, Mid, e.q)
    BY <1>2 DEF QueryInv, Shape
  <2> QED
    BY <1>1, <1>3, <2>1, ClosedTail
<1>7. /\ A.q = e.q /\ e.q \in Nat /\ e.kind \in Getters /\ A \in Askers
      /\ A = [q |-> e.q, kind |-> e.kind]
  <2>1. e.q \in Nat /\ e.kind \in Getters
    BY <1>4 DEF Entry
  <2> QED
    BY <1>4, <2>1, AskerFields DEF Asker
<1>8. a \in Nat /\ b \in Nat
  BY <1>3, <1>5, TallyType
<1>9. Owing(A) = a + (b + final) /\ OwingThen(A) = a + b
  <2>1. r \in EndsOf(A) <=> r.kind \in Ends(e)
    <3>1. r \in EndsOf(A) <=> r.q = e.q /\ r.kind \in Ends([kind |-> e.kind])
      BY <1>5, <1>7, EndIs
    <3>2. Ends([kind |-> e.kind]) = Ends(e)
      BY DEF Ends
    <3> QED
      BY <1>2, <3>1, <3>2
  <2>2. Tally(replies, EndsOf(A)) = b + IF r \in EndsOf(A) THEN 1 ELSE 0
    BY <1>5
  <2>3. Tally(replies, EndsOf(A)) = b + final
    BY <2>1, <2>2
  <2>4. OwingThen(A) = a + b
    BY <1>1 DEF OwingThen
  <2> HIDE DEF final, b
  <2>5. Owing(A) = a + (b + final)
    BY <2>3 DEF Owing
  <2> QED
    BY <2>4, <2>5 DEF b
<1>10. ASSUME NEW o \in Askers, o # A PROVE OwingThen(o) = Owing(o)
  <2>1. o.q # r.q
    <3>1. \A i, j \in Askers : i.q = j.q => i = j
      BY AskersAre DEF QueryInv
    <3> HIDE DEF A, r
    <3> QED
      BY <1>2, <1>7, <1>10, <3>1
  <2>2. r \notin EndsOf(o)
    BY <2>1, EndNumber
  <2>3. Tally(replies, EndsOf(o)) = Tally(replies', EndsOf(o)) + 0
    BY <1>5, <2>2
  <2>4. Tally(replies', EndsOf(o)) \in Nat
    BY <1>5, TallyType
  <2> QED
    BY <1>1, <2>3, <2>4 DEF Owing, OwingThen
<1>11. e.kind \notin {"pairs", "ranges"} => e.remaining = 1
  BY <1>4 DEF QueryInv, Entries
<1>12. PICK z \in Nat : /\ AfterReply(e, r) = Counted(e, x, z)
                        /\ z + (final + mid) = e.remaining + next
  BY <1>2, <1>4, <1>5, <1>6, <1>11, AfterIs
<1>13. PICK n \in Nat : n = e.remaining
  BY <1>4, Updated
<1>14. e.remaining = Owing(A) + mid
  BY <1>4 DEF QueryInv, Counts
<1>15. next <= final + mid
  <2>1. CASE r.kind \in Headers
    <3>1. final = 1
      BY <1>2, <1>4, <2>1, AnswerEnds
    <3> QED
      BY <3>1
  <2>2. CASE r.kind \notin Headers
    <3>1. x > 0 => Mid > 0
      BY <1>3, <2>2 DEF Following, Less
    <3> QED
      BY <1>4, <3>1
  <2> QED
    BY <2>1, <2>2
<1>16. final \in Nat /\ mid \in Nat /\ next \in Nat
  OBVIOUS
<1>17. z = OwingThen(A) + next /\ z <= e.remaining
  <2> HIDE DEF final, mid, next, a, b, A
  <2> QED
    BY <1>8, <1>9, <1>12, <1>13, <1>14, <1>15, <1>16
<1>18. [AfterReply(e, r) EXCEPT !.own = @ /\ r.q = e.q] = Counted(e, x, z)
  <2> DEFINE c == Counted(e, x, z)
  <2>1. PICK o : o = (c.own /\ r.q = e.q)
    OBVIOUS
  <2>2. o = TRUE
    BY <1>2, <2>1, Zenon DEF Counted
  <2>3. [c EXCEPT !.own = o]
          = [q |-> e.q, kind |-> e.kind, inRange |-> x, remaining |-> z, own |-> o]
    <3>1. PICK p : p = c.own
      OBVIOUS
    <3>2. PICK q, kind : q = e.q /\ kind = e.kind
      OBVIOUS
    <3> HIDE DEF x
    <3>3. c = [q |-> q, kind |-> kind, inRange |-> x, remaining |-> z, own |-> p]
      BY <3>1, <3>2, Zenon DEF Counted
    <3> HIDE DEF c
    <3>4. [c EXCEPT !.own = o]
            = [q |-> q, kind |-> kind, inRange |-> x, remaining |-> z, own |-> o]
      BY <3>3
    <3> QED
      BY <3>2, <3>4
  <2>4. [c EXCEPT !.own = o] = c
    BY <2>2, <2>3, Zenon DEF Counted
  <2>5. [c EXCEPT !.own = @ /\ r.q = e.q] = [c EXCEPT !.own = o]
    BY <2>1, Zenon
  <2> QED
    BY <1>12, <2>4, <2>5, Zenon
<1>19. /\ Counted(e, x, z).remaining = z /\ Counted(e, x, z).own = TRUE
  BY DEF Counted
<1>20. IF z = 0 THEN /\ pending' = Tail(pending)
                     /\ answers' = [answers EXCEPT ![e.q] = "right"]
                ELSE /\ pending' = <<Counted(e, x, z)>> \o Tail(pending)
                     /\ answers' = answers
  <2> DEFINE after == [AfterReply(e, r) EXCEPT !.own = @ /\ r.q = e.q]
  <2>1. IF after.remaining = 0
        THEN /\ pending' = Tail(pending)
             /\ answers' = [answers EXCEPT ![e.q] = IF after.own THEN "right" ELSE "wrong"]
        ELSE /\ pending' = <<after>> \o Tail(pending)
             /\ UNCHANGED answers
    BY <1>2, <1>4, Zenon DEF Deliver
  <2>2. after = Counted(e, x, z)
    BY <1>18
  <2> HIDE DEF after, x
  <2> QED
    BY <1>19, <2>1, <2>2
<1> QED
  BY <1>2, <1>4, <1>6, <1>10, <1>12, <1>17, <1>20

(* What any reply that is taken leaves alone. *)
LEMMA DeliverLeaves ==
    ASSUME QueryInv, Matched, Deliver
    PROVE  /\ UNCHANGED <<issuing, asked, others, ring, held, synth, traced>>
           /\ ~Halfway /\ ~Halfway' /\ InOrder' /\ Bounds'
           /\ Askers = {Asker(pending[k]) : k \in DOMAIN pending}
           /\ Askers' = {Asker(pending'[k]) : k \in DOMAIN pending'}
           /\ \A k \in DOMAIN replies' : \E j \in DOMAIN replies : replies'[k] = replies[j]
           /\ replies' \in Seq(ReplySet)
<1>1. /\ UNCHANGED <<issuing, asked, others, ring, held, synth, traced>>
      /\ ~Halfway /\ ~Halfway' /\ replies # <<>> /\ replies' = Tail(replies)
  BY DEF Deliver, engine, Halfway
<1>2. /\ replies' \in Seq(ReplySet) /\ Len(replies') \in Nat /\ Len(replies') + 1 = Len(replies)
      /\ \A k \in DOMAIN replies' : k + 1 \in DOMAIN replies /\ replies'[k] = replies[k + 1]
      /\ Sorted(replies') /\ Before(replies', ring)
  BY <1>1, RepliesShrink
<1>3. InOrder'
  BY <1>1, <1>2 DEF QueryInv, InOrder
<1>4. Bounds'
  <2>1. Traces' = Traces /\ Traces \in Nat
    BY <1>1, TracesType DEF QueryInv, Traces
  <2>2. Traces' <= Traces /\ Len(replies') <= Len(replies)
    BY <1>2, <2>1
  <2> QED
    BY <1>1, <1>2, <2>1, <2>2, BoundsKept DEF QueryInv, Bounds
<1>5. /\ Askers = {Asker(pending[k]) : k \in DOMAIN pending}
      /\ Askers' = {Asker(pending'[k]) : k \in DOMAIN pending'}
  BY <1>1 DEF Askers
<1>6. \A k \in DOMAIN replies' : \E j \in DOMAIN replies : replies'[k] = replies[j]
  BY <1>2
<1> QED
  BY <1>1, <1>2, <1>3, <1>4, <1>5, <1>6

(* Entries, said of the next state by the length of the record. *)
LEMMA EntriesThen ==
    ASSUME asked' = asked, NEW p, DOMAIN pending' = 1..p,
           \A i, j \in 1..p : i < j => pending'[i].q < pending'[j].q,
           \A k \in 1..p :
              /\ pending'[k].q <= asked
              /\ k > 1 => pending'[k].inRange = 0
              /\ pending'[k].kind \notin {"pairs", "ranges"} => pending'[k].remaining = 1
    PROVE  Entries'
  BY DEF Entries

(* A reply that leaves its entry waiting for more. *)
LEMMA DeliverMore ==
    ASSUME QueryInv, Matched, Deliver, pending # <<>>, NEW e \in Entry, e = pending[1],
           \A o \in Askers : o # Asker(e) => OwingThen(o) = Owing(o),
           NEW x \in Nat, NEW z \in Nat,
           Closed(replies', x), Begun(replies', x, e.q),
           z = OwingThen(Asker(e)) + (IF x > 0 THEN 1 ELSE 0), z <= e.remaining, z # 0,
           pending' = <<Counted(e, x, z)>> \o Tail(pending), answers' = answers
    PROVE  QueryInv'
<1> DEFINE d == Counted(e, x, z)
           p == Len(pending)
<1>1. /\ UNCHANGED <<issuing, asked, others, ring, held, synth, traced, answers>>
      /\ ~Halfway /\ ~Halfway' /\ InOrder' /\ Bounds'
      /\ Askers = {Asker(pending[k]) : k \in DOMAIN pending}
      /\ Askers' = {Asker(pending'[k]) : k \in DOMAIN pending'}
      /\ \A k \in DOMAIN replies' : \E j \in DOMAIN replies : replies'[k] = replies[j]
      /\ replies' \in Seq(ReplySet)
  BY DeliverLeaves
<1>2. /\ d \in Entry /\ d.q = e.q /\ d.kind = e.kind /\ d.inRange = x /\ d.remaining = z
      /\ Asker(d) = Asker(e)
  <2>1. e.q \in Nat \ {0} /\ e.kind \in Getters
    BY DEF Entry
  <2>2. d \in Entry
    BY <2>1 DEF Entry, Counted
  <2>3. d.q = e.q /\ d.kind = e.kind /\ d.inRange = x /\ d.remaining = z
    BY DEF Counted
  <2> QED
    BY <2>2, <2>3, Zenon DEF Asker
<1>3. pending \in Seq(Entry)
  BY DEF QueryInv, Types
<1>4. /\ pending' \in Seq(Entry) /\ p \in Nat \ {0} /\ DOMAIN pending = 1..p
      /\ DOMAIN pending' = 1..p /\ pending'[1] = d /\ pending' # <<>>
      /\ \A k \in 1..p : k # 1 => pending'[k] = pending[k]
  <2> HIDE DEF d
  <2>1. Tail(pending) \in Seq(Entry) /\ Len(Tail(pending)) = p - 1 /\ p \in Nat \ {0}
        /\ \A k \in 1..(p - 1) : Tail(pending)[k] = pending[k + 1]
    BY <1>3
  <2>2. <<d>> \in Seq(Entry) /\ Len(<<d>>) = 1 /\ <<d>>[1] = d
    BY <1>2
  <2>3. /\ pending' \in Seq(Entry) /\ Len(pending') = 1 + (p - 1) /\ pending'[1] = d
        /\ \A k \in 1..(p - 1) : pending'[1 + k] = Tail(pending)[k]
    <3>1. pending' = <<d>> \o Tail(pending)
      BY DEF d
    <3> QED
      BY <2>1, <2>2, <3>1, Concatenated
  <2>4. \A k \in 1..p : k # 1 => pending'[k] = pending[k]
    <3> TAKE k \in 1..p
    <3> HAVE k # 1
    <3>1. k - 1 \in 1..(p - 1) /\ 1 + (k - 1) = k /\ (k - 1) + 1 = k
      BY <2>1
    <3>2. pending'[1 + (k - 1)] = Tail(pending)[k - 1] /\ Tail(pending)[k - 1] = pending[(k - 1) + 1]
      BY <2>1, <2>3, <3>1
    <3> QED
      BY <3>1, <3>2
  <2> QED
    BY <1>3, <2>1, <2>3, <2>4
<1> HIDE DEF d, p
<1>5. \A k \in 1..p : /\ pending'[k].q = pending[k].q /\ pending'[k].kind = pending[k].kind
                      /\ Asker(pending'[k]) = Asker(pending[k])
  BY <1>2, <1>4
<1>6. Askers' = Askers
  <2>1. Askers = {Asker(pending[k]) : k \in 1..p}
    BY <1>1, <1>4
  <2>2. Askers' = {Asker(pending'[k]) : k \in 1..p}
    BY <1>1, <1>4
  <2>3. {Asker(pending'[k]) : k \in 1..p} = {Asker(pending[k]) : k \in 1..p}
    BY <1>5, ZenonT(30)
  <2> QED
    BY <2>1, <2>2, <2>3, Zenon
<1>7. Types'
  BY <1>1, <1>4 DEF QueryInv, Types, IssuingOK
<1>8. /\ \A i, j \in 1..p : i < j => pending[i].q < pending[j].q
      /\ \A k \in 1..p : /\ pending[k].q <= asked /\ pending[k].q \in Nat
                         /\ k > 1 => pending[k].inRange = 0
                         /\ pending[k].kind \notin {"pairs", "ranges"} => pending[k].remaining = 1
  <2>1. \A k \in 1..p : pending[k] \in Entry
    BY <1>3, <1>4
  <2>2. \A k \in 1..p : pending[k].q \in Nat
    BY <2>1 DEF Entry
  <2> QED
    BY <1>4, <2>2 DEF QueryInv, Entries
<1>9. Entries'
  <2>1. \A i, j \in 1..p : i < j => pending'[i].q < pending'[j].q
    BY <1>5, <1>8
  <2>2. ASSUME NEW k \in 1..p
        PROVE  /\ pending'[k].q <= asked
               /\ k > 1 => pending'[k].inRange = 0
               /\ pending'[k].kind \notin {"pairs", "ranges"} => pending'[k].remaining = 1
    <3>1. CASE k = 1
      <4>1. e.kind \notin {"pairs", "ranges"} => z = 1
        <5>1. e.kind \notin {"pairs", "ranges"} => e.remaining = 1
          BY <1>8, <3>1
        <5> QED
          BY <5>1
      <4> QED
        BY <1>2, <1>4, <1>8, <3>1, <4>1
    <3>2. CASE k # 1
      BY <1>4, <1>8, <3>2
    <3> QED
      BY <3>1, <3>2
  <2> QED
    <3>1. asked' = asked /\ DOMAIN pending' = 1..p
      BY <1>1, <1>4
    <3>2. \A k \in 1..p :
             /\ pending'[k].q <= asked
             /\ k > 1 => pending'[k].inRange = 0
             /\ pending'[k].kind \notin {"pairs", "ranges"} => pending'[k].remaining = 1
      BY <2>2
    <3> QED
      BY <2>1, <3>1, <3>2, EntriesThen
<1>10. Commands'
  <2>1. ring' = ring /\ Commands
    BY <1>1 DEF QueryInv
  <2> QED
    BY <1>6, <2>1 DEF Commands
<1>13. Owned'
  <2>1. /\ \A k \in DOMAIN replies' : \E j \in DOMAIN replies : replies'[k] = replies[j]
        /\ Owned
    BY <1>1 DEF QueryInv
  <2> QED
    BY <1>6, <2>1 DEF Owned
<1>11. Shape'
  <2>1. Mid' = x
    BY <1>2, <1>4 DEF Mid
  <2> QED
    BY <1>2, <1>4, <2>1 DEF Shape
<1>12. Counts'
  <2>1. ASSUME NEW k \in 1..p
        PROVE  pending'[k].remaining
                 = OwingThen(Asker(pending'[k])) + IF pending'[k].inRange > 0 THEN 1 ELSE 0
    <3>1. CASE k = 1
      BY <1>2, <1>4, <3>1
    <3>2. CASE k # 1
      <4>1. pending[1].q < pending[k].q /\ pending[1].q \in Nat /\ pending[k].q \in Nat
        BY <1>4, <1>8, <3>2
      <4>2. Asker(pending[k]) # Asker(e)
        <5>1. Asker(pending[k]).q = pending[k].q /\ Asker(e).q = e.q
          BY DEF Asker
        <5> QED
          BY <4>1, <5>1
      <4>3. Asker(pending[k]) \in Askers
        BY <1>4, AskerFields
      <4>4. OwingThen(Asker(pending[k])) = Owing(Asker(pending[k]))
        BY <4>2, <4>3
      <4>5. pending'[k] = pending[k]
        BY <1>4, <3>2
      <4> QED
        BY <1>4, <4>4, <4>5 DEF QueryInv, Counts
    <3> QED
      BY <3>1, <3>2
  <2> QED
    BY <1>1, <1>4, <2>1, CountsThen
<1> QED
  BY <1>1, <1>7, <1>9, <1>10, <1>11, <1>12, <1>13 DEF QueryInv

(* The reply that an entry was waiting for last: nothing more of its       *)
(* getter's is on the way, and the entry goes.                             *)
LEMMA NothingLeft ==
    ASSUME QueryInv, Matched, Deliver, NEW e \in Entry, Asker(e) \in Askers,
           OwingThen(Asker(e)) = 0, Closed(replies', 0)
    PROVE  /\ \A k \in DOMAIN ring : ring[k].q # e.q
           /\ \A k \in DOMAIN replies' : replies'[k].q # e.q
<1> DEFINE A == Asker(e)
           a == Tally(ring, QueriesOf(A.q))
           b == Tally(replies', EndsOf(A))
<1>1. /\ UNCHANGED ring
      /\ \A k \in DOMAIN replies' : \E j \in DOMAIN replies : replies'[k] = replies[j]
      /\ replies' \in Seq(ReplySet) /\ ring \in Seq(Command)
      /\ DOMAIN ring = 1..Len(ring) /\ DOMAIN replies' = 1..Len(replies')
  BY DeliverLeaves DEF QueryInv, Types
<1>2. /\ A.q = e.q /\ e.q \in Nat \ {0} /\ e.kind \in Getters
      /\ A = [q |-> e.q, kind |-> e.kind]
  <2>1. e.q \in Nat \ {0} /\ e.kind \in Getters
    BY DEF Entry
  <2> QED
    BY <2>1 DEF Asker
<1>3. a = 0 /\ b = 0
  <2>1. a \in Nat /\ b \in Nat
    BY <1>1, TallyType
  <2>2. a + b = 0
    BY <1>1 DEF OwingThen
  <2> HIDE DEF a, b
  <2> QED
    BY <2>1, <2>2
<1>4. /\ \A k \in 1..Len(ring) : ring[k] \notin QueriesOf(A.q)
      /\ \A k \in 1..Len(replies') : replies'[k] \notin EndsOf(A)
  BY <1>1, <1>3, TallyType
<1>5. \A k \in DOMAIN ring : ring[k].q # e.q
  <2> TAKE k \in DOMAIN ring
  <2>1. ring[k] \in Command /\ ring[k] \notin QueriesOf(e.q)
    BY <1>1, <1>2, <1>4
  <2> QED
    BY <2>1, QueryIs
<1>6. \A k \in DOMAIN replies' : replies'[k].q = e.q =>
          /\ replies'[k].kind \in AnswerKinds(e.kind)
          /\ replies'[k].kind \notin Ends(e)
  <2> SUFFICES ASSUME NEW k \in DOMAIN replies', replies'[k].q = e.q
               PROVE  /\ replies'[k].kind \in AnswerKinds(e.kind)
                      /\ replies'[k].kind \notin Ends(e)
    OBVIOUS
  <2>1. PICK r \in ReplySet : r = replies'[k]
    BY <1>1
  <2>2. r.q = e.q /\ r \notin EndsOf(A)
    BY <1>1, <1>4, <2>1
  <2>3. PICK j \in DOMAIN replies : r = replies[j]
    BY <1>1, <2>1
  <2>4. PICK o \in Askers : o.q = r.q /\ r.kind \in AnswerKinds(o.kind)
    BY <1>2, <2>2, <2>3 DEF QueryInv, Owned
  <2>5. o = A
    <3>1. \A i, l \in Askers : i.q = l.q => i = l
      BY AskersAre DEF QueryInv
    <3> HIDE DEF A
    <3> QED
      BY <1>2, <2>2, <2>4, <3>1 DEF A
  <2>6. A.kind = e.kind
    BY <1>2
  <2>7. r.kind \in AnswerKinds(e.kind)
    BY <2>4, <2>5, <2>6
  <2>8. r.kind \notin Ends(e)
    <3>1. r \in EndsOf(A) <=> r.q = e.q /\ r.kind \in Ends([kind |-> e.kind])
      BY <1>2, EndIs
    <3>2. Ends([kind |-> e.kind]) = Ends(e)
      BY DEF Ends
    <3> QED
      BY <2>2, <3>1, <3>2
  <2> QED
    BY <2>1, <2>7, <2>8
<1>7. ASSUME NEW k \in DOMAIN replies', replies'[k].q = e.q PROVE FALSE
  <2>1. /\ replies'[k].kind \in AnswerKinds(e.kind) /\ replies'[k].kind \notin Ends(e)
    BY <1>6, <1>7
  <2>2. replies'[k].kind = "rangeValue" \/ replies'[k].kind \in TreeParts
    BY <2>1, AnswerEnds
  <2>3. CASE replies'[k].kind = "rangeValue"
    <3>1. PICK h \in 1..(k - 1) : replies'[h].kind \in Headers /\ replies'[h].q = replies'[k].q
      <4>1. \/ k <= 0
            \/ \E h \in 1..(k - 1) : /\ replies'[h].kind \in Headers
                                     /\ replies'[h].q = replies'[k].q
                                     /\ k <= h + replies'[h].count
        BY <2>3 DEF Closed, Led
      <4>2. ~(k <= 0)
        BY <1>1
      <4> QED
        BY <4>1, <4>2
    <3>2. h \in DOMAIN replies'
      BY <1>1
    <3>3. /\ replies'[h].kind \in AnswerKinds(e.kind) /\ replies'[h].kind \notin Ends(e)
      BY <1>6, <1>7, <3>1, <3>2
    <3> QED
      BY <3>1, <3>3, AnswerEnds
  <2>4. CASE replies'[k].kind \in TreeParts
    <3>1. PICK j \in (k + 1)..Len(replies') : replies'[j].kind = "treeEnd" /\ replies'[j].q = replies'[k].q
      BY <2>4 DEF Closed, Ended
    <3>2. j \in DOMAIN replies'
      BY <1>1
    <3>3. /\ replies'[j].kind \in AnswerKinds(e.kind) /\ replies'[j].kind \notin Ends(e)
      BY <1>6, <1>7, <3>1, <3>2
    <3> QED
      BY <3>1, <3>3, AnswerEnds
  <2> QED
    BY <2>2, <2>3, <2>4
<1> QED
  BY <1>5, <1>7

(* The reply that an entry was waiting for last: it leaves the record. *)
LEMMA DeliverLast ==
    ASSUME QueryInv, Matched, Deliver, pending # <<>>, NEW e \in Entry, e = pending[1],
           \A o \in Askers : o # Asker(e) => OwingThen(o) = Owing(o),
           OwingThen(Asker(e)) = 0, Closed(replies', 0),
           pending' = Tail(pending), answers' = [answers EXCEPT ![e.q] = "right"]
    PROVE  QueryInv'
<1> DEFINE p == Len(pending')
<1>1. /\ UNCHANGED <<issuing, asked, others, ring, held, synth, traced>>
      /\ ~Halfway /\ ~Halfway' /\ InOrder' /\ Bounds'
      /\ Askers = {Asker(pending[k]) : k \in DOMAIN pending}
      /\ Askers' = {Asker(pending'[k]) : k \in DOMAIN pending'}
      /\ \A k \in DOMAIN replies' : \E j \in DOMAIN replies : replies'[k] = replies[j]
      /\ replies' \in Seq(ReplySet)
  BY DeliverLeaves
<1>2. pending \in Seq(Entry)
  BY DEF QueryInv, Types
<1>3. /\ pending' \in Seq(Entry) /\ p \in Nat /\ DOMAIN pending' = 1..p
      /\ DOMAIN pending = 1..(p + 1) /\ \A k \in 1..p : pending'[k] = pending[k + 1]
  BY <1>2, Dropped
<1> HIDE DEF p
<1>4. /\ \A k \in 1..p : k \in 1..(p + 1) /\ k + 1 \in 1..(p + 1) /\ 1 < k + 1
      /\ 1 \in 1..(p + 1)
      /\ \A k \in 1..(p + 1) : k # 1 => k - 1 \in 1..p /\ (k - 1) + 1 = k
      /\ \A i, j \in 1..p : i < j => i + 1 < j + 1
  BY <1>3
<1>5. /\ \A i, j \in 1..(p + 1) : i < j => pending[i].q < pending[j].q
      /\ \A k \in 1..(p + 1) : /\ pending[k].q <= asked /\ pending[k].q \in Nat
                               /\ k > 1 => pending[k].inRange = 0
                               /\ pending[k].kind \notin {"pairs", "ranges"} => pending[k].remaining = 1
  <2>1. \A k \in 1..(p + 1) : pending[k] \in Entry
    BY <1>2, <1>3
  <2>2. \A k \in 1..(p + 1) : pending[k].q \in Nat
    BY <2>1 DEF Entry
  <2> QED
    BY <1>3, <2>2 DEF QueryInv, Entries
<1>6. /\ Asker(e) \in Askers /\ Asker(e).q = e.q
      /\ \A k \in 1..(p + 1) : Asker(pending[k]) \in Askers /\ Asker(pending[k]).q = pending[k].q
      /\ \A k \in 1..(p + 1) : k # 1 => pending[k].q # e.q /\ Asker(pending[k]) # Asker(e)
  <2>1. \A k \in 1..(p + 1) : Asker(pending[k]) \in Askers
    BY <1>3, AskerFields
  <2>2. \A f : Asker(f).q = f.q
    BY DEF Asker
  <2>3. ASSUME NEW k \in 1..(p + 1), k # 1 PROVE pending[k].q # e.q /\ Asker(pending[k]) # Asker(e)
    <3>1. 1 < k /\ k \in Nat
      BY <1>3, <2>3
    <3>2. pending[1].q < pending[k].q /\ pending[1].q \in Nat /\ pending[k].q \in Nat
      BY <1>4, <1>5, <3>1
    <3>3. pending[k].q # e.q
      BY <3>2
    <3> QED
      BY <2>2, <3>3
  <2> QED
    BY <1>4, <2>1, <2>2, <2>3
<1>7. /\ \A k \in DOMAIN ring : ring[k].q # e.q
      /\ \A k \in DOMAIN replies' : replies'[k].q # e.q
  BY <1>6, NothingLeft
<1>8. \A o \in Askers : o.q # e.q => o \in Askers'
  <2> TAKE o \in Askers
  <2> HAVE o.q # e.q
  <2>1. PICK k \in 1..(p + 1) : o = Asker(pending[k])
    BY <1>1, <1>3
  <2>2. k # 1
    BY <1>6, <2>1
  <2>3. k - 1 \in 1..p /\ pending'[k - 1] = pending[k]
    BY <1>3, <1>4, <2>2
  <2> QED
    BY <1>1, <1>3, <2>1, <2>3
<1>9. Types'
  <2>1. e.q \in 1..MaxAsked
    <3>1. e.q \in Nat \ {0} /\ e.q <= asked /\ asked <= MaxAsked /\ asked \in Nat /\ MaxAsked \in Nat
      BY <1>4, <1>5, BoundAssumption DEF Entry, QueryInv, Types, Bounds
    <3> QED
      BY <3>1
  <2>2. answers' \in [1..MaxAsked -> {"none", "right"}]
    BY <2>1 DEF QueryInv, Types
  <2> QED
    BY <1>1, <1>3, <2>2 DEF QueryInv, Types, IssuingOK
<1>10. Entries'
  <2>1. \A i, j \in 1..p : i < j => pending'[i].q < pending'[j].q
    BY <1>3, <1>4, <1>5
  <2>2. \A k \in 1..p : /\ pending'[k].q <= asked
                        /\ k > 1 => pending'[k].inRange = 0
                        /\ pending'[k].kind \notin {"pairs", "ranges"} => pending'[k].remaining = 1
    <3> TAKE k \in 1..p
    <3>1. k + 1 \in 1..(p + 1) /\ k + 1 > 1 /\ pending'[k] = pending[k + 1]
      BY <1>3, <1>4
    <3> QED
      BY <1>5, <3>1
  <2>3. asked' = asked /\ DOMAIN pending' = 1..p
    BY <1>1, <1>3
  <2> QED
    BY <2>1, <2>2, <2>3 DEF Entries
<1>11. Commands'
  <2>1. ring' = ring /\ Commands
    BY <1>1 DEF QueryInv
  <2>2. \A k \in DOMAIN ring : Asker(ring[k]).q = ring[k].q
    BY DEF Asker
  <2> QED
    BY <1>7, <1>8, <2>1, <2>2 DEF Commands
<1>12. Owned'
  <2>1. /\ \A k \in DOMAIN replies' : \E j \in DOMAIN replies : replies'[k] = replies[j]
        /\ Owned
    BY <1>1 DEF QueryInv
  <2>2. ASSUME NEW k \in DOMAIN replies'
        PROVE  IF IsTrace(replies'[k]) THEN replies'[k].q = 0
               ELSE \E o \in Askers' : o.q = replies'[k].q /\ replies'[k].kind \in AnswerKinds(o.kind)
    <3>1. PICK j \in DOMAIN replies : replies'[k] = replies[j]
      BY <2>1
    <3>2. IF IsTrace(replies[j]) THEN replies[j].q = 0
          ELSE \E o \in Askers : o.q = replies[j].q /\ replies[j].kind \in AnswerKinds(o.kind)
      BY <2>1 DEF Owned
    <3>3. replies[j].q # e.q
      BY <1>7, <3>1
    <3> QED
      BY <1>8, <3>1, <3>2, <3>3
  <2> QED
    BY <2>2 DEF Owned
<1>13. Shape'
  <2>1. Mid' = 0
    <3>1. CASE p = 0
      <4>1. pending' = <<>>
        BY <1>3, <3>1 DEF p
      <4> QED
        BY <4>1 DEF Mid
    <3>2. CASE p # 0
      <4>1. 1 \in 1..p /\ pending' # <<>>
        <5>1. 1 \in 1..p
          BY <1>3, <3>2
        <5>2. pending' = <<>> => p = 0
          BY DEF p
        <5> QED
          BY <3>2, <5>1, <5>2
      <4>2. pending'[1].inRange = 0
        <5>1. 1 + 1 \in 1..(p + 1) /\ 1 + 1 > 1 /\ pending'[1] = pending[1 + 1]
          BY <1>3, <1>4, <4>1
        <5> QED
          BY <1>5, <5>1
      <4> QED
        BY <4>1, <4>2 DEF Mid
    <3> QED
      BY <3>1, <3>2
  <2>2. \A q : Begun(replies', 0, q)
    BY <1>1 DEF Begun
  <2> QED
    BY <2>1, <2>2 DEF Shape
<1>14. Counts'
  <2>1. ASSUME NEW k \in 1..p
        PROVE  pending'[k].remaining
                 = OwingThen(Asker(pending'[k])) + IF pending'[k].inRange > 0 THEN 1 ELSE 0
    <3>1. k + 1 \in 1..(p + 1) /\ k + 1 # 1 /\ pending'[k] = pending[k + 1]
      BY <1>3, <1>4
    <3>2. Asker(pending[k + 1]) # Asker(e) /\ Asker(pending[k + 1]) \in Askers
      BY <1>6, <3>1
    <3>3. OwingThen(Asker(pending[k + 1])) = Owing(Asker(pending[k + 1]))
      BY <3>2
    <3>4. k + 1 \in DOMAIN pending
      BY <1>3, <3>1
    <3> QED
      BY <3>1, <3>3, <3>4 DEF QueryInv, Counts
  <2> QED
    BY <1>1, <1>3, <2>1, CountsThen
<1> QED
  BY <1>1, <1>9, <1>10, <1>11, <1>12, <1>13, <1>14 DEF QueryInv

(* A reply is handed out. *)
LEMMA DeliverKeeps ==
    ASSUME QueryInv, Matched, Deliver
    PROVE  QueryInv'
<1> DEFINE r == Head(replies)
<1>1. CASE IsTrace(r)
  <2>1. /\ replies # <<>> /\ replies' = Tail(replies)
        /\ UNCHANGED <<issuing, pending, asked, others, answers, ring, engine>>
    BY <1>1 DEF Deliver
  <2> QED
    BY <1>1, <2>1, DeliverTrace
<1>2. CASE ~IsTrace(r)
  <2>1. PICK e : e = pending[1]
    OBVIOUS
  <2>2. /\ pending # <<>> /\ e \in Entry
        /\ \A o \in Askers : o # Asker(e) => OwingThen(o) = Owing(o)
        /\ \E x \in Nat, z \in Nat :
             /\ Closed(replies', x) /\ Begun(replies', x, e.q)
             /\ z = OwingThen(Asker(e)) + (IF x > 0 THEN 1 ELSE 0)
             /\ z <= e.remaining
             /\ IF z = 0
                THEN /\ pending' = Tail(pending)
                     /\ answers' = [answers EXCEPT ![e.q] = "right"]
                ELSE /\ pending' = <<Counted(e, x, z)>> \o Tail(pending)
                     /\ answers' = answers
    BY <1>2, <2>1, ReplyTaken
  <2>3. PICK x \in Nat, z \in Nat :
             /\ Closed(replies', x) /\ Begun(replies', x, e.q)
             /\ z = OwingThen(Asker(e)) + (IF x > 0 THEN 1 ELSE 0)
             /\ z <= e.remaining
             /\ IF z = 0
                THEN /\ pending' = Tail(pending)
                     /\ answers' = [answers EXCEPT ![e.q] = "right"]
                ELSE /\ pending' = <<Counted(e, x, z)>> \o Tail(pending)
                     /\ answers' = answers
    BY <2>2
  <2>4. CASE z = 0
    <3>1. OwingThen(Asker(e)) \in Nat
      <4>1. replies' \in Seq(ReplySet) /\ ring' \in Seq(Command)
        BY DeliverLeaves DEF QueryInv, Types
      <4>2. Tally(ring', QueriesOf(Asker(e).q)) \in Nat /\ Tally(replies', EndsOf(Asker(e))) \in Nat
        BY <4>1, TallyType
      <4> QED
        BY <4>2 DEF OwingThen
    <3>2. x = 0 /\ OwingThen(Asker(e)) = 0
      BY <2>3, <2>4, <3>1
    <3> QED
      BY <2>1, <2>2, <2>3, <2>4, <3>2, DeliverLast
  <2>5. CASE z # 0
    BY <2>1, <2>2, <2>3, <2>5, DeliverMore
  <2> QED
    BY <2>4, <2>5
<1> QED
  BY <1>1, <1>2

(* The invariant holds in every reachable state. *)
LEMMA Inductive ==
    ASSUME Matched
    PROVE  Spec => []QueryInv
<1>1. Init => QueryInv
  BY InitInv
<1>2. QueryInv /\ [Next]_vars => QueryInv'
  <2> SUFFICES ASSUME QueryInv, [Next]_vars PROVE QueryInv'
    OBVIOUS
  <2>1. CASE UNCHANGED vars
    <3>1. UNCHANGED <<issuing, pending, asked, others, answers, ring, replies, held, synth, traced>>
      BY <2>1 DEF vars, host, engine
    <3>2. (Halfway' <=> Halfway) /\ Types'
      BY <3>1 DEF Halfway, QueryInv, Types, IssuingOK
    <3>3. Placed'
      BY <3>1, <3>2, QuietKeeps
    <3>4. Bounds'
      BY <3>1 DEF QueryInv, Bounds, Traces
    <3> QED
      BY <3>2, <3>3, <3>4 DEF QueryInv, Placed
  <2>2. CASE \E m \in Messages : Begin(m)
    BY <2>2, BeginKeeps
  <2>3. CASE Push
    BY <2>3, PushKeeps
  <2>4. CASE Fail
    BY <2>4, FailKeeps
  <2>5. CASE Deliver
    BY <2>5, DeliverKeeps
  <2>6. CASE DrainCommand
    BY <2>6, DrainOther, DrainQuery
  <2>7. CASE ApplyDue
    BY <2>7, ApplyDueKeeps
  <2>8. CASE SynthEnds
    BY <2>8, SynthEndsKeeps
  <2>9. CASE DrainTrace
    BY <2>9, DrainTraceKeeps
  <2> QED
    BY <2>1, <2>2, <2>3, <2>4, <2>5, <2>6, <2>7, <2>8, <2>9 DEF Next
<1> QED
  BY <1>1, <1>2, PTL DEF Spec

(* No getter is ever answered by a reply to another's query: each reply    *)
(* that OscDispatcher::reply hands to its oldest outstanding query answers *)
(* that query.                                                             *)
THEOREM EveryAnswerIsItsOwn ==
    ASSUME Matched
    PROVE  Spec => []AnswersRight
<1>1. QueryInv => AnswersRight
  BY DEF QueryInv, Types, AnswersRight
<1> QED
  BY <1>1, Inductive, PTL

(* What is on its way when read from the replies' end: the number of an    *)
(* element is one of the replies' or of the ring's.                        *)
LEMMA WayIs ==
    ASSUME QueryInv
    PROVE  /\ DOMAIN OnTheWay = 1..(Len(replies) + Len(ring))
           /\ Len(replies) \in Nat /\ Len(ring) \in Nat
           /\ DOMAIN replies = 1..Len(replies) /\ DOMAIN ring = 1..Len(ring)
           /\ \A i \in DOMAIN OnTheWay :
                 \/ i \in DOMAIN replies /\ OnTheWay[i] = replies[i]
                 \/ /\ i > Len(replies) /\ i - Len(replies) \in DOMAIN ring
                    /\ OnTheWay[i] = ring[i - Len(replies)]
<1> DEFINE a == Len(replies)
           b == Len(ring)
           u == OnTheWay
<1>1. replies \in Seq(ReplySet) /\ ring \in Seq(Command)
  BY DEF QueryInv, Types
<1>2. /\ a \in Nat /\ b \in Nat /\ DOMAIN replies = 1..a /\ DOMAIN ring = 1..b
      /\ DOMAIN u = 1..(a + b)
      /\ \A i \in 1..a : u[i] = replies[i]
      /\ \A i \in 1..b : u[a + i] = ring[i]
  <2>1. \A s, t : s \in Seq(ReplySet) /\ t \in Seq(Command) =>
          /\ Len(s) \in Nat /\ Len(t) \in Nat /\ DOMAIN s = 1..Len(s) /\ DOMAIN t = 1..Len(t)
          /\ DOMAIN (s \o t) = 1..(Len(s) + Len(t))
          /\ \A i \in 1..Len(s) : (s \o t)[i] = s[i]
          /\ \A i \in 1..Len(t) : (s \o t)[Len(s) + i] = t[i]
    OBVIOUS
  <2> QED
    BY <1>1, <2>1 DEF OnTheWay
<1> HIDE DEF a, b, u
<1>3. \A i \in 1..(a + b) : i \in 1..a \/ (i > a /\ i - a \in 1..b /\ a + (i - a) = i)
  BY <1>2
<1>4. \A i \in 1..(a + b) : \/ i \in 1..a /\ u[i] = replies[i]
                            \/ i > a /\ i - a \in 1..b /\ u[i] = ring[i - a]
  <2> TAKE i \in 1..(a + b)
  <2>1. CASE i \in 1..a
    BY <1>2, <2>1
  <2>2. CASE i > a /\ i - a \in 1..b /\ a + (i - a) = i
    <3>1. u[a + (i - a)] = ring[i - a]
      BY <1>2, <2>2
    <3> QED
      BY <2>2, <3>1
  <2> QED
    BY <1>3, <2>1, <2>2
<1> QED
  BY <1>2, <1>4 DEF a, b, u

(* What the invariant says in the words of InStep. *)
LEMMA InvInStep ==
    ASSUME QueryInv, Matched
    PROVE  InStep
<1> DEFINE a == Len(replies)
           u == OnTheWay
<1>1. /\ replies \in Seq(ReplySet) /\ ring \in Seq(Command) /\ pending \in Seq(Entry)
      /\ held \in Seq(Deferred) /\ asked \in Nat /\ others \in Nat
      /\ answers \in [1..MaxAsked -> {"none", "right"}]
      /\ MaxAsked \in Nat /\ MaxOther \in Nat /\ ReplyCap \in Nat /\ Burst \in Nat
  BY BoundAssumption DEF QueryInv, Types, Burst
<1>2. /\ DOMAIN u = 1..(a + Len(ring)) /\ a \in Nat
      /\ DOMAIN replies = 1..a /\ DOMAIN ring = 1..Len(ring) /\ Len(ring) \in Nat
      /\ \A i \in DOMAIN u :
            \/ i \in DOMAIN replies /\ u[i] = replies[i]
            \/ /\ i > a /\ i - a \in DOMAIN ring
               /\ u[i] = ring[i - a]
  BY WayIs
<1>3. TypeOK
  <2>1. ASSUME NEW k \in DOMAIN pending
        PROVE  /\ pending[k].q \in 1..asked /\ pending[k].kind \in Getters
               /\ pending[k].remaining \in Nat \ {0}
    <3>1. pending[k] \in Entry /\ pending[k].q <= asked
      BY <1>1 DEF QueryInv, Entries
    <3>2. /\ pending[k].q \in Nat \ {0} /\ pending[k].kind \in Getters
          /\ pending[k].remaining \in Nat \ {0}
      BY <3>1 DEF Entry
    <3> QED
      BY <1>1, <3>1, <3>2
  <2>2. \A k \in DOMAIN ring : ring[k].q \in 0..(asked + 1)
    <3>1. \A k \in DOMAIN ring : ring[k].q \in Nat /\ ring[k].q <= asked + 1
      BY NumbersAre
    <3> QED
      BY <1>1, <3>1
  <2>3. Len(ring) <= RingCap /\ Len(held) <= SchedCap
    BY DEF QueryInv, Bounds
  <2>4. Len(replies) <= ReplyCap + Burst + 2 * MaxOther
    <3>1. PICK t \in Nat : t = Traces
      BY TracesType DEF QueryInv
    <3>2. a + 2 * t <= ReplyCap + Burst + 2 * others /\ t <= others /\ others <= MaxOther
      BY <3>1 DEF QueryInv, Bounds
    <3> HIDE DEF a
    <3>3. a <= ReplyCap + Burst + 2 * MaxOther
      BY <1>1, <1>2, <3>1, <3>2
    <3> QED
      BY <3>3 DEF a
  <2>5. asked \in 0..MaxAsked /\ others \in 0..MaxOther
    BY <1>1 DEF QueryInv, Bounds
  <2>6. answers \in [1..MaxAsked -> {"none", "right", "wrong"}]
    BY <1>1
  <2> QED
    BY <2>1, <2>2, <2>3, <2>4, <2>5, <2>6 DEF TypeOK
<1>4. ASSUME NEW i \in DOMAIN u, NEW j \in DOMAIN u, i < j, u[j].q # 0
      PROVE  u[i].q <= u[j].q
  <2> HIDE DEF u, a
  <2>1. i \in Nat /\ j \in Nat
    BY <1>2
  <2>2. CASE i \in DOMAIN replies /\ u[i] = replies[i] /\ j \in DOMAIN replies /\ u[j] = replies[j]
    BY <1>4, <2>2 DEF QueryInv, InOrder, Sorted
  <2>3. CASE i \in DOMAIN replies /\ u[i] = replies[i] /\ j - a \in DOMAIN ring /\ u[j] = ring[j - a]
    BY <1>4, <2>3 DEF QueryInv, InOrder, Before
  <2>4. CASE i > a /\ i - a \in DOMAIN ring /\ u[i] = ring[i - a] /\ j - a \in DOMAIN ring /\ u[j] = ring[j - a]
    <3>1. i - a < j - a
      BY <1>2, <1>4, <2>1
    <3>2. ring[j - a].q # 0
      BY <1>4, <2>4
    <3> QED
      BY <2>4, <3>1, <3>2 DEF QueryInv, InOrder, Sorted
  <2>5. ~(i > a /\ j \in DOMAIN replies)
    BY <1>2, <1>4, <2>1
  <2> QED
    BY <1>2, <2>2, <2>3, <2>4, <2>5
<1>5. \A o \in Askers : Asked(o.q)
  <2> TAKE o \in Askers
  <2>1. CASE \E k \in DOMAIN pending : o = Asker(pending[k])
    BY <2>1 DEF Asked, Asker
  <2>2. CASE Halfway /\ o = Issuing
    BY <2>2 DEF Asked, Halfway, Issuing
  <2> QED
    BY <2>1, <2>2, AskerFields
<1>6. ASSUME NEW i \in DOMAIN u, u[i].q # 0 PROVE Asked(u[i].q)
  <2> HIDE DEF u, a
  <2>1. CASE i \in DOMAIN replies /\ u[i] = replies[i]
    <3>1. \E o \in Askers : o.q = replies[i].q
      BY <1>6, <2>1 DEF QueryInv, Owned
    <3> QED
      BY <1>5, <2>1, <3>1
  <2>2. CASE i - a \in DOMAIN ring /\ u[i] = ring[i - a]
    <3>1. Asker(ring[i - a]) \in Askers
      BY <1>6, <2>2 DEF QueryInv, Commands
    <3>2. Asker(ring[i - a]).q = ring[i - a].q
      BY DEF Asker
    <3> QED
      BY <1>5, <2>2, <3>1, <3>2
  <2> QED
    BY <1>2, <2>1, <2>2
<1>7. ASSUME NEW k \in DOMAIN pending
      PROVE  pending[k].remaining = Cardinality(Queries(pending[k])) + Cardinality(Due(pending[k]))
                                      + IF pending[k].inRange > 0 THEN 1 ELSE 0
  <2>1. PICK e \in Entry : e = pending[k]
    BY <1>1
  <2>2. /\ Asker(e).q = e.q /\ e.q \in Nat /\ e.kind \in Getters
        /\ Asker(e) = [q |-> e.q, kind |-> e.kind] /\ Ends([kind |-> e.kind]) = Ends(e)
    BY DEF Entry, Asker, Ends
  <2>3. Queries(e) = Spots(ring, QueriesOf(Asker(e).q))
    <3>1. \A j \in DOMAIN ring : ring[j] \in QueriesOf(e.q) <=> ring[j].q = e.q
      BY <1>1, QueryIs
    <3> QED
      BY <2>2, <3>1 DEF Queries, Spots
  <2>4. Due(e) = Spots(replies, EndsOf(Asker(e)))
    <3>1. \A j \in DOMAIN replies : replies[j] \in EndsOf(Asker(e))
                                      <=> replies[j].q = e.q /\ replies[j].kind \in Ends(e)
      <4> TAKE j \in DOMAIN replies
      <4>1. replies[j] \in ReplySet
        BY <1>1
      <4>2. replies[j] \in EndsOf([q |-> e.q, kind |-> e.kind])
              <=> replies[j].q = e.q /\ replies[j].kind \in Ends([kind |-> e.kind])
        BY <2>2, <4>1, EndIs
      <4> QED
        BY <2>2, <4>2
    <3> QED
      BY <3>1 DEF Due, Spots
  <2>5. Owing(Asker(e)) = Cardinality(Queries(e)) + Cardinality(Due(e))
    BY <2>3, <2>4 DEF Owing, Tally
  <2>6. e.remaining = Owing(Asker(e)) + IF e.inRange > 0 THEN 1 ELSE 0
    BY <2>1 DEF QueryInv, Counts
  <2> QED
    BY <2>1, <2>5, <2>6
<1> QED
  BY <1>3, <1>4, <1>6, <1>7 DEF InStep, OnTheWay

(* The replies and queries on their way belong, in order, to the entries   *)
(* that wait and the message being issued, and each entry waits for        *)
(* exactly what is on its way to it.                                       *)
THEOREM GettersStayInStep ==
    ASSUME Matched
    PROVE  Spec => []InStep
<1>1. QueryInv => InStep
  BY InvInStep
<1> QED
  BY <1>1, Inductive, PTL

=============================================================================
