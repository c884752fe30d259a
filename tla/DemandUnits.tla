---- MODULE DemandUnits ----
(***************************************************************************)
(* Demand-rate sources (plyphon-unit/src/unit/demand): a graph of units    *)
(* that produce a value only when one is asked of them, and ask their own  *)
(* inputs for it. A plan is a sequence of units, each a kind and a         *)
(* sequence of inputs; an input is a constant or an earlier unit of the    *)
(* plan. Values are integers, NaN for an exhausted source, Inf for a       *)
(* length without end.                                                     *)
(*                                                                         *)
(* A pull runs on the audio thread from start to end, so it is a function  *)
(* of the state st: s, what each unit keeps; draws, the random numbers it  *)
(* will get; fuel, the list items it may still look at (a bound: a scan    *)
(* that uses it up is one that would not return); posts, what Dpoll sent;  *)
(* bad, whether an input that does not exist was indexed.                  *)
(***************************************************************************)
EXTENDS Integers, Sequences, SequencesExt

CONSTANTS NaN, Inf

Const(v) == <<"const", v>>
Source(u) == <<"source", u>>
Unit(kind, ins) == [kind |-> kind, ins |-> ins]

Plus(a, b)  == IF NaN \in {a, b} THEN NaN ELSE a + b
Times(a, b) == IF NaN \in {a, b} THEN NaN ELSE a * b
Above(a, b) == a # NaN /\ b # NaN /\ (a = Inf \/ (b # Inf /\ a > b))
IsPositive(a) == Above(a, 0)

\* x, worked out once for all its uses.
With(x, F(_)) == F(x)

Unlatched == -1
Reached(count, repeats) == repeats # Inf /\ count >= repeats

\* One shape of state for every kind; each uses the fields its struct has.  Dwrand
\* has picked no item yet.
Unpicked == 0
Blank(kind) ==
         [repeats |-> Unlatched, count |-> 0, index |-> IF kind = "dwrand" THEN Unpicked ELSE 2, fresh |-> TRUE, order |-> <<>>,
          value |-> 0, a |-> 0, b |-> 0, c |-> 0]

Ins(p, u) == p[u].ins
IsDemand(p, u, k) == Ins(p, u)[k][1] = "source"

\* A random integer below n; the draw is consumed in any case.
Draw(st, n) == IF n <= 0 \/ st.draws = <<>> THEN 0 ELSE Head(st.draws) % n
Drawn(st) == [st EXCEPT !.draws = IF @ = <<>> THEN @ ELSE Tail(@)]

----------------------------------------------------------------------------
(* The list sources differ in what their count counts, in how the next     *)
(* item is chosen, in where the items start and in whether the scan over   *)
(* exhausted items is bounded.                                             *)

Dseq  == [counts |-> "passes", picks |-> "next",    first |-> 2, bounded |-> TRUE]
Dser  == [counts |-> "items",  picks |-> "next",    first |-> 2, bounded |-> TRUE]
Drand == [counts |-> "items",  picks |-> "any",     first |-> 2, bounded |-> TRUE]
Dxrand == [counts |-> "items", picks |-> "other",   first |-> 2, bounded |-> TRUE]
Dshuf == [counts |-> "passes", picks |-> "shuffle", first |-> 2, bounded |-> FALSE]
\* The items follow the length, the weights' number and as many weights.  A source
\* in the place of that number reads as 0.
WeightsSize(p, u) == IF 2 \in DOMAIN Ins(p, u) /\ ~IsDemand(p, u, 2) THEN Ins(p, u)[2][2] ELSE 0
Dwrand(weights) == [counts |-> "items", picks |-> "weight", first |-> 3 + weights, bounded |-> FALSE]

ListKinds == {"dseq", "dser", "drand", "dxrand", "dshuf", "dwrand"}
List(p, u) == CASE p[u].kind = "dseq"  -> Dseq
               [] p[u].kind = "dser"   -> Dser
               [] p[u].kind = "drand"  -> Drand
               [] p[u].kind = "dxrand" -> Dxrand
               [] p[u].kind = "dshuf"  -> Dshuf
               [] p[u].kind = "dwrand" -> Dwrand(WeightsSize(p, u))

\* Where the next random pick goes.
Pick(p, st, u) ==
    LET L == List(p, u)
        n == Len(Ins(p, u))
        s == st.s[u]
    IN  CASE L.picks = "any"   -> 2 + Draw(st, n - 1)
          [] L.picks = "other" -> LET new == 2 + Draw(st, n - 2)
                                  IN  IF new < s.index THEN new ELSE new + 1
          [] L.picks = "weight" -> LET items == n - L.first + 1
                                       d == Draw(st, items + 1)
                                   IN  IF items <= 0 \/ d = items THEN s.index ELSE L.first + d
          [] OTHER -> s.index + 1

\* Mutant: the next item's source is not marked to start again.
AdvanceStale(p, st, u) ==
    LET L == List(p, u)
        random == L.picks \in {"any", "other", "weight"}
    IN  [ (IF random THEN Drawn(st) ELSE st) EXCEPT
            !.s[u].index = Pick(p, st, u),
            !.s[u].count = IF L.counts = "items" THEN @ + 1 ELSE @ ]

\* After an item's value, or its end: on to the next one.
Advance(p, st, u) ==
    LET L == List(p, u)
        random == L.picks \in {"any", "other", "weight"}
    IN  [ (IF random THEN Drawn(st) ELSE st) EXCEPT
            !.s[u].index = Pick(p, st, u),
            !.s[u].count = IF L.counts = "items" THEN @ + 1 ELSE @,
            !.s[u].fresh = TRUE ]

\* Past the last item: back to the first, which ends a pass.
Wrap(p, st, u) ==
    LET L == List(p, u)
    IN  IF L.picks \in {"next", "other", "shuffle"} /\ st.s[u].index > Len(Ins(p, u))
        THEN [st EXCEPT !.s[u].index = 2,
                        !.s[u].count = IF L.counts = "passes" THEN @ + 1 ELSE @]
        ELSE st

\* Swapping each entry with one from the rest of the table.
Scramble(order, draws) ==
    LET size == Len(order)
        swap[i \in 0 .. size] ==
            IF i = 0 THEN order
            ELSE IF i >= size THEN swap[i - 1]
            ELSE LET d == IF i \in DOMAIN draws THEN draws[i] ELSE 0
                     j == i + (d % (size - i + 1))
                 IN  [swap[i - 1] EXCEPT ![i] = swap[i - 1][j], ![j] = swap[i - 1][i]]
    IN  swap[size]

----------------------------------------------------------------------------

RECURSIVE Run(_, _, _, _), Scan(_, _, _, _)

\* What a unit is asked for through its table of methods.
Produce(p, st, u) == Run("produce", p, st, u)
Reset(p, st, u) == Run("reset", p, st, u).st

\* DemandCtx::demand and DemandCtx::reset.
Demand(p, st, u, k) ==
    IF k \notin DOMAIN Ins(p, u) THEN [v |-> NaN, st |-> [st EXCEPT !.bad = TRUE]]
    ELSE IF IsDemand(p, u, k) THEN Produce(p, st, Ins(p, u)[k][2])
    ELSE [v |-> Ins(p, u)[k][2], st |-> st]

ResetInput(p, st, u, k) ==
    IF k \notin DOMAIN Ins(p, u) THEN [st EXCEPT !.bad = TRUE]
    ELSE IF IsDemand(p, u, k) THEN Reset(p, st, Ins(p, u)[k][2])
    ELSE st

ResetInputs(p, st, u, ks) == FoldLeft(LAMBDA acc, k : ResetInput(p, acc, u, k), st, ks)

Ended(st) == [v |-> NaN, st |-> st]

AllInputs(p, u) == [k \in DOMAIN Ins(p, u) |-> k]

\* The length input is asked once a run, then kept.
Latch(p, st, u) ==
    IF st.s[u].repeats # Unlatched THEN st
    ELSE With(Demand(p, st, u, 1),
              LAMBDA r : [r.st EXCEPT !.s[u].repeats = IF r.v = NaN THEN 0 ELSE r.v])

\* The item under the index: Dshuf goes through its table.
ItemAt(p, s, u) == IF p[u].kind = "dshuf" THEN s.order[s.index - 1] ELSE s.index

\* Give the next value of the item under the index; pass over exhausted
\* items, which are reset when they are reached again.
Scan(p, st0, u, guard) == With(Wrap(p, st0, u), LAMBDA st :
    LET n == Len(Ins(p, u))
        s == st.s[u]
        k == ItemAt(p, s, u)
        on(r) == Advance(p, r.st, u)
    IN  IF Reached(s.count, s.repeats)
        THEN Ended(IF p[u].kind = "dshuf" THEN [st EXCEPT !.s[u].index = 2] ELSE st)
        ELSE IF p[u].kind = "dwrand" /\ (s.index = Unpicked \/ s.index > n) THEN Ended(st)
        ELSE IF k > n THEN Ended([st EXCEPT !.bad = TRUE])
        ELSE IF ~IsDemand(p, u, k)
        THEN [v |-> Ins(p, u)[k][2], st |-> Advance(p, st, u)]
        ELSE With(Demand(p, IF s.fresh THEN ResetInput(p, [st EXCEPT !.s[u].fresh = FALSE], u, k) ELSE st, u, k),
                  LAMBDA r : IF r.v # NaN THEN r
                             ELSE IF List(p, u).bounded /\ guard + 1 > 2 * n + 4 THEN Ended(on(r))
                             ELSE IF st.fuel = 0 THEN Ended(st)
                             ELSE Scan(p, [on(r) EXCEPT !.fuel = IF @ = 0 THEN 0 ELSE st.fuel - 1],
                                       u, guard + 1)))

ProduceList(p, st, u) ==
    IF List(p, u).bounded /\ Len(Ins(p, u)) < 2 THEN [v |-> NaN, st |-> st]
    ELSE Scan(p, Latch(p, st, u), u, 0)

ResetList(p, st, u) ==
    LET L == List(p, u)
        clean == [st EXCEPT !.s[u].repeats = Unlatched, !.s[u].count = 0, !.s[u].fresh = TRUE]
    IN  CASE L.picks = "next" -> [clean EXCEPT !.s[u].index = 2]
          [] L.picks = "shuffle" -> [clean EXCEPT !.s[u].index = 2,
                                       !.s[u].order = Scramble(@, st.draws)]
          [] OTHER -> [Drawn(clean) EXCEPT !.s[u].index = Pick(p, st, u)]

----------------------------------------------------------------------------
(* The sources of a counted run of values. Modulated inputs are asked      *)
(* again for every value and keep their last one when they are exhausted.  *)

\* Field f takes the next value of input k, unless that is exhausted.
Keep(p, st, u, k, f) ==
    With(Demand(p, st, u, k), LAMBDA r : IF r.v = NaN THEN r.st ELSE [r.st EXCEPT !.s[u][f] = r.v])

Counted(st, u) == [st EXCEPT !.s[u].count = @ + 1]
Over(st, u) == Reached(st.s[u].count, st.s[u].repeats)

\* [length, start, step or factor]
ProduceSeries(p, st, u, next(_, _)) ==
    With(Latch(p, Keep(p, st, u, 3, "a"), u), LAMBDA st2 :
    With(IF st.s[u].repeats # Unlatched THEN st2
         ELSE With(Demand(p, st2, u, 2), LAMBDA start : [start.st EXCEPT !.s[u].value = start.v]),
    LAMBDA st3 : IF Over(st3, u) THEN Ended(st3)
                 ELSE [v |-> st3.s[u].value,
                       st |-> [Counted(st3, u) EXCEPT !.s[u].value = next(@, st3.s[u].a)]]))

Dseries(p, st, u) == ProduceSeries(p, st, u, Plus)
Dgeom(p, st, u) == ProduceSeries(p, st, u, Times)

\* A point of the range, by a draw that is its low or its high end.
Between(lo, hi, d) == Plus(lo, Times(d, Plus(hi, Times(-1, lo))))

\* [length, lo, hi]
Dwhite(p, st, u) ==
    With(Latch(p, st, u), LAMBDA st1 :
    IF Over(st1, u) THEN Ended(st1)
    ELSE With(Demand(p, Counted(st1, u), u, 2), LAMBDA lo :
         With(Demand(p, lo.st, u, 3), LAMBDA hi :
         [v |-> Between(lo.v, hi.v, Draw(hi.st, 2)), st |-> Drawn(hi.st)])))

\* a is the low end, b the range: it is worked out when a new high end comes.
Diwhite(p, st, u) ==
    With(Demand(p, Keep(p, st, u, 2, "a"), u, 3), LAMBDA hi :
    With(Latch(p, IF hi.v = NaN THEN hi.st ELSE [hi.st EXCEPT !.s[u].b = hi.v - hi.st.s[u].a], u),
    LAMBDA st2 : IF Over(st2, u) THEN Ended(st2)
                 ELSE [v |-> Between(st2.s[u].a, st2.s[u].a + st2.s[u].b, Draw(st2, 2)),
                       st |-> Drawn(Counted(st2, u))]))

Fold(x, lo, hi) == IF hi <= lo THEN lo
                   ELSE LET c == (x - lo) % (2 * (hi - lo))
                        IN  lo + (IF c > hi - lo THEN 2 * (hi - lo) - c ELSE c)

\* [length, lo, hi, step]: a walk that folds at the ends of its range.
ProduceBrown(p, st, u) ==
    With(Latch(p, Keep(p, Keep(p, Keep(p, st, u, 2, "a"), u, 3, "b"), u, 4, "c"), u), LAMBDA st2 :
    LET s == st2.s[u] IN
    With(IF st.s[u].repeats # Unlatched THEN st2
         ELSE [Drawn(st2) EXCEPT !.s[u].value = Between(s.a, s.b, Draw(st2, 2))],
    LAMBDA st3 : IF Over(st3, u) THEN Ended(st3)
                 ELSE [v |-> st3.s[u].value,
                       st |-> [Drawn(Counted(st3, u)) EXCEPT
                                 !.s[u].value = Fold(@ + (Draw(st3, 3) - 1) * s.c, s.a, s.b)]]))

Dbrown(p, st, u) == ProduceBrown(p, st, u)
Dibrown(p, st, u) == ProduceBrown(p, st, u)

----------------------------------------------------------------------------
(* The sources that wrap another one.                                      *)

\* [n, in]
Ddup(p, st, u) ==
    IF ~Over(st, u) THEN [v |-> st.s[u].value, st |-> Counted(st, u)]
    ELSE With(Demand(p, st, u, 2), LAMBDA in :
         With(Demand(p, in.st, u, 1), LAMBDA n :
         IF NaN \in {in.v, n.v} THEN Ended(n.st)
         ELSE [v |-> in.v,
               st |-> [n.st EXCEPT !.s[u].value = in.v, !.s[u].repeats = n.v, !.s[u].count = 1]]))

\* The total and the tolerance, asked for once a run: v is NaN without them.
LatchSum(p, st, u) ==
    IF st.s[u].a >= 0 THEN [v |-> st.s[u].a, st |-> st]
    ELSE With(Demand(p, st, u, 1), LAMBDA total :
         With(Demand(p, total.st, u, 3), LAMBDA tolerance :
         IF NaN \in {total.v, tolerance.v} THEN Ended(tolerance.st)
         ELSE [v |-> total.v, st |-> [tolerance.st EXCEPT !.s[u].a = total.v, !.s[u].b = tolerance.v]]))

\* [sum, in, tolerance]: a is the total, b the tolerance, value the running
\* sum, NaN when the total has been given.
Dconst(p, st, u) ==
    IF st.s[u].value = NaN THEN Ended(st)
    ELSE With(LatchSum(p, st, u), LAMBDA latched :
         IF latched.v = NaN THEN latched
         ELSE With(Demand(p, latched.st, u, 2), LAMBDA in :
              LET s == latched.st.s[u]
                  sum == s.value + in.v
              IN  IF in.v = NaN THEN in
                  ELSE IF sum > s.a \/ s.a - sum <= s.b
                  THEN [v |-> s.a - s.value, st |-> [in.st EXCEPT !.s[u].value = NaN]]
                  ELSE [v |-> in.v, st |-> [in.st EXCEPT !.s[u].value = sum]]))

\* [in, reset]: value is the last reset input.
Dreset(p, st, u) ==
    With(Demand(p, st, u, 1), LAMBDA in :
    With(Demand(p, in.st, u, 2), LAMBDA reset :
    LET edge == IsPositive(reset.v) /\ ~IsPositive(st.s[u].value) /\ st.s[u].value # NaN
    IN  IF in.v = NaN THEN Ended(reset.st)
        ELSE [v |-> in.v,
              st |-> [ (IF edge THEN ResetInput(p, reset.st, u, 1) ELSE reset.st)
                       EXCEPT !.s[u].value = reset.v ]]))

\* [in, run]
Dpoll(p, st, u) ==
    With(Demand(p, st, u, 1), LAMBDA in :
    With(Demand(p, in.st, u, 2), LAMBDA run :
    [v |-> in.v,
     st |-> IF IsPositive(run.v) /\ in.v # NaN THEN [run.st EXCEPT !.posts = @ + 1] ELSE run.st]))

\* [a, b]
DemandBinaryOp(p, st, u) ==
    With(Demand(p, st, u, 1), LAMBDA a :
    With(Demand(p, a.st, u, 2), LAMBDA b : [v |-> Plus(a.v, b.v), st |-> b.st]))

DemandUnaryOp(p, st, u) ==
    With(Demand(p, st, u, 1), LAMBDA a : [v |-> Times(-1, a.v), st |-> a.st])

\* The input number of an item; x wraps into 0 .. hi. A NaN reads as 0.
Item(x, hi) == IF hi < 0 \/ x = NaN THEN 2 ELSE 2 + (x % (hi + 1))

DemandItem(p, st, u, k) == IF k \in DOMAIN Ins(p, u) THEN Demand(p, st, u, k) ELSE Ended(st)

\* [index, items...]
Dswitch1(p, st, u) ==
    With(Demand(p, st, u, 1), LAMBDA x :
    IF x.v = NaN THEN x ELSE DemandItem(p, x.st, u, Item(x.v, Len(Ins(p, u)) - 2)))

\* The first choice wraps at one more than the others do.
SelectFirst(p, st, u) ==
    With(Demand(p, st, u, 1), LAMBDA x : [x.st EXCEPT !.s[u].index = Item(x.v, Len(Ins(p, u)) - 1)])

\* On to the item the index input names: its value, then a reset of the old.
SwitchTo(p, st, u, index) ==
    LET old == st.s[u].index
    IN  With(DemandItem(p, st, u, index), LAMBDA new :
        [v |-> new.v,
         st |-> [ (IF old \in DOMAIN Ins(p, u) THEN ResetInput(p, new.st, u, old) ELSE new.st)
                  EXCEPT !.s[u].index = index ]])

Dswitch(p, st, u) ==
    With(DemandItem(p, st, u, st.s[u].index), LAMBDA v :
    IF v.v # NaN THEN v
    ELSE With(Demand(p, v.st, u, 1), LAMBDA x :
         IF x.v = NaN THEN x ELSE SwitchTo(p, x.st, u, Item(x.v, Len(Ins(p, u)) - 2))))

\* [bufnum, phase, loop]: the frame the phase falls on, or frame 0 of none.
\* sc_loop wraps a looping phase and stops another at the last frame.
BufFrame(phase, loop) == IF loop # 0 THEN phase % 2 ELSE IF phase < 0 THEN 0 ELSE IF phase > 1 THEN 1 ELSE phase

Dbufrd(p, st, u) ==
    With(Demand(p, Demand(p, st, u, 1).st, u, 2), LAMBDA phase :
    With(Demand(p, phase.st, u, 3), LAMBDA loop :
    IF phase.v = NaN THEN Ended(phase.st)
    ELSE [v |-> loop.st.buffer[1 + BufFrame(phase.v, loop.v)], st |-> loop.st]))

\* [in, bufnum, phase, loop]
Dbufwr(p, st, u) ==
    With(Demand(p, st, u, 1), LAMBDA in :
    With(Demand(p, Demand(p, in.st, u, 2).st, u, 3), LAMBDA phase :
    With(Demand(p, phase.st, u, 4), LAMBDA loop :
    IF NaN \in {in.v, phase.v} THEN Ended(loop.st)
    ELSE [v |-> in.v, st |-> [loop.st EXCEPT !.buffer[1 + BufFrame(phase.v, loop.v)] = in.v]])))

----------------------------------------------------------------------------

ProduceUnit(p, st, u) ==
    CASE p[u].kind \in ListKinds -> ProduceList(p, st, u)
      [] p[u].kind = "dseries"  -> Dseries(p, st, u)
      [] p[u].kind = "dgeom"    -> Dgeom(p, st, u)
      [] p[u].kind = "dwhite"   -> Dwhite(p, st, u)
      [] p[u].kind = "diwhite"  -> Diwhite(p, st, u)
      [] p[u].kind = "dbrown"   -> Dbrown(p, st, u)
      [] p[u].kind = "dibrown"  -> Dibrown(p, st, u)
      [] p[u].kind = "ddup"     -> Ddup(p, st, u)
      [] p[u].kind = "dconst"   -> Dconst(p, st, u)
      [] p[u].kind = "dreset"   -> Dreset(p, st, u)
      [] p[u].kind = "dpoll"    -> Dpoll(p, st, u)
      [] p[u].kind = "binary"   -> DemandBinaryOp(p, st, u)
      [] p[u].kind = "unary"    -> DemandUnaryOp(p, st, u)
      [] p[u].kind = "dswitch1" -> Dswitch1(p, st, u)
      [] p[u].kind = "dswitch"  -> Dswitch(p, st, u)
      [] p[u].kind = "dbufrd"   -> Dbufrd(p, st, u)
      [] p[u].kind = "dbufwr"   -> Dbufwr(p, st, u)

\* A counted run forgets its length and count; what wraps a source passes
\* the reset on.
ResetUnit(p, st, u) ==
    LET clean == [st EXCEPT !.s[u].repeats = Unlatched, !.s[u].count = 0]
        kind == p[u].kind
    IN  CASE kind \in ListKinds -> ResetList(p, st, u)
          [] kind \in {"dseries", "dgeom", "dwhite", "diwhite", "dbrown", "dibrown"} -> clean
          [] kind = "ddup" -> ResetInputs(p, clean, u, <<1, 2>>)
          [] kind = "dconst" -> ResetInputs(p, [st EXCEPT !.s[u].a = -1, !.s[u].value = 0], u, <<1, 2, 3>>)
          [] kind = "dreset" -> ResetInput(p, st, u, 1)
          [] kind = "dswitch" -> SelectFirst(p, ResetInputs(p, st, u, AllInputs(p, u)), u)
          [] OTHER -> ResetInputs(p, st, u, AllInputs(p, u))

Run(method, p, st, u) ==
    IF method = "produce" THEN ProduceUnit(p, st, u) ELSE Ended(ResetUnit(p, st, u))

\* The constructor pass: most units reset themselves.
Construct(p, st, u) ==
    LET kind == p[u].kind
    IN  CASE kind = "dshuf" -> Reset(p, [st EXCEPT !.s[u].order =
                                           [i \in 1 .. Len(Ins(p, u)) - 1 |-> i + 1]], u)
          [] kind = "dswitch" -> SelectFirst(p, st, u)
          [] kind = "unary" -> Produce(p, st, u).st
          [] kind \in {"dswitch1", "binary", "dpoll"} -> st
          [] OTHER -> Reset(p, st, u)

Constructed(p, st) == FoldLeft(LAMBDA acc, u : Construct(p, acc, u), st, [u \in DOMAIN p |-> u])
====
