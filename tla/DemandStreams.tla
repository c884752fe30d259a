---- MODULE DemandStreams ----
(***************************************************************************)
(* What a graph of demand sources means, as the sequence of values it      *)
(* gives, stated apart from the units' pulls; and what each driver should  *)
(* make of such a sequence. It covers the sources whose length inputs are  *)
(* constants and whose values are not drawn.                               *)
(***************************************************************************)
EXTENDS DemandDrivers

CONSTANT Horizon \* how many values of a stream are looked at

Upto(n) == IF n = Inf \/ n > Horizon THEN Horizon ELSE n
Cut(s) == SubSeq(s, 1, Upto(Len(s)))

Iterated(x0, x, n, op(_, _)) == LET v[i \in 1 .. n] == IF i = 1 THEN x0 ELSE op(v[i - 1], x) IN v

RECURSIVE Values(_, _), Filled(_, _, _)

\* The values of input k of unit u.
Stream(u, k) == IF IsDemand(plan, u, k) THEN Values(plan, Ins(plan, u)[k][2])
                ELSE [i \in 1 .. Horizon |-> Ins(plan, u)[k][2]]
Fixed(u, k) == Ins(plan, u)[k][2]

\* A list's item gives itself once, or a whole run of its source.
ItemRun(u, k) == IF IsDemand(plan, u, k) THEN Stream(u, k) ELSE <<Fixed(u, k)>>
Pass(u) == FlattenSeq([i \in 1 .. Len(Ins(plan, u)) - 1 |-> ItemRun(u, i + 1)])

\* pass after pass, as many as fit the horizon.
Filled(pass, left, acc) ==
    IF left = 0 \/ pass = <<>> \/ Len(acc) >= Horizon THEN acc
    ELSE Filled(pass, IF left = Inf THEN Inf ELSE left - 1, acc \o pass)

\* The values before the sum comes within the tolerance of the total, then
\* what is missing.
Capped(values, total, tolerance) ==
    LET sum[i \in 0 .. Len(values)] == IF i = 0 THEN 0 ELSE sum[i - 1] + values[i]
        ends == {i \in 1 .. Len(values) : sum[i] >= total - tolerance}
    IN  IF ends = {} THEN values
        ELSE LET e == CHOOSE i \in ends : \A j \in ends : i <= j
             IN  [i \in 1 .. e |-> IF i = e THEN total - sum[e - 1] ELSE values[i]]

\* The constructor of a unary operator asks for one value, which is lost
\* until a reset.
Primed(values) == IF again \/ values = <<>> THEN values ELSE Tail(values)

Values(p, u) ==
    LET kind == p[u].kind
        items == Len(Ins(p, u)) - 1
    IN  Cut(CASE kind = "dseq" -> Filled(Pass(u), Fixed(u, 1), <<>>)
              \* Its length counts runs of items, not values as its comment has it.
              [] kind = "dser" -> FlattenSeq([i \in 1 .. Upto(Fixed(u, 1)) |->
                                                ItemRun(u, 2 + ((i - 1) % items))])
              [] kind = "dseries" -> Iterated(Fixed(u, 2), Fixed(u, 3), Upto(Fixed(u, 1)), Plus)
              [] kind = "dgeom" -> Iterated(Fixed(u, 2), Fixed(u, 3), Upto(Fixed(u, 1)), Times)
              [] kind = "ddup" -> FlattenSeq([i \in 1 .. Len(Stream(u, 2)) |->
                                                [j \in 1 .. Fixed(u, 1) |-> Stream(u, 2)[i]]])
              [] kind = "dconst" -> Capped(Stream(u, 2), Fixed(u, 1), Fixed(u, 3))
              [] kind = "binary" -> [i \in 1 .. LET m == Len(Stream(u, 1)) n == Len(Stream(u, 2))
                                                IN  IF m < n THEN m ELSE n |->
                                       Stream(u, 1)[i] + Stream(u, 2)[i]]
              [] kind = "unary" -> [i \in 1 .. Len(Primed(Stream(u, 1))) |-> -Primed(Stream(u, 1))[i]]
              [] kind = "dpoll" -> Stream(u, 1)
              [] kind = "dswitch1" -> Stream(u, 2 + (Fixed(u, 1) % items)))

\* Value n of a stream that holds its last one; base before the first.
Held(values, n) == IF n = 0 \/ values = <<>> THEN base
                   ELSE values[IF n < Len(values) THEN n ELSE Len(values)]

----------------------------------------------------------------------------

Written == case.rate # "drawn"

\* How many of the durations have ended t half-frames after the start.
Ends(durs, t) ==
    LET sum[i \in 0 .. Len(durs)] == IF i = 0 THEN 0 ELSE sum[i - 1] + durs[i]
    IN  Cardinality({i \in 1 .. Len(durs) : sum[i] <= t})

\* Demand gives, with each trigger since the sources were reset, the next
\* value of its source as the graph is written - an item's source starts
\* again whenever its list comes back to it, an exhausted one is passed over,
\* a repeated, capped or scaled stream is that of its input - and then keeps
\* the last one (dseq.rs, dser.rs, ddup.rs, dconst.rs, demand_ugen.rs).
DemandsAsWritten ==
    Kind = "demand" /\ Written /\ since <= Horizon =>
        d.level = Held(Stream(Driver, DemandSource), since)

\* Duty holds, in every frame, the level whose turn the durations make it,
\* TDuty gives it in the first frame of its turn: a duration that ends
\* between two frames delays none of those after it, an exhausted duration
\* freezes the unit until a reset, and the done action is asked for exactly
\* when a turn comes that has no duration or (Duty) no level. The gap before
\* the first turn is not repeated by a reset (duty.rs, "fractional remainder
\* preserved for sample accuracy"). Turns are counted from the frame in which
\* the reset was taken: whether that is the one it was due in is not asked.
DutiesOnTime ==
    Kind \in {"duty", "tduty"} /\ Written /\ since \in 1 .. Horizon =>
        LET durs == Stream(Driver, Dur)
            levels == Stream(Driver, Level)
            gap == Kind = "tduty" /\ Ins(plan, Driver)[GapFirst] # Const(0) /\ ~again
            turn(n) == IF n = 0 THEN 0 ELSE Ends(durs, (n - 1) * FrameLen) + IF gap THEN 0 ELSE 1
            new == turn(since) # turn(since - 1)
            last == IF Kind = "duty" /\ Len(levels) < Len(durs) THEN Len(levels) ELSE Len(durs)
        IN  /\ out = IF Kind = "duty" THEN Held(levels, turn(since))
                     ELSE IF new /\ turn(since) <= Len(levels) THEN levels[turn(since)] ELSE 0
            /\ fired <=> new /\ turn(since) + (IF gap THEN 1 ELSE 0) > last

\* DemandEnvGen starts a segment when the running frames since the reset
\* make up the durations before it, and the segment goes to the level that
\* is next in its stream, for as long as the durations last; frames it does
\* not run in put it off by as much (demand_env_gen.rs).
EnvOnTime ==
    Kind = "env" /\ Written /\ since \in 1 .. Horizon /\ d.count # Inf =>
        LET durs == Stream(Driver, EnvDur)
            levels == Stream(Driver, EnvLevel)
            begun == 1 + Ends(durs, (since - 1) * FrameLen)
        IN  begun <= Len(durs) /\ begun < Len(levels) => d.level = levels[begun + 1]

\* Whatever drives the streams keeps their time.
DriversOnTime == DutiesOnTime /\ EnvOnTime

\* No pull looks at an input that is not there, and none goes on past the
\* bound on exhausted items (dseq.rs: "bound the scan so the audio thread
\* never hangs").
PullsReturn == ~st.bad /\ st.fuel > 0

\* What a demand graph gives is what it says, in finitely many pulls.
StreamsAsWritten == DemandsAsWritten /\ PullsReturn

-----------------------------------------------------------------------------
\* The graphs that are checked: every source at least once, and the ways
\* they nest.

C(v) == Const(v)
S(u) == Source(u)

Dm(units)  == units \o <<Unit("demand", <<C(0), C(0), S(Len(units))>>)>>
Dt(kind, units, dur, reset, level, gap) ==
    units \o <<Unit(kind, <<dur, reset, C(2), level, C(gap)>>)>>

Runs2 == Unit("dseq", <<C(2), C(1), C(2)>>)
Runs3 == Unit("dser", <<C(3), C(4), C(5)>>)
Up    == Unit("dseries", <<C(2), C(1), C(1)>>)
None  == Unit("dser", <<C(0), C(9)>>)

Writ(p) == [plan |-> p, rate |-> "control", draws |-> {<<>>}]
\* The trigger and the reset of these may rise with any frame, so that a list is
\* left and come back to, and reset at any of its values.
Lists == { <<Up, Unit("dseq", <<C(n), S(1), C(7)>>)>> : n \in {0, 1, 2, Inf} }
    \cup { <<Up, None, Unit("dseq", <<C(2), S(2), S(1)>>)>>,
           <<None, Unit("dseq", <<C(Inf), S(1), S(1)>>)>>,
           <<Runs2, Unit("dser", <<C(4), S(1), C(8)>>)>>,
           <<Runs3, Unit("ddup", <<C(2), S(1)>>)>>,
           <<Up, Unit("dseq", <<C(Inf), S(1)>>), Unit("dconst", <<C(4), S(2), C(0)>>), Unit("dseq", <<C(2), S(3), C(9)>>)>>,
           <<Up, Runs3, Unit("binary", <<S(1), S(2)>>), Unit("unary", <<S(3)>>)>>,
           <<Unit("dgeom", <<C(3), C(1), C(2)>>), Unit("dpoll", <<S(1), C(1)>>)>>,
           <<Runs2, Up, Unit("dswitch1", <<C(3), S(1), S(2)>>)>> }

WrittenLists == {[Writ(Dm(units)) EXCEPT !.rate = "audio"] : units \in Lists}

Durs == Unit("dseq", <<C(2), C(3), C(2)>>)
Levels == Unit("dseq", <<C(Inf), C(1), C(2), C(3)>>)
ShortLevels == Unit("dseq", <<C(1), C(1), C(2)>>)
Resets == Unit("dseq", <<C(Inf), C(6), C(8)>>)
WrittenDuties ==
    { [Writ(Dt(kind, <<Durs, levels>>, S(1), C(0), S(2), gap)) EXCEPT !.rate = rate] :
        kind \in {"duty", "tduty"}, levels \in {Levels, ShortLevels}, gap \in {0, 1}, rate \in {"control", "audio"} }
    \cup { Writ(Dt(kind, <<Durs, Levels, Resets>>, S(1), S(3), S(2), 0)) : kind \in {"duty", "tduty"} }
    \cup { Writ(Dt("tduty", <<None>>, S(1), C(0), C(1), 1)) }

WrittenEnvs ==
    { [Writ(<<durs, levels, Unit("env", <<S(2), S(1)>>)>>) EXCEPT !.rate = rate] :
        durs \in {Durs, Unit("dseq", <<C(Inf), C(5)>>)}, levels \in {Levels, ShortLevels}, rate \in {"control", "gate"} }

Drawn2 == [1 .. 2 -> {0, 1, 2}]
Rand(units) == [plan |-> Dm(units), rate |-> "drawn", draws |-> Drawn2]
Drawing ==
    { Rand(<<Up, Unit(kind, <<C(2), S(1), C(7), C(8)>>)>>) : kind \in {"drand", "dxrand", "dshuf"} }
    \cup { Rand(<<None, Unit("drand", <<C(Inf), S(1), S(1)>>)>>),
           Rand(<<None, Unit("dshuf", <<C(2), S(1), C(7)>>)>>),
           Rand(<<Up, Unit("dwrand", <<C(2), C(2), C(1), C(1), S(1), C(7)>>)>>),
           Rand(<<Unit("dwrand", <<C(3), C(2), C(1), C(1), C(5), C(7)>>)>>),
           Rand(<<Unit("dwhite", <<C(2), C(0), C(4)>>), Unit("dreset", <<S(1), C(0)>>)>>),
           Rand(<<Unit("diwhite", <<C(2), C(0), C(4)>>), Unit("dbrown", <<C(2), C(0), S(1), C(1)>>)>>),
           Rand(<<Unit("dwhite", <<C(Inf), C(0), C(2)>>), Runs2, Up,
                  Unit("dswitch", <<S(1), S(2), S(3)>>)>>),
           Rand(<<Unit("dwhite", <<C(Inf), C(0), C(3)>>), Runs2, Up,
                  Unit("dswitch1", <<S(1), S(2), S(3)>>)>>),
           Rand(<<Unit("dwhite", <<C(Inf), C(-1), C(2)>>), Unit("dbufwr", <<S(1), C(0), S(1), C(1)>>),
                  Unit("dbufrd", <<C(0), S(2), C(0)>>)>>) }

AllCases == WrittenLists \cup WrittenDuties \cup WrittenEnvs \cup Drawing
====
