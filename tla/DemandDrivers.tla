---- MODULE DemandDrivers ----
(***************************************************************************)
(* The units that pull demand sources (plyphon-unit/src/unit/demand):      *)
(* Demand on a trigger, Duty and TDuty after each duration, DemandEnvGen   *)
(* after each segment. A case is a plan whose last unit is the driver; one *)
(* step is one frame of the driver, of which an audio-rate one has Block   *)
(* to a block. Durations count half-frames, so that a duration may end     *)
(* between two frames.                                                     *)
(***************************************************************************)
EXTENDS DemandUnits

CONSTANTS
    Cases,      \* records [plan, rate, draws]: the rate of the inputs, the draws of a frame
    Block,      \* frames in a block
    MaxFrames,  \* bound: frames a behaviour runs
    Fuel        \* bound: exhausted list items looked past in one frame

DriverSizesOK == Block \in Nat \ {0} /\ MaxFrames \in Nat /\ Fuel \in Nat \ {0}

VARIABLES case, st, d, out, fired, knobs, frame, since, base, again
vars == <<case, st, d, out, fired, knobs, frame, since, base, again>>
(* d is the driver's own state; knobs what its trigger or gate, and its    *)
(* reset input carry; fired whether the frame asked for the done action.   *)
(* since counts frames (Demand: pulls; DemandEnvGen: running frames) since *)
(* the sources were last reset, base is the output before that, again      *)
(* whether there was a reset.                                              *)

plan == case.plan
Driver == Len(plan)
Kind == plan[Driver].kind

Trig == 1    \* Demand [trig, reset, source]
DemandSource == 3
Dur == 1     \* Duty, TDuty [dur, reset, done, level, gap]
ResetInp == 2
Level == 4
GapFirst == 5
EnvLevel == 1  \* DemandEnvGen [level, dur, ...]
EnvDur == 2

FrameLen == 2

Idle == [count |-> 0, level |-> 0, prevReset |-> 0, prevTrig |-> 0,
         running |-> FALSE, release |-> FALSE]

\* A count in half-frames: NaN freezes it, Inf stands for f32::MAX.
Elapsed(count) == count \notin {NaN, Inf} /\ count <= 0
Later(count, x) == IF NaN \in {count, x} THEN NaN ELSE IF Inf \in {count, x} THEN Inf ELSE count + x

Now(r, k) == Demand(plan, r, Driver, k)
Restart(r, ks) == ResetInputs(plan, r, Driver, ks)

----------------------------------------------------------------------------

\* What changes the inputs of a driver that runs at audio rate: a trigger, a
\* gate or a reset input of control rate holds its value for a block.  (A driver
\* at control rate has one frame to a block: "audio" stands for that, too.)  The
\* gate of DemandEnvGen may lie between off and on.
Knobs == [go : IF Kind = "env" THEN {0, 1, 2} ELSE {0, 1}, reset : {0, 1}]
PerFrame == case.rate \in {"audio", "gate"}
NextKnobs(f) == IF PerFrame \/ f % Block = 0 THEN Knobs ELSE {knobs}
Releasing == 1

DemandReset == IsDemand(plan, Driver, ResetInp)

\* reset_stage: a rising reset, or the end of a pulled reset duration.
ResetStage(r, reset) ==
    LET due == IF DemandReset THEN Elapsed(d.prevReset) ELSE reset > 0 /\ d.prevReset <= 0
        count == IF due THEN 0 ELSE d.count
    IN  With(IF due THEN Restart(r, <<Level, Dur>>) ELSE r, LAMBDA clean :
        IF ~DemandReset
        THEN [due |-> due, st |-> clean, d |-> [d EXCEPT !.count = count, !.prevReset = reset]]
        ELSE With(IF due THEN Now(clean, ResetInp) ELSE [v |-> -FrameLen, st |-> clean], LAMBDA pulled :
             [due |-> due, st |-> pulled.st,
              d |-> [d EXCEPT !.count = count, !.prevReset = Later(@, pulled.v)]]))

\* The first reset duration is pulled by the constructor.
InitialReset(r) == IF DemandReset THEN Now(r, ResetInp) ELSE [v |-> 0, st |-> r]

Silent(st1, d1) == [st |-> st1, d |-> d1, out |-> 0, fired |-> FALSE]

\* Mutant: the rest of the last duration is dropped.
RefillDrifts(s) ==
    With(Now(s.st, Dur), LAMBDA dur :
    With(Now(dur.st, Level), LAMBDA level :
    LET d1 == [s.d EXCEPT !.count = dur.v, !.level = IF level.v = NaN THEN @ ELSE level.v]
    IN  [st |-> level.st, d |-> d1, out |-> d1.level, fired |-> NaN \in {d1.count, level.v}]))

\* The next duration, added to what is left of the last, and its level.
Refill(s) ==
    With(Now(s.st, Dur), LAMBDA dur :
    With(Now(dur.st, Level), LAMBDA level :
    LET d1 == [s.d EXCEPT !.count = Later(@, dur.v), !.level = IF level.v = NaN THEN @ ELSE level.v]
    IN  [st |-> level.st, d |-> d1, out |-> d1.level, fired |-> NaN \in {d1.count, level.v}]))

\* A frame of either: the reset, a fresh turn when the count has run down.
Timed(s, Turn(_), Else(_)) ==
    With(IF Elapsed(s.d.count) THEN Turn(s) ELSE Else(s), LAMBDA f :
    [st |-> f.st, d |-> [f.d EXCEPT !.count = Later(@, -FrameLen)], out |-> f.out, fired |-> f.fired,
     since |-> IF s.due THEN 1 ELSE since + 1, base |-> base, again |-> again \/ s.due])

\* Duty::frame holds the level.
DutyFrame(r, k) ==
    With(ResetStage(r, k.reset), LAMBDA s :
    Timed(s, Refill, LAMBDA h : [Silent(h.st, h.d) EXCEPT !.out = h.d.level]))

Fire(s) ==
    With(Now(s.st, Dur), LAMBDA dur :
    With(Now(dur.st, Level), LAMBDA level :
    [st |-> level.st, d |-> [s.d EXCEPT !.count = Later(@, dur.v)],
     out |-> IF level.v = NaN THEN 0 ELSE level.v, fired |-> Later(s.d.count, dur.v) = NaN]))

\* TDuty::frame: the level for one frame, 0 between.
TDutyFrame(r, k) ==
    With(ResetStage(r, k.reset), LAMBDA s : Timed(s, Fire, LAMBDA h : Silent(h.st, h.d)))

\* Demand::process: a rising reset, then a rising trigger.
DemandFrame(r, k) ==
    LET due == k.reset > 0 /\ d.prevReset <= 0
        pull == k.go > 0 /\ d.prevTrig <= 0
        level(v) == IF v = NaN THEN d.level ELSE v
    IN  With(IF due THEN Restart(r, <<DemandSource>>) ELSE r, LAMBDA st1 :
        With(IF pull THEN Now(st1, DemandSource) ELSE [v |-> NaN, st |-> st1], LAMBDA x :
        [st |-> x.st, out |-> level(x.v), fired |-> FALSE, again |-> again \/ due,
         d |-> [d EXCEPT !.level = level(x.v), !.prevTrig = k.go, !.prevReset = k.reset],
         since |-> (IF due THEN 0 ELSE since) + (IF pull THEN 1 ELSE 0),
         base |-> IF due THEN d.level ELSE base]))

----------------------------------------------------------------------------
(* DemandEnvGen: count is the phase, level the end level of the segment    *)
(* under way.                                                              *)

\* begin_segment: an exhausted duration stops the envelope in a segment
\* without end, an exhausted level ends the segment at once.
Segment(r, e) ==
    With(Now(r, EnvDur), LAMBDA dur :
    With(Now(dur.st, EnvLevel), LAMBDA end :
    [st |-> end.st,
     d |-> [e EXCEPT !.count = IF end.v = NaN THEN 0 ELSE IF dur.v = NaN THEN Inf ELSE Later(@, dur.v),
                     !.level = IF end.v = NaN THEN @ ELSE end.v,
                     !.running = @ /\ dur.v # NaN,
                     !.release = @ \/ NaN \in {dur.v, end.v}]]))

\* A rising reset starts again, past the first level.
EnvEdge(r, e, edge) ==
    IF ~edge THEN [st |-> r, d |-> e]
    ELSE [st |-> Now(Restart(r, <<EnvLevel, EnvDur>>), EnvLevel).st,
          d |-> [e EXCEPT !.release = FALSE, !.running = TRUE, !.count = 0]]

\* The end of a segment: the release that was scheduled, or the next one.
EnvTurn(s) ==
    IF ~(Elapsed(s.d.count) /\ s.d.running) THEN s
    ELSE IF s.d.release THEN [st |-> s.st, d |-> [s.d EXCEPT !.running = FALSE, !.release = FALSE]]
    ELSE Segment(s.st, s.d)

\* One frame: an edge of reset, the end of a segment, a step along it. The
\* gate decides whether the next calc runs; it schedules a release, and the
\* reset is kept, with each frame if it is read at audio rate.
EnvFrame(r, e, k, ends) ==
    LET edge == k.reset > 0 /\ e.prevReset <= 0
        reads == PerFrame \/ ends
    IN  With(EnvEdge(r, e, edge), LAMBDA s :
        With(EnvTurn(s), LAMBDA t :
        [st |-> t.st, edge |-> edge, ran |-> t.d.running,
         done |-> s.d.release /\ s.d.running /\ Elapsed(s.d.count),
         d |-> [t.d EXCEPT !.count = IF t.d.running THEN Later(@, -FrameLen) ELSE @,
                           !.running = IF ends THEN k.go > 0 ELSE @,
                           !.release = @ \/ (reads /\ k.go = Releasing),
                           !.prevReset = IF reads THEN k.reset ELSE @]]))

DemandEnvGenFrame(r, k) ==
    With(EnvFrame(r, d, k, (frame + 1) % Block = 0), LAMBDA f :
    [st |-> f.st, d |-> f.d, out |-> f.d.level, fired |-> f.done, base |-> base,
     since |-> (IF f.edge THEN 0 ELSE since) + (IF f.ran THEN 1 ELSE 0),
     again |-> again \/ f.edge])

----------------------------------------------------------------------------

Fresh(c, draws) ==
    Constructed(SubSeq(c.plan, 1, Len(c.plan) - 1),
                [s |-> [u \in 1 .. Len(c.plan) |-> Blank(c.plan[u].kind)], draws |-> draws, fuel |-> Fuel,
                 posts |-> 0, bad |-> FALSE, buffer |-> <<5, 6>>])

\* The driver's own constructor, after those of its sources.
ConstructDuty(r) ==
    With(InitialReset(r), LAMBDA reset :
    With(Now(reset.st, Dur), LAMBDA dur :
    With(Now(dur.st, Level), LAMBDA level :
    [st |-> level.st, out |-> level.v, since |-> 0,
     d |-> [Idle EXCEPT !.prevReset = reset.v, !.count = dur.v, !.level = level.v]])))

ConstructTDuty(r) ==
    With(InitialReset(r), LAMBDA reset :
    With(IF Ins(plan, Driver)[GapFirst] = Const(0) THEN [v |-> 0, st |-> reset.st]
         ELSE Now(reset.st, Dur), LAMBDA dur :
    [st |-> dur.st, out |-> 0, since |-> 0,
     d |-> [Idle EXCEPT !.prevReset = reset.v, !.count = dur.v]]))

ConstructEnv(r, k) ==
    With(Now(r, EnvLevel), LAMBDA start :
    With(EnvFrame(start.st, [Idle EXCEPT !.level = IF start.v = NaN THEN 0 ELSE start.v,
                                         !.running = k.go > 0], k, TRUE), LAMBDA f :
    [st |-> f.st, out |-> f.d.level, since |-> IF f.ran THEN 1 ELSE 0, d |-> f.d]))

InitDriver(r, k) ==
    CASE Kind = "duty"   -> ConstructDuty(r)
      [] Kind = "tduty"  -> ConstructTDuty(r)
      [] Kind = "demand" -> [st |-> r, out |-> 0, since |-> 0, d |-> Idle]
      [] Kind = "env"    -> ConstructEnv(r, k)

Init ==
    /\ case \in Cases
    /\ knobs \in Knobs
    /\ frame = 0
    /\ fired = FALSE
    /\ base = 0
    /\ again = FALSE
    /\ \E draws \in case.draws : \E f \in {InitDriver(Fresh(case, draws), knobs)} :
          st = f.st /\ d = f.d /\ out = f.out /\ since = f.since

Step(kind, Frame(_, _)) ==
    /\ Kind = kind
    /\ frame < MaxFrames
    /\ frame' = frame + 1
    /\ UNCHANGED case
    /\ knobs' \in NextKnobs(frame)
    /\ \E draws \in case.draws : \E f \in {Frame([st EXCEPT !.draws = draws, !.fuel = Fuel], knobs')} :
          /\ st' = f.st
          /\ d' = f.d
          /\ out' = f.out
          /\ fired' = f.fired
          /\ since' = f.since
          /\ base' = f.base
          /\ again' = f.again

Next ==
    \/ Step("demand", DemandFrame)
    \/ Step("duty", DutyFrame)
    \/ Step("tduty", TDutyFrame)
    \/ Step("env", DemandEnvGenFrame)

Spec == Init /\ [][Next]_vars
====
