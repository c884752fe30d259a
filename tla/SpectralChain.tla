----------------------------- MODULE SpectralChain -----------------------------
(***************************************************************************)
(* An FFT chain, a block at a time: an analysis (FFT) or an announcement   *)
(* (FFTTrigger) of chain buffer 1, a second analysis in buffer 2 for the   *)
(* units that take a pair, the spectral units in the order of the graph,   *)
(* and the resynthesis (IFFT).  A spectrum is the input samples it was made*)
(* of and the form its bins are really in, beside the form the buffer says.*)
(* Samples are numbered from 1 as the analysis takes them; the zeros the   *)
(* ring starts with are numbered back from 0.                              *)
(*                                                                         *)
(* A chain u is [source, polar, size, hop, hop2, ops]: hops in samples, and*)
(* of each unit what SpectralUnits says of its frames.                     *)
(***************************************************************************)
EXTENDS SpectralUnits, SequencesExt, FiniteSets

CONSTANT ChainBlock     \* samples in a control block

NotReady == 0
With(x, F(_)) == F(x)

Analysis(size) == [pos |-> 0, counter |-> 0, taken |-> 0, ring |-> [i \in 0 .. size - 1 |-> i + 1 - size], frame |-> <<>>]
Blank(size, form) == [size |-> size, coord |-> form, form |-> form, frame |-> <<>>, at |-> 0]
NewUnit == [bins |-> 0, table |-> "dirty", latch |-> FALSE, prev |-> 0, dead |-> FALSE]

\* FFTTrigger counts the blocks to its next frame.
Periods(u) == u.hop \div ChainBlock - 1

ChainStart(u) ==
    [fft    |-> <<Analysis(u.size), Analysis(u.size)>>,
     wait   |-> Periods(u),
     bufs   |-> <<Blank(u.size, IF u.source = "trigger" /\ u.polar THEN "polar" ELSE "complex"), Blank(u.size, "complex")>>,
     units  |-> [k \in DOMAIN u.ops |-> NewUnit],
     wire   |-> NotReady,      \* the chain as the next unit finds it
     second |-> NotReady,      \* the second chain
     size   |-> 0,             \* the IFFT's, from its first ready frame
     ring   |-> <<>>,          \* its overlap-add ring: analyses and samples
     head   |-> 0,
     out    |-> <<>>,          \* what it put out in this block
     blocks |-> 0,
     swaps  |-> 0,             \* times the host replaced buffer 1
     trigs  |-> <<>>,          \* the units' trigger input, block by block
     met    |-> {},            \* blocks a unit with an order worked on a frame in
     drew   |-> {},            \* and those it drew one in
     stale  |-> FALSE]         \* whether a table was read that nothing had filled
--------------------------------------------------------------------------------
\* One sample of Fft::process.
Take(f, size, hop) ==
    With([f EXCEPT !.ring[f.pos] = f.taken + 1, !.pos = (@ + 1) % size, !.taken = @ + 1, !.counter = @ + 1], LAMBDA g :
    IF g.counter < hop THEN g
    ELSE [g EXCEPT !.counter = 0, !.frame = [j \in 0 .. size - 1 |-> g.ring[(g.pos + j) % size]]])

\* A block of it: a frame that is complete goes to the chain buffer, if it is
\* (still) as long as the analysis.
Analyse(u, s, c, hop, active) ==
    With(FoldLeft(LAMBDA g, i : IF active THEN Take(g, u.size, hop) ELSE g,
                  [s.fft[c] EXCEPT !.frame = <<>>], [i \in 1 .. ChainBlock |-> i]), LAMBDA f :
    LET ready == f.frame # <<>> /\ s.bufs[c].size = u.size
        wire == IF ready THEN c ELSE NotReady
    IN  [s EXCEPT !.fft[c] = f,
                  !.bufs[c] = IF ready THEN [size |-> u.size, coord |-> "complex", form |-> "complex",
                                             frame |-> f.frame, at |-> f.taken] ELSE @,
                  !.wire = IF c = 1 THEN wire ELSE @,
                  !.second = IF c = 2 THEN wire ELSE @])

\* FftTrigger::process
Announce(u, s) ==
    IF s.wait > 0 THEN [s EXCEPT !.wait = @ - 1, !.wire = NotReady]
    ELSE [s EXCEPT !.wait = Periods(u), !.wire = 1]
--------------------------------------------------------------------------------
\* Mutant: the bins are converted and the buffer is not told.
ConvertUnmarked(b, form) ==
    IF form = "stored" \/ b.coord = form THEN b
    ELSE [b EXCEPT !.form = IF b.form = b.coord THEN form ELSE "garbled"]

\* pv::to_polar, pv::to_complex: a buffer already in the form is left alone, and
\* what the buffer says is what is converted from.
Convert(b, form) ==
    IF form = "stored" \/ b.coord = form THEN b
    ELSE [b EXCEPT !.coord = form, !.form = IF b.form = b.coord THEN form ELSE "garbled"]

\* The bins of the frame the unit works on, and of its pair.
Work(op, s) ==
    With([s EXCEPT !.bufs = [c \in 1 .. 2 |-> IF c = s.wire \/ (op.pair /\ c = s.second) THEN Convert(@[c], op.form) ELSE @[c]]],
    LAMBDA a :
    CASE op.copies -> [a EXCEPT !.bufs[s.second] = a.bufs[s.wire]]
      [] op.pair /\ ~op.copies /\ a.bufs[s.wire].form # a.bufs[s.second].form -> [a EXCEPT !.bufs[s.wire].form = "mixed"]
      [] OTHER -> a)

\* Reorder::latch, at the head of every block, frame or not.
Latched(unit, trig) ==
    [unit EXCEPT !.latch = @ \/ (trig > 0 /\ unit.prev <= 0), !.prev = trig]

\* The memory of a unit that has it from its first frame, and what it fills of
\* it: a scratch in every frame, an order when it is asked for one and in the
\* first frame, held magnitudes in the first frame and while it does not freeze.
Fills(op, unit, first, trig) ==
    \/ op.keeps = "scratch"
    \/ op.keeps = "order" /\ (first \/ unit.latch)
    \/ op.keeps = "hold" /\ (first \/ trig = 0)

Frame(op, k, s, trig) ==
    LET unit == s.units[k]
        first == unit.bins = 0
        fills == Fills(op, unit, first, trig)
    IN  Work(op, [s EXCEPT !.units[k] =
                               [unit EXCEPT !.bins = IF op.keeps = "none" THEN 0 ELSE s.bufs[s.wire].size,
                                            !.table = IF fills THEN "filled" ELSE @,
                                            !.latch = first /\ @],
                           !.met = IF op.keeps = "order" THEN @ \cup {s.blocks} ELSE @,
                           !.drew = IF op.keeps = "order" /\ fills THEN @ \cup {s.blocks} ELSE @,
                           !.stale = @ \/ (op.keeps # "none" /\ ~fills /\ unit.table = "dirty")])

\* One spectral unit in a block.  A pair is ready when both chains are; a frame
\* of another size than the first one goes by; a unit that gets no memory is
\* silenced.
Spectral(u, k, s, x) ==
    LET op == u.ops[k]
        now == IF op.keeps = "order" THEN [s EXCEPT !.units[k] = Latched(@, x.trig)] ELSE s
        ready == s.wire # NotReady /\ (op.pair => s.second # NotReady)
        fits == op.pair => s.bufs[s.wire].size = s.bufs[s.second].size
        bins == s.units[k].bins
        on == IF op.copies THEN s.second ELSE s.wire
    IN  CASE s.units[k].dead -> [s EXCEPT !.wire = NotReady]
          [] ~s.units[k].dead /\ ~ready -> [now EXCEPT !.wire = NotReady]
          [] ~s.units[k].dead /\ ready /\ (~fits \/ (bins # 0 /\ bins # s.bufs[s.wire].size)) -> [now EXCEPT !.wire = on]
          [] ~s.units[k].dead /\ ready /\ fits /\ bins = 0 /\ op.keeps # "none" /\ ~x.room ->
                [now EXCEPT !.wire = NotReady, !.units[k].dead = TRUE]
          [] OTHER -> [Frame(op, k, now, x.trig) EXCEPT !.wire = on]
--------------------------------------------------------------------------------
\* Ifft::process: sized and its ring cleared by the first ready frame.
Resynthesise(s) ==
    With(IF s.size = 0 /\ s.wire # NotReady
         THEN [s EXCEPT !.size = s.bufs[s.wire].size, !.ring = [i \in 0 .. s.bufs[s.wire].size - 1 |-> {}]]
         ELSE s, LAMBDA a :
    IF a.size = 0 THEN [a EXCEPT !.out = [i \in 1 .. ChainBlock |-> {}]]
    ELSE With(IF a.wire = NotReady \/ a.bufs[a.wire].size # a.size THEN a
              ELSE LET b == Convert(a.bufs[a.wire], "complex")
                   IN  [a EXCEPT !.bufs[a.wire] = b,
                                 !.ring = [i \in DOMAIN @ |->
                                              LET j == (i - a.head) % a.size
                                              IN  @[i] \cup (IF b.frame = <<>> THEN {} ELSE {<<b.at, b.frame[j]>>})]], LAMBDA c :
         [c EXCEPT !.out = [i \in 1 .. ChainBlock |-> c.ring[(c.head + i - 1) % c.size]],
                   !.ring = [i \in DOMAIN @ |-> IF (i - c.head) % c.size < ChainBlock THEN {} ELSE @[i]],
                   !.head = (@ + ChainBlock) % c.size]))

\* A block: what the host did to buffer 1 before it, the sources, the units, the
\* resynthesis.
ChainBlockOf(u, s, x) ==
    With([s EXCEPT !.blocks = @ + 1, !.trigs = Append(@, x.trig),
                   !.swaps = IF x.size = s.bufs[1].size THEN @ ELSE @ + 1,
                   !.bufs[1] = IF x.size = @.size THEN @ ELSE Blank(x.size, "complex")], LAMBDA a :
    With(Analyse(u, IF u.source = "fft" THEN Analyse(u, a, 1, u.hop, x.active) ELSE Announce(u, a), 2, u.hop2, TRUE), LAMBDA b :
    With(FoldLeft(LAMBDA c, k : Spectral(u, k, c, x), b, [k \in DOMAIN u.ops |-> k]), LAMBDA c :
    Resynthesise(c))))
--------------------------------------------------------------------------------
\* Resynthesis puts every sample out the same time after it came in, size less a
\* block, in each of the frames it was in, and no frame's samples twice: as long
\* as the analysis ran all the time on the buffer it started with.
OnTime(u, s) ==
    u.source = "fft" /\ s.swaps = 0 /\ s.fft[1].taken = s.blocks * ChainBlock =>
        \A i \in DOMAIN s.out :
            LET now == (s.blocks - 1) * ChainBlock + i
                whole == \A k \in DOMAIN u.ops : ~u.ops[k].pair /\ ~s.units[k].dead
            IN  /\ \A part \in s.out[i] : part[2] = now - (u.size - ChainBlock)
                /\ whole /\ now >= u.size + u.hop => Cardinality(s.out[i]) = u.size \div u.hop

\* A buffer's bins are in the form it says: a unit that converts always starts
\* from what is there.  (Units that copy bins between two frames as stored may
\* mix the forms.)
FormsTrue(u, s) ==
    (\A k \in DOMAIN u.ops : u.ops[k].form = "stored" => ~u.ops[k].pair \/ u.ops[k].copies) =>
        \A c \in 1 .. 2 : s.bufs[c].form = s.bufs[c].coord

\* A unit that keeps an order draws one in its first frame and in the next frame
\* after each rising edge of its trigger, whatever blocks have none; an edge that
\* came by the first frame counts for the second.
DrawsWhenAsked(u, s) ==
    s.met # {} =>
        LET last == CHOOSE b \in s.met : \A c \in s.met : c <= b
            before == {b \in s.met : b < last}
            since == IF Cardinality(before) <= 1 THEN 0 ELSE CHOOSE b \in before : \A c \in before : c <= b
            Rises(b) == s.trigs[b] > 0 /\ (b = 1 \/ s.trigs[b - 1] <= 0)
        IN  last \in s.drew <=> before = {} \/ \E b \in since + 1 .. last : Rises(b)

\* No table is read before something filled it.
TablesFilled(u, s) == ~s.stale
===============================================================================
