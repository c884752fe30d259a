---- MODULE DelayLines ----
(***************************************************************************)
(* The delay lines: DelayN/L/C, CombN/L/C and AllpassN/L/C on a line of    *)
(* pool memory, their Buf* twins on a shared buffer, Pluck, and the tap    *)
(* writer and readers (plyphon-unit/src/unit/delay.rs, pluck.rs,           *)
(* deltap.rs). What a unit writes is represented by the number of the      *)
(* sample it was written at; what was in the memory before is Stale. The   *)
(* coefficients that scale a tap are left out: which cells are read does   *)
(* not depend on them.                                                     *)
(*                                                                         *)
(* Delays are in fractions of a sample, Sub to the sample. A unit is       *)
(* [kind, interp, rate, max]: the rate of its delay input, and its longest *)
(* delay in samples or, on a buffer, the buffer's frames.                  *)
(***************************************************************************)
EXTENDS Integers, FiniteSets, SequencesExt

CONSTANTS
    Block,  \* samples in a control block
    Sub,    \* units of delay in a sample
    Stale,  \* what a freed synth, or a file, left in the memory
    Zero    \* what the guard gives instead of a sample that was never written

Feedback(u) == u.kind \in {"comb", "bufcomb", "pluck"}
OnBuffer(u) == u.kind \in {"bufdelay", "bufcomb"}

\* The least power of two that is not below n, and the greatest not above.
PowerOver(n) == CHOOSE p \in {2 ^ k : k \in 0 .. n} : p >= n /\ p < 2 * n
PowerUnder(n) == IF n = 0 THEN 0 ELSE CHOOSE p \in {2 ^ k : k \in 0 .. n} : p <= n /\ n < 2 * p

LineLen(longest) == PowerOver(longest + 1 + Block)
BufLine(frames) == PowerUnder(frames)
LineOf(u) == IF OnBuffer(u) THEN BufLine(u.max) ELSE LineLen(u.max)
Unwritten(cells) == [i \in 0 .. cells - 1 |-> Stale]

MinDelay(u) == IF u.interp = "C" /\ Feedback(u) THEN 2 * Sub ELSE Sub
MaxDelay(u, len) == (IF OnBuffer(u) THEN len - 1 ELSE len) * Sub
\* Rust's samples.max(lo).min(hi).
ClampDelay(d, lo, hi) == LET raised == IF d < lo THEN lo ELSE d IN IF raised > hi THEN hi ELSE raised
Delayed(u, len, d) == ClampDelay(d, MinDelay(u), MaxDelay(u, len))

(***************************************************************************)
(* A shared buffer may not be there in a block (freed, or bufnum names     *)
(* another for a while) and may be replaced between blocks by one of       *)
(* another size, whatever that holds: Same, Gone or its frames.  A unit's  *)
(* state stays as it was in either case.                                   *)
(***************************************************************************)
Same == -1
Gone == 0
Here(u, s, buf) ==
    IF buf \in {Same, Gone} THEN s
    ELSE [s EXCEPT !.line = Unwritten(IF u.kind = "deltap" THEN buf ELSE BufLine(buf)), !.placed = s.wr]

\* How far behind the write head the taps of an interpolator are.
Taps(interp, whole) ==
    CASE interp = "N" -> {whole}
      [] interp = "L" -> {whole, whole + 1}
      [] interp = "C" -> whole - 1 .. whole + 2

\* Mutant: the guard of a cold line takes the first sample for unwritten
\* only when the tap is a whole sample before it.
ReadDelayedEarly(line, wr, back, warm) ==
    IF ~warm /\ wr + 1 < back THEN Zero ELSE line[(wr - back) % Cardinality(DOMAIN line)]

ReadDelayed(line, wr, back, warm) ==
    IF ~warm /\ wr < back THEN Zero ELSE line[(wr - back) % Cardinality(DOMAIN line)]

\* One sample: a plain delay writes at the head and then reads, one with
\* feedback reads what it is about to add to.
Tick(u, acc, d, warm) ==
    LET written == [acc.line EXCEPT ![acc.wr % Cardinality(DOMAIN acc.line)] = acc.wr]
        from == IF Feedback(u) THEN acc.line ELSE written
    IN  [line |-> written,
         wr   |-> acc.wr + 1,
         taps |-> acc.taps \cup { [at |-> acc.wr, back |-> b, got |-> ReadDelayed(from, acc.wr, b, warm)] :
                                    b \in Taps(u.interp, d \div Sub) }]

(***************************************************************************)
(* A unit's life. x is a block's input: the delay it reads (one per sample *)
(* at audio rate), the decay, the trigger of a Pluck, and its buffer.      *)
(* placed is the sample at which the line took the place of another.       *)
(***************************************************************************)

\* DelayUnit_AllocDelayLine, then the constructor, which steadies the slope.
\* Without a buffer the longest delay is 0.
LineInit(u, x) ==
    [line |-> Unwritten(LineOf(u)), placed |-> 0,
     dsamp |-> Delayed(u, IF x.buf = Gone THEN 1 ELSE LineOf(u), x.delay[1]), delay |-> x.delay[1], decay |-> x.decay,
     wr |-> 0, num |-> 0, taps |-> {}, prevtrig |-> FALSE, excited |-> 0]

\* Pluck lets its input in for a delay period from the trigger's rise.
Excited(u, s, x) ==
    IF u.kind # "pluck" THEN 0
    ELSE LET from == IF x.trig /\ ~s.prevtrig THEN (x.delay[1] + Sub \div 2) \div Sub ELSE s.excited
         IN  IF from > Block THEN from - Block ELSE 0

LineBlock(u, s0, x) ==
    LET s == Here(u, s0, x.buf)
        len == Cardinality(DOMAIN s.line)
        warm == s.num >= len
        changed == x.delay[1] # s.delay \/ (Feedback(u) /\ x.decay # s.decay)
        slope == IF changed THEN (Delayed(u, len, x.delay[1]) - s.dsamp) \div Block ELSE 0
        at(i) == IF u.rate = "audio" THEN Delayed(u, len, x.delay[i]) ELSE s.dsamp + i * slope
        end == FoldLeft(LAMBDA acc, i : Tick(u, acc, at(i), warm),
                        [line |-> s.line, wr |-> s.wr, taps |-> {}],
                        [i \in 1 .. Block |-> i])
        num == IF warm THEN s.num ELSE IF s.num + Block > len THEN len ELSE s.num + Block
    IN  IF x.buf = Gone THEN [s EXCEPT !.taps = {}]
        ELSE [s EXCEPT !.line = end.line, !.wr = end.wr, !.taps = end.taps, !.num = num,
                       !.dsamp = IF u.rate = "audio" THEN @ ELSE @ + Block * slope,
                       !.delay = IF u.rate = "audio" THEN @ ELSE x.delay[1],
                       !.decay = IF u.rate = "audio" THEN @ ELSE x.decay,
                       !.prevtrig = x.trig, !.excited = Excited(u, s, x)]

(***************************************************************************)
(* DelTapWr and a DelTapRd.  The head travels on the wire between them, as *)
(* the bits of a float: a reader after the writer has the head of this     *)
(* block, one in an earlier synth, which takes it from a bus, that of the  *)
(* last.  Readers change nothing, so that one with any delay stands for    *)
(* several.                                                                *)
(***************************************************************************)

TapRead(u, line, head, i, del) ==
    LET n == Cardinality(DOMAIN line)
        phase == head.phase + i
        low == (phase * Sub - del) \div Sub
        cells == CASE u.interp = "N" -> {0} [] u.interp = "L" -> {0, 1} [] u.interp = "C" -> -1 .. 2
    IN  { [at |-> head.at + i, back |-> phase - low - c, got |-> line[(low + c) % n]] : c \in cells }

TapWrite(s, len) ==
    LET clean == IF s.first THEN [i \in DOMAIN s.line |-> Zero] ELSE s.line
        n == Cardinality(DOMAIN clean)
    IN  [i \in DOMAIN clean |->
            LET j == (i - s.phase) % n IN IF j < len THEN s.wr + j ELSE clean[i]]

\* The head that a reader is given: none (the wire is 0) before the writer's first
\* block, and after a block in which the writer had no buffer.
HeadOf(s) == {[phase |-> s.phase, at |-> s.wr]}

\* Both over len samples of a buffer that is there.
TapCalc(u, s, x, len) ==
    LET written == TapWrite(s, len)
        n == Cardinality(DOMAIN s.line)
        slope == (x.delay[1] - s.deltime) \div Block
        at(i) == IF u.rate = "audio" THEN x.delay[i] ELSE s.deltime + i * slope
        line == IF u.order = "after" THEN written ELSE s.line
        heads == IF u.order = "after" THEN HeadOf(s) ELSE s.heads
    IN  [s EXCEPT !.line = written, !.first = FALSE, !.wr = @ + len, !.phase = (@ + len) % n, !.heads = HeadOf(s),
                  !.deltime = IF u.rate = "audio" THEN @ ELSE x.delay[1],
                  !.taps = UNION { TapRead(u, line, h, i - 1, at(i)) : h \in heads, i \in 1 .. len }]

\* The constructors run one sample of each.
TapInit(u, x) ==
    LET s == [line |-> Unwritten(u.max), placed |-> 0, phase |-> 0, first |-> TRUE, heads |-> {},
              deltime |-> x.delay[1], wr |-> 0, taps |-> {}]
    IN  IF x.buf = Gone THEN s ELSE [TapCalc(u, s, x, 1) EXCEPT !.heads = {}]

TapBlock(u, s0, x) ==
    LET s == Here(u, s0, x.buf)
    IN  IF x.buf = Gone THEN [s EXCEPT !.taps = {}, !.heads = {}] ELSE TapCalc(u, s, x, Block)

----------------------------------------------------------------------------

\* How far behind a tap may be and still be in the line.
Reach(u, len) ==
    CASE u.kind = "deltap" -> 0 .. len - Block
      [] Feedback(u) -> 1 .. len
      [] OTHER -> 0 .. len - 1

\* The nearest tap of the shortest delay.
Nearest(u) == IF u.kind # "deltap" /\ u.interp = "C" THEN MinDelay(u) \div Sub - 1
              ELSE IF u.kind = "deltap" THEN 0 ELSE 1

\* What a tap should give: the sample written that long ago, silence before the
\* unit wrote, or what a buffer came with that took the place of another.
Expected(u, s, tap) ==
    IF tap.at - tap.back >= s.placed THEN tap.at - tap.back
    ELSE IF s.placed = 0 \/ (u.kind # "deltap" /\ tap.at < tap.back) THEN Zero
    ELSE Stale

\* A tap inside the line is the sample written that long ago and no other,
\* whether its reader comes before or after the writer and whatever became of
\* the buffer; and no tap, however long the delay asked for, brings up what the
\* memory held before ("any tap before the start of writing reads 0 rather than
\* stale memory", delay.rs), unless a buffer was put in the place of another.
\* Nearer taps than the shortest delay has belong to a unit built before its
\* buffer was there: of these nothing is asked.
LineReadsBack(u, s) ==
    \A tap \in s.taps :
        /\ tap.got = Stale => s.placed > 0 \/ tap.back < Nearest(u)
        /\ tap.back \in Reach(u, Cardinality(DOMAIN s.line)) => tap.got = Expected(u, s, tap)
====
