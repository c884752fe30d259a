---- MODULE Grains ----
(***************************************************************************)
(* The banks of grains: the triggered ones (GrainSin, GrainFM, GrainIn,    *)
(* GrainBuf, TGrains), which differ only in what a grain reads; Warp1,     *)
(* which triggers itself; and GrainTap, which threads its grains through   *)
(* two linked lists (plyphon-unit/src/unit/grain.rs, grain_tap.rs). A      *)
(* grain is the sample it started at and its length in samples, with the   *)
(* counter the code keeps; its window, pitch and pan are left out.         *)
(*                                                                         *)
(* A unit's state has the grains it holds, the number of samples before    *)
(* the next block, and the grains that each sample of the last block is    *)
(* the sum of.                                                             *)
(***************************************************************************)
EXTENDS Integers, FiniteSets, SequencesExt

CONSTANTS
    Block,      \* samples in a control block
    MaxGrains,  \* places in a bank
    NONE        \* the end of a grain list

MinGrain == 4

Silence == [j \in 1 .. Block |-> <<>>]

\* Add a grain to the samples from off on, for as long as it lasts.
Render(sound, g, off) ==
    [j \in 1 .. Block |-> IF off < j /\ j <= off + g.left THEN Append(sound[j], g) ELSE sound[j]]

\* What is left of a grain after the rest of the block; over when that is
\* nothing.
Played(g, off) == [g EXCEPT !.left = IF @ > Block - off THEN @ - (Block - off) ELSE 0]

\* The grain's place goes to the last grain.
SwapRemove(grains, k) == SubSeq([grains EXCEPT ![k] = grains[Len(grains)]], 1, Len(grains) - 1)

\* One grain of the bank is played from the block's start; the place k stays
\* where it is when another grain comes to it.
Advance(acc) ==
    LET g == Played(acc.grains[acc.k], 0)
        sound == Render(acc.sound, acc.grains[acc.k], 0)
    IN  IF acc.k > Len(acc.grains) THEN acc
        ELSE IF g.left = 0 THEN [acc EXCEPT !.sound = sound, !.grains = SwapRemove(@, acc.k)]
        ELSE [acc EXCEPT !.sound = sound, !.grains[acc.k] = g, !.k = @ + 1]

AdvanceAll(grains) ==
    FoldLeft(LAMBDA acc, i : Advance(acc), [k |-> 1, grains |-> grains, sound |-> Silence],
             [i \in 1 .. Len(grains) |-> i])

GrainCounter(dur) == IF dur < MinGrain THEN MinGrain ELSE dur

(***************************************************************************)
(* Triggered grains. x.trig is the trigger, one value for each sample, or  *)
(* one for the block at control rate; x.dur the length asked for.          *)
(***************************************************************************)

BankInit == [grains |-> <<>>, sound |-> Silence, now |-> 0, prevtrig |-> FALSE]

\* A trigger that finds the bank full, counting only grains that outlast the
\* block, is lost.
Spawn(u, s, acc, off, dur) ==
    LET g == [start |-> s.now + off, length |-> GrainCounter(dur), left |-> GrainCounter(dur)]
        rest == Played(g, off)
    IN  IF Len(acc.grains) >= u.max THEN acc
        ELSE [grains |-> IF rest.left = 0 THEN acc.grains ELSE Append(acc.grains, rest),
              sound  |-> Render(acc.sound, g, off)]

\* The offsets at which the trigger rises.
Rises(prev, trig) ==
    SetToSortSeq({i \in 1 .. Len(trig) : trig[i] /\ ~(IF i = 1 THEN prev ELSE trig[i - 1])}, <)

BankBlock(u, s, x) ==
    LET played == AdvanceAll(s.grains)
        end == FoldLeft(LAMBDA acc, i : Spawn(u, s, acc, i - 1, x.dur),
                        [grains |-> played.grains, sound |-> played.sound], Rises(s.prevtrig, x.trig))
    IN  [grains |-> end.grains, sound |-> end.sound, now |-> s.now + Block, prevtrig |-> x.trig[Len(x.trig)]]

(***************************************************************************)
(* A channel of Warp1. x.dur is the window drawn for a grain, x.overlaps   *)
(* how many are to overlap, x.there whether the buffer is. due is when the *)
(* windows and overlaps drawn so far ask for the next grain, full whether  *)
(* one ever found the channel full.                                        *)
(***************************************************************************)

WarpInit == [grains |-> <<>>, sound |-> Silence, now |-> 0, next |-> 1, due |-> 0, full |-> FALSE]

\* One sample: a grain that is due finds a place or stops the scan, and the count
\* stays at the trigger it missed.
WarpSample(s, x, acc, off) ==
    LET left == acc.next - 1
        g == [start |-> s.now + off, length |-> GrainCounter(x.dur), left |-> GrainCounter(x.dur)]
        rest == Played(g, off)
    IN  IF acc.stopped THEN acc
        ELSE IF left # 0 THEN [acc EXCEPT !.next = left]
        ELSE IF Len(acc.grains) + 1 >= MaxGrains THEN [acc EXCEPT !.next = left, !.stopped = TRUE]
        ELSE [acc EXCEPT !.next = g.length \div x.overlaps,
                         !.due = @ + g.length \div x.overlaps,
                         !.grains = IF rest.left = 0 THEN @ ELSE Append(@, rest),
                         !.sound = Render(@, g, off)]

WarpBlock(s, x) ==
    LET played == AdvanceAll(s.grains)
        end == FoldLeft(LAMBDA acc, i : WarpSample(s, x, acc, i - 1),
                        [grains |-> played.grains, sound |-> played.sound, next |-> s.next,
                         due |-> s.due, stopped |-> FALSE],
                        [i \in 1 .. Block |-> i])
    IN  IF ~x.there THEN [s EXCEPT !.sound = Silence]
        ELSE [grains |-> end.grains, sound |-> end.sound, now |-> s.now + Block,
              next |-> end.next, due |-> end.due, full |-> s.full \/ end.stopped]

(***************************************************************************)
(* GrainTap: bank is the array, active and free the heads of its lists.    *)
(***************************************************************************)

Places == 0 .. MaxGrains - 1

TapGrainsInit ==
    [bank |-> [i \in Places |-> [start |-> 0, length |-> 0, left |-> 0,
                                 next |-> IF i + 1 < MaxGrains THEN i + 1 ELSE NONE]],
     active |-> NONE, free |-> 0, next |-> 0, now |-> 0, sound |-> Silence]

Grain(c) == [start |-> c.start, length |-> c.length, left |-> c.left]

\* Mutant: a grain that ends is remembered as the one before the next.
PlayActiveKeepingPrev(acc) ==
    LET c == acc.bank[acc.g]
        left == c.left - (IF c.left < Block THEN c.left ELSE Block)
        played == [acc EXCEPT !.sound = Render(@, Grain(c), 0), !.bank[acc.g].left = left,
                              !.g = c.next, !.prev = acc.g]
    IN  IF acc.g = NONE THEN acc
        ELSE IF left > 0 THEN played
        ELSE [played EXCEPT !.active = IF acc.prev = NONE THEN c.next ELSE @,
                            !.bank = [i \in Places |->
                                        IF i = acc.g THEN [@[i] EXCEPT !.next = acc.free]
                                        ELSE IF i = acc.prev THEN [@[i] EXCEPT !.next = c.next]
                                        ELSE @[i]],
                            !.free = acc.g]

\* Play the grain at g, and unlink it when it is over: prev is the grain
\* before it in the active list.
PlayActive(acc) ==
    LET c == acc.bank[acc.g]
        left == c.left - (IF c.left < Block THEN c.left ELSE Block)
        played == [acc EXCEPT !.sound = Render(@, Grain(c), 0), !.bank[acc.g].left = left, !.g = c.next]
    IN  IF acc.g = NONE THEN acc
        ELSE IF left > 0 THEN [played EXCEPT !.prev = acc.g]
        ELSE [played EXCEPT !.active = IF acc.prev = NONE THEN c.next ELSE @,
                            !.bank = [i \in Places |->
                                        IF i = acc.g THEN [@[i] EXCEPT !.next = acc.free]
                                        ELSE IF i = acc.prev THEN [@[i] EXCEPT !.next = c.next]
                                        ELSE @[i]],
                            !.free = acc.g]

\* Start a grain at the head of the active list, if there is a free one; it
\* goes straight back when the rest of the block is all of it.
StartGrain(s, acc, dur) ==
    LET g == acc.free
        off == Block - acc.remain
        length == GrainCounter(dur)
        new == [start |-> s.now + off, length |-> length, left |-> length, next |-> acc.active]
        rest == IF length > Block - off THEN length - (Block - off) ELSE 0
    IN  IF g = NONE THEN acc
        ELSE IF rest = 0
             THEN [acc EXCEPT !.sound = Render(@, Grain(new), off), !.bank[g] = [new EXCEPT !.left = 0, !.next = acc.bank[g].next]]
             ELSE [acc EXCEPT !.sound = Render(@, Grain(new), off), !.bank[g] = [new EXCEPT !.left = rest],
                              !.active = g, !.free = acc.bank[g].next]

\* Grains that are due before the block ends, each a fraction of the last
\* one's length after it.
TapStart(s, x, acc) ==
    IF acc.next > acc.remain THEN acc
    ELSE LET at == [acc EXCEPT !.remain = @ - acc.next]
             gap == GrainCounter(x.dur) \div x.overlaps
         IN  [StartGrain(s, at, x.dur) EXCEPT !.next = IF gap < 1 THEN 1 ELSE gap]

TapGrainsBlock(s, x) ==
    LET start == [bank |-> s.bank, active |-> s.active, free |-> s.free, sound |-> Silence,
                  g |-> s.active, prev |-> NONE, next |-> s.next, remain |-> Block]
        played == FoldLeft(LAMBDA acc, i : PlayActive(acc), start, [i \in 1 .. MaxGrains |-> i])
        end == FoldLeft(LAMBDA acc, i : TapStart(s, x, acc), played, [i \in 1 .. Block + 1 |-> i])
    IN  IF ~x.there THEN [s EXCEPT !.sound = Silence]
        ELSE [bank |-> end.bank, active |-> end.active, free |-> end.free, sound |-> end.sound,
              next |-> IF end.next > end.remain THEN end.next - end.remain ELSE 0, now |-> s.now + Block]

----------------------------------------------------------------------------

\* The places of a list, in order, as far as it can go without a loop.
ListFrom(bank, head) ==
    LET step[n \in 0 .. MaxGrains] ==
            IF n = 0 THEN <<>>
            ELSE LET l == step[n - 1]
                     at == IF l = <<>> THEN head ELSE bank[l[Len(l)]].next
                 IN  IF at = NONE THEN l ELSE Append(l, at)
    IN  step[MaxGrains]

Held(u, s) ==
    IF u.kind # "tap" THEN s.grains
    ELSE LET l == ListFrom(s.bank, s.active) IN [i \in 1 .. Len(l) |-> Grain(s.bank[l[i]])]

\* Every grain plays through: it is added once to every sample from its
\* start to its end and to no other, whatever the grains beside it do, and
\* its place is then free again. In GrainTap every place is in one of the
\* two lists, once.
GrainsPlayThrough(u, s) ==
    LET held == Held(u, s)
        heardAt(j) == {<<g.start, g.length>> : g \in ToSet(s.sound[j])}
        time(j) == s.now - Block + j - 1
    IN  /\ \A j \in 1 .. Block :
            /\ Cardinality(heardAt(j)) = Len(s.sound[j])
            /\ \A g \in heardAt(j) :
                /\ g[1] <= time(j) /\ time(j) < g[1] + g[2]
                /\ j < Block /\ time(j) + 1 < g[1] + g[2] => g \in heardAt(j + 1)
                /\ j = Block /\ s.now < g[1] + g[2] => \E k \in DOMAIN held : <<held[k].start, held[k].length>> = g
        /\ \A k \in DOMAIN held :
            /\ held[k].left = held[k].start + held[k].length - s.now
            /\ held[k].left > 0
        /\ u.kind = "tap" =>
            LET all == ListFrom(s.bank, s.active) \o ListFrom(s.bank, s.free)
            IN  Len(all) = MaxGrains /\ ToSet(all) = Places

\* Warp1 never misses its own trigger: it counts down to the next grain it owes,
\* and starts it in the sample it is due, for as long as no grain found the channel
\* full.  ("self-triggering every windowSize/overlaps seconds", grain.rs.)
WarpKeepsTime(u, s) == u.kind = "warp" /\ ~s.full => s.next > 0 /\ s.next = s.due + 1 - s.now
====
