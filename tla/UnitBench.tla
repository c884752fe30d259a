------------------------------- MODULE UnitBench -------------------------------
(***************************************************************************)
(* One float unit in a synth's calc loop: built from its inputs' number    *)
(* and rates, its constructor run on one sample, then a block at a time.   *)
(* Its outputs go to a scratch area that every unit of the graph writes in *)
(* turn, so what it does not write is what another unit left there.  Any   *)
(* of the inputs it watches may change between two blocks.                 *)
(***************************************************************************)
EXTENDS UnitRows, FiniteSets, FiniteSetsExt

CONSTANTS
    Row,            \* the units on the bench: name |-> what the unit touches
    BlockSize,      \* samples in a block
    Blocks,         \* blocks a unit is run for
    AnyRate         \* whether a unit may be given rates its loop is not written for

VARIABLES
    unit,           \* the unit on the bench
    n,              \* how many inputs the SynthDef gives it
    own,            \* the rate it is given
    audio,          \* the inputs wired to audio-rate sources
    phase,          \* "built", "refused", "running", "silenced"
    high,           \* the watched inputs whose value is 1 in this block (else 0)
    state,          \* its coefficients, and the keys they are cached with
    t,              \* samples calculated since the first block
    written,        \* for each output, the samples of it the last calc wrote
    missed,         \* inputs read that the unit does not have
    done            \* the unit's done flag

vars == <<unit, n, own, audio, phase, high, state, t, written, missed, done>>

row == Row[unit]
Watched == UNION {g.from \cup g.with : g \in row.coefs}
Given == 0 .. n - 1
\* An input's value: 0 or 1, or the default of one that is not given.
Default == 2
Value(i, hi) == IF i \notin Given THEN Default ELSE IF i \in hi THEN 1 ELSE 0
Values(S, hi) == [i \in S |-> Value(i, hi)]

\* What no input has: a cached NaN, coefficients that were not set, coefficients
\* that stopped part of the way to their target.
NoKey == -1
Unset == -2
Partway == -3
All(S, v) == [i \in S |-> v]

\* Inputs::audio: a whole block of an audio-rate source (one sample of it in the
\* constructor), an empty slice of any other.
SliceLen(i, len) == IF i \notin audio THEN 0 ELSE len

\* The samples the block loop runs for: the shortest of the output and the
\* slices zipped with it.
LoopLen(len, sliceLen) == Min({len} \cup {SliceLen(i, sliceLen) : i \in row.slices})

InputsRead == row.slices \cup row.sigs \cup row.folds \cup row.once \cup (row.opts \cap Given)

\* Mutant: of the inputs compared, one that is 1 is taken for unchanged.
RecomputeRising(g, s, hi, ran, len) ==
    IF \A i \in g.from : s.keys[g][i] \in {Value(i, hi), 1} THEN s.coefs[g]
    ELSE IF g.how = "drift" /\ ran < len THEN All(g.with, Partway)
    ELSE Values(g.with, hi)

\* Compare the inputs with the cached values; derive the coefficients again
\* where they differ.
Recompute(g, s, hi, ran, len) ==
    IF s.keys[g] = Values(g.from, hi) THEN s.coefs[g]
    ELSE IF g.how = "drift" /\ ran < len THEN All(g.with, Partway)
    ELSE Values(g.with, hi)

\* One call of Unit::process over len samples, sliceLen of them in a slice.
Process(s, hi, len, sliceLen) ==
    [coefs |-> [g \in row.coefs |-> Recompute(g, s, hi, LoopLen(len, sliceLen), len)],
     keys  |-> [g \in row.coefs |-> Values(g.from, hi)]]

\* The state image a build bakes into the def.
Fresh ==
    [coefs |-> [g \in row.coefs |-> IF g.start = "fit" THEN Values(g.with, {}) ELSE All(g.with, Unset)],
     keys  |-> [g \in row.coefs |-> IF g.start = "nan" THEN All(g.from, NoKey) ELSE Values(g.from, {})]]

\* What the constructor seeds before (or instead of) its one sample.
Seeded(s, hi) ==
    [s EXCEPT !.coefs = IF row.seeded THEN [g \in row.coefs |-> Values(g.with, hi)] ELSE s.coefs,
              !.keys = IF row.seeded THEN [g \in row.coefs |-> Values(g.from, hi)] ELSE s.keys]

CalcLen == IF own = "audio" THEN BlockSize ELSE 1

\* What one calc writes of each output: by the unit's loop, or of the cleared
\* output of a unit that has no memory to run in.
Produced(len, sliceLen) == [o \in 1 .. row.outs |-> LoopLen(len, sliceLen)]

Cleared == [o \in 1 .. row.outs |-> CalcLen]

\* At most one watched input is off its resting value.
Settings == {hi \in SUBSET (Watched \cap Given) : Cardinality(hi) <= 1}

\* Inputs a SynthDef gives: too few or too many for the unit where its build
\* counts them, and never fewer than the loop takes where it does not.
Counts(r) ==
    LET fewest == Max({r.need, r.args})
        all == Max({fewest} \cup {i + 1 : i \in r.opts \cup r.seedOpts})
    IN  {fewest, fewest + 1, all} \cup (IF r.args > r.need THEN {} ELSE {r.need - 1} \cap Nat)


Accepted == n >= row.need /\ (row.exact => n = row.need)

Init ==
    /\ unit \in DOMAIN Row
    /\ n \in Counts(row)
    /\ own \in (IF AnyRate THEN {"audio", "control"} ELSE row.rates)
    /\ \E lifted \in {{}, row.sigs} :
          audio = IF AnyRate /\ own = "control" THEN {} ELSE row.slices \cup row.folds \cup lifted
    /\ phase = "built"
    /\ high \in Settings
    /\ state = Fresh
    /\ t = 0
    /\ written = [o \in 1 .. row.outs |-> 0]
    /\ missed = {} /\ done = FALSE

\* UnitDef::build
Refuse ==
    /\ phase = "built" /\ ~Accepted
    /\ phase' = "refused"
    /\ UNCHANGED <<unit, n, own, audio, high, state, t, written, missed, done>>

\* The synth's first block: Unit::alloc from the unit pool, which may be out of
\* memory, then Unit::init over one sample: a calc, after which calc_and_restore puts
\* the seeded state back.  The outputs start from 0.
Construct ==
    /\ phase = "built" /\ Accepted
    /\ phase' = "running"
    /\ missed' = (row.seeds \cup (row.seedOpts \cap Given)
                    \cup IF row.init \in {"calc", "restore"} THEN InputsRead ELSE {}) \ Given
    /\ state' = IF row.init = "calc" THEN Process(Seeded(state, high), high, 1, 1) ELSE Seeded(state, high)
    /\ written' = [o \in 1 .. row.outs |-> 1]
    /\ UNCHANGED <<unit, n, own, audio, high, t, done>>

Silence ==
    /\ phase = "built" /\ Accepted /\ row.pool
    /\ phase' = "silenced" /\ done' = TRUE
    /\ written' = [o \in 1 .. row.outs |-> 1]
    /\ UNCHANGED <<unit, n, own, audio, high, state, t, missed>>

\* Unit::process over the next block, or the cleared outputs of a silenced unit.
Block ==
    /\ phase \in {"running", "silenced"} /\ own # "scalar" /\ t < Blocks * CalcLen
    /\ high' \in Settings
    /\ t' = t + CalcLen
    /\ IF phase = "silenced"
       THEN /\ written' = Cleared
            /\ UNCHANGED <<state, missed>>
       ELSE /\ state' = Process(state, high', CalcLen, BlockSize)
            /\ written' = Produced(CalcLen, BlockSize)
            /\ missed' = missed \cup (InputsRead \ Given)
    /\ UNCHANGED <<unit, n, own, audio, phase, done>>

Next == Refuse \/ Construct \/ Silence \/ Block

Spec == Init /\ [][Next]_vars
--------------------------------------------------------------------------------

\* After a calc every sample of every output is the unit's own: none is left as
\* the scratch area had it, a failed allocation included.
OutputsWritten == t > 0 => \A o \in 1 .. row.outs : written[o] = CalcLen

\* The coefficients a block was calculated with belong to that block's inputs,
\* however the inputs changed before it and whatever the constructor cached.
CoefsFollow ==
    phase = "running" /\ t > 0 => \A g \in row.coefs : state.coefs[g] = Values(g.with, high)
===============================================================================
