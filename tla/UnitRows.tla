------------------------------- MODULE UnitRows -------------------------------
(***************************************************************************)
(* What a float unit of plyphon-unit takes from outside itself: the inputs *)
(* its build counts, the inputs it reads and how, and the coefficients it  *)
(* caches with the input values it compares to know that they are stale.   *)
(* The loop that works on them, its state and its memory are left out.  A  *)
(* unit is a record; the families of units (FilterUnits, SourceUnits, ...) *)
(* name one for each unit of the registry, and UnitBench runs them.        *)
(***************************************************************************)
EXTENDS Integers, Sequences

\* A unit as unit_spec leaves it: no input, one output, nothing cached, and a
\* constructor that runs the calc for one sample.
Unit ==
    [need     |-> 0,      \* inputs the build insists on (WrongInputCount)
     exact    |-> FALSE,  \* whether it insists on no more than these
     args     |-> 0,      \* inputs a SynthDef gives it, where the build looks at fewer
     slices   |-> {},     \* inputs read as audio slices, zipped with the output
     sigs     |-> {},     \* inputs read sample by sample at whatever rate they have
     folds    |-> {},     \* inputs read as an audio slice and reduced to one value
     once     |-> {},     \* inputs read once a block, through Inputs::control
     opts     |-> {},     \* the same, read only when the SynthDef gives them
     seeds    |-> {},     \* inputs only the constructor reads
     seedOpts |-> {},     \* the same, read only when given
     coefs    |-> {},     \* what is derived from inputs and kept
     outs     |-> 1,      \* outputs written over the whole calc length
     init     |-> "calc", \* or "restore" (calc_and_restore), "own", "none"
     seeded   |-> FALSE,  \* whether the constructor computes the coefficients
     pool     |-> FALSE,  \* whether the memory is allocated when the synth starts
     rates    |-> {"audio", "control"}]   \* the rates its loop is written for

\* Coefficients computed from the inputs K when one of them differs from the
\* value cached with it.  The cached values start as NaN,
\* which differs from everything, and the coefficients jump.
Watch(K) == [from |-> K, with |-> K, how |-> "jump", start |-> "nan"]

\* The cached values start as a number that an input can be.  The unset
\* coefficients are wrong for it, or (a lag time of -1, whose coefficient is 0)
\* happen to be right.
WatchFrom(K) == [Watch(K) EXCEPT !.start = "number"]
WatchFit(K) == [Watch(K) EXCEPT !.start = "fit"]

\* The coefficients glide to their target over a whole block; at its end they
\* are set to it, or are left where the last step of the loop put them.
Glide(K) == [Watch(K) EXCEPT !.how = "glide"]
Drift(K) == [Watch(K) EXCEPT !.how = "drift"]

\* An audio-rate filter: its input is zipped with the output, so that the loop
\* runs for as many samples as the shorter of the two.
AudioFilter == [Unit EXCEPT !.need = 1, !.slices = {0}, !.rates = {"audio"}]
===============================================================================
