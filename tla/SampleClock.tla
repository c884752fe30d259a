---- MODULE SampleClock ----
(***************************************************************************)
(* The World's clock and scheduler (plyphon-rt/src/sched.rs). OSC time is  *)
(* an integer here as in the code; the sample rate is the whole number     *)
(* UnitsPerSample of OSC units per sample, so that block_offset's floating *)
(* point division is an exact floor. The delay-locked loop that smooths    *)
(* the rate is left out: what it produces, the increment per block, is a   *)
(* value the composing module chooses.                                     *)
(***************************************************************************)
EXTENDS Integers, Sequences, FiniteSets, SequencesExt

CONSTANTS BlockSize,        \* samples per control block
          UnitsPerSample,   \* OSC units per sample at the nominal rate
          SchedCap          \* capacity of the scheduler

ASSUME ClockAssumption == /\ BlockSize \in Nat \ {0}
                          /\ UnitsPerSample \in Nat \ {0}
                          /\ SchedCap \in Nat \ {0}

NominalIncrement == BlockSize * UnitsPerSample

\* Mutant: a block too far.
BlockEndLate(buftime, increment) == buftime + 2 * increment

BlockEnd(buftime, increment) == buftime + increment

\* Round to the nearest sample, then clamp into the block.
BlockOffset(buftime, time) ==
    LET pos == (2 * (time - buftime) + UnitsPerSample) \div (2 * UnitsPerSample)
    IN  IF pos < 0 THEN 0 ELSE IF pos > BlockSize - 1 THEN BlockSize - 1 ELSE pos

\* The heap as the sequence its pops would give: by time, then by submission.
SchedPush(heap, cmd) ==
    LET before == Cardinality({k \in DOMAIN heap : heap[k].time <= cmd.time})
    IN  InsertAt(heap, before + 1, cmd)

SchedFull(heap) == Len(heap) >= SchedCap
====
