------------------------------ MODULE Convolvers ------------------------------
(***************************************************************************)
(* The convolvers that work in frames, a block at a time: Convolution (the *)
(* kernel is a signal, collected beside the input), Convolution2 (a buffer,*)
(* read again on each rising trigger), Convolution2L and                   *)
(* StereoConvolution2L (the new kernel is loaded beside the current one and*)
(* faded in over a number of frames) and PartConv (a response cut into     *)
(* partitions, whose products are spread over the blocks of a half-frame). *)
(* A frame of input is the numbers of the blocks it was collected from; a  *)
(* kernel is the number of the block it was loaded in, 0 for the           *)
(* constructor's.  Spectra and sums are left out: a product is which frame *)
(* was multiplied by what.                                                 *)
(*                                                                         *)
(* A convolver u is [kind, blocks, parts]: "frame", "kernel", "fade" or    *)
(* "part", the blocks of a (half-)frame, and the partitions.               *)
(***************************************************************************)
EXTENDS Integers, Sequences, FiniteSets

Collected == [frame |-> <<>>, with |-> {}]

\* Partitions multiplied in a block that completes no half-frame, and in the last
\* of these.
SpareBlocks(u) == u.blocks - 1
NumAmort(u) == (u.parts - 1) \div SpareBlocks(u)
LastAmort(u) == (u.parts - 1) - (SpareBlocks(u) - 1) * NumAmort(u)

ConvStart(u) ==
    [inbuf   |-> <<>>,         \* blocks of the frame collected so far: m_pos is their number
     outbuf  |-> Collected,    \* the frame going out, and
     overlap |-> Collected,    \* the one whose second half is summed in
     kernels |-> <<0, -1>>, curbuf |-> 1, cfpos |-> 0, cflength |-> 0,
     prev    |-> 0,            \* the trigger
     slots   |-> [k \in 0 .. u.parts - 1 |-> <<>>],    \* the ring of spectra: frames and partitions
     accum   |-> 0, amort |-> -1, done |-> 1, spectrum |-> <<>>,
     dead    |-> FALSE,        \* silenced for good
     blocks  |-> 0, sound |-> <<>>, asked |-> [kernel |-> 0, length |-> 0, frames |-> 0, from |-> 0]]
--------------------------------------------------------------------------------
\* The kernel spectrum that is not in use.
IdleKernel(s) == 3 - s.curbuf

\* By what was asked for alone: the kernel whose fade was the last to be let run to
\* its end, the frames asked for, each with it and the one that had settled before.
Faded(s) == s.asked.length > 0 /\ s.asked.frames >= s.asked.length
Settled(s) == IF Faded(s) THEN s.asked.kernel ELSE s.asked.from
Asks(s, x) == [s EXCEPT !.asked = [kernel |-> s.blocks, length |-> x.fade, frames |-> 0, from |-> Settled(s)]]

\* Mutant: the new kernel goes over the one in use.
LoadOver(u, s, x) ==
    LET loaded == Asks(s, x)
    IN  [loaded EXCEPT !.cflength = x.fade, !.cfpos = 0, !.kernels[s.curbuf] = s.blocks]

\* A rising trigger in the blocks' pace: Convolution2's one kernel is replaced, the
\* other two start a fade to the one just loaded.
Load(u, s, x) ==
    LET loaded == Asks(s, x)
    IN  IF u.kind = "kernel" THEN [loaded EXCEPT !.kernels[s.curbuf] = s.blocks]
        ELSE [loaded EXCEPT !.cflength = x.fade, !.cfpos = 0, !.kernels[IdleKernel(s)] = s.blocks]

Retrigger(u, s, x) ==
    IF u.kind \in {"kernel", "fade"} /\ s.prev <= 0 /\ x.trig > 0
    THEN IF x.there THEN Load(u, s, x) ELSE [s EXCEPT !.dead = TRUE]
    ELSE s

\* Mutant: the second half of the last frame is not held before the new one
\* takes its place.
FrameDoneUnheld(u, s) ==
    [s EXCEPT !.inbuf = <<>>, !.outbuf = [frame |-> s.inbuf, with |-> {s.kernels[s.curbuf]}], !.asked.frames = @ + 1]

\* A frame is whole: what went out last is held for its second half, the product
\* with the current kernel (and with the next one, while it fades in) goes out.
FrameDone(u, s) ==
    LET fading == u.kind = "fade" /\ s.cfpos < s.cflength
        product == [frame |-> s.inbuf,
                    with |-> IF u.kind = "frame" THEN {} ELSE {s.kernels[s.curbuf]} \cup (IF fading THEN {s.kernels[IdleKernel(s)]} ELSE {})]
        swap == fading /\ s.cfpos + 1 = s.cflength
    IN  [s EXCEPT !.inbuf = <<>>, !.overlap = s.outbuf, !.outbuf = product,
                  !.cfpos = IF fading THEN @ + 1 ELSE @,
                  !.curbuf = IF swap THEN IdleKernel(s) ELSE @,
                  !.asked.frames = @ + 1]
--------------------------------------------------------------------------------
\* How many partitions this block multiplies.
Share(u, s) == IF s.amort = SpareBlocks(u) - 1 THEN LastAmort(u) ELSE NumAmort(u)

\* PartConv: the block that completes a half-frame multiplies in partition 0 and
\* puts the ring's slot out; the other partitions land in the slots from there on.
HalfFrameDone(u, s) ==
    [s EXCEPT !.inbuf = <<>>, !.spectrum = s.inbuf, !.overlap = s.outbuf,
              !.outbuf = [frame |-> s.inbuf, with |-> Append(s.slots[s.accum], <<s.inbuf, 0>>)],
              !.slots[s.accum] = <<>>, !.accum = (@ + 1) % u.parts, !.amort = 0, !.done = 1]

Amortise(u, s) ==
    LET number == Share(u, s)
        Falls(k) == {i \in s.done .. s.done + number - 1 : (s.accum + i - 1) % u.parts = k}
    IN  [s EXCEPT !.slots = [k \in DOMAIN @ |-> IF Falls(k) = {} THEN @[k]
                                                 ELSE Append(@[k], <<s.spectrum, CHOOSE i \in Falls(k) : TRUE>>)],
                  !.done = @ + number, !.amort = @ + 1]

\* A block of any of them.  x is the trigger, whether the buffer is there, and the
\* crossfade input.
Collect(u, s, x) ==
    LET now == [s EXCEPT !.inbuf = Append(@, s.blocks)]
        whole == Len(now.inbuf) = u.blocks
    IN  IF u.kind = "part"
        THEN IF ~x.there THEN [s EXCEPT !.dead = TRUE]
             ELSE IF whole THEN HalfFrameDone(u, now) ELSE IF s.amort >= 0 THEN Amortise(u, now) ELSE now
        ELSE LET a == Retrigger(u, now, x)
             IN  IF a.dead THEN a ELSE [IF whole THEN FrameDone(u, a) ELSE a EXCEPT !.prev = x.trig]

ConvBlockOf(u, s, x) ==
    LET b == IF s.dead THEN [s EXCEPT !.blocks = @ + 1] ELSE Collect(u, [s EXCEPT !.blocks = @ + 1], x)
    IN  [b EXCEPT !.sound = IF b.dead THEN <<>> ELSE <<b.outbuf, b.overlap, Len(b.inbuf)>>]
--------------------------------------------------------------------------------
\* The frames go out in the order they came in, each of them whole, a block after
\* it was complete at the latest: the first half of one with the second half of the
\* one before, the frame's length less a block behind the input.
FramesLineUp(u, s) ==
    s.sound # <<>> /\ s.sound[1].frame # <<>> =>
        LET head == s.sound[1].frame
            pos == s.sound[3]
        IN  /\ head = [k \in 1 .. u.blocks |-> s.blocks - pos - u.blocks + k]
            /\ s.sound[2].frame = IF head[1] = 1 THEN <<>> ELSE [k \in 1 .. u.blocks |-> head[k] - u.blocks]

\* Every frame sounds with kernels that the triggers account for.  Convolution2: the
\* last one loaded.  Convolution2L: the one that settled last, alone and whole, but
\* in the frames that the fade asked for last takes, in each of which the new one is
\* heard beside it.  A trigger within a fade drops the kernel that was being faded in
\* - the new one is loaded over it, though it was heard - and fades from the settled
\* one again, which is never loaded over.  (A fade of no frames never brings its
\* kernel in, as documented.)
KernelSettles(u, s) ==
    ~s.dead /\ s.asked.frames > 0 =>
        /\ u.kind = "kernel" => s.outbuf.with = {s.asked.kernel}
        /\ u.kind = "fade" => s.outbuf.with = IF s.asked.frames <= s.asked.length THEN {s.asked.from, s.asked.kernel}
                                               ELSE {Settled(s)}

\* What PartConv puts out is every half-frame so far times the partition as far
\* back as it is, each once, however the products were spread over the blocks.
PartitionsMeet(u, s) ==
    u.kind = "part" /\ ~s.dead /\ s.outbuf.frame # <<>> =>
        LET f == s.outbuf.frame[1]
            made == s.outbuf.with
        IN  /\ \A i, j \in DOMAIN made : made[i] = made[j] => i = j
            /\ {<<made[i][1][1], made[i][2]>> : i \in DOMAIN made}
                 = {<<f - i * u.blocks, i>> : i \in {j \in 0 .. u.parts - 1 : f - j * u.blocks >= 1}}

===============================================================================
