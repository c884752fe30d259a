---------------------------- MODULE MCOscQueries ----------------------------
(* Model-checking instances of OscQueries.                                 *)
EXTENDS OscQueries

Message(kind, size, time) == [kind |-> kind, size |-> size, time |-> time]

(* One message of each kind, in a bundle with a time tag or not; /sync     *)
(* untimed, and /s_get and /s_getn of one control, since the synth may end.*)
SafeMessages ==
    {Message("sync", 1, 0), Message("one", 1, 1), Message("node", 2, 0),
     Message("pairs", 2, 1), Message("ranges", 2, 0), Message("sget", 1, 0),
     Message("sgetn", 1, 0), Message("tree", 1, 0), Message("free", 1, 1),
     Message("clear", 1, 0), Message("trace", 1, 0)}

(* A /sync in a timed bundle, then another getter. *)
TimedSync == {Message("sync", 1, 1), Message("one", 1, 0)}

(* Two controls of a synth that may end, then another getter. *)
TwoControls == {Message("sget", 2, 0), Message("one", 1, 0)}
=============================================================================
