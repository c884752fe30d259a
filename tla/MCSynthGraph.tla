---- MODULE MCSynthGraph ----
EXTENDS SynthGraph

CONSTANTS x, y

\* Units by kind; each takes every parameter and every earlier output that
\* its kind may take.
Kinds == {"ar", "kr", "ir", "demand", "LocalIn", "LocalOut", "LocalBuf", "watch", "pool", "env"}
Rate(k) == CASE k \in {"ar", "LocalIn", "LocalOut", "pool"} -> "audio"
             [] k \in {"kr", "watch", "env"} -> "control"
             [] k \in {"ir", "LocalBuf"} -> "scalar"
             [] k = "demand" -> "demand"
Outputs(k) == IF k = "ar" THEN 2 ELSE IF k = "LocalOut" THEN 0 ELSE 1

RECURSIVE RefsTo(_, _)
RefsTo(ks, n) ==
    IF n = 0 THEN <<>>
    ELSE RefsTo(ks, n - 1) \o [o \in 1 .. Outputs(ks[n]) |-> <<"unit", n, o - 1>>]

Watched(ks, u) == {v \in 1 .. u - 1 : ks[v] \in {"env", "pool"}}

Inputs(ks, params, u) ==
    LET earlier == RefsTo(ks, u - 1)
    IN  CASE ks[u] = "LocalIn"  -> <<>>
          [] ks[u] = "LocalOut" -> SelectSeq(earlier, LAMBDA r : ks[r[2]] \in {"ar", "pool"})
          [] ks[u] = "LocalBuf" -> << <<"const">>, <<"const">> >>
          [] ks[u] = "watch"    -> << <<"unit", Max({0} \cup Watched(ks, u)), 0>> >>
          [] OTHER              -> [p \in DOMAIN params |-> <<"param", p>>] \o earlier

Unit(ks, params, u) ==
    [name |-> ks[u], rate |-> Rate(ks[u]), ins |-> Inputs(ks, params, u), nout |-> Outputs(ks[u]),
     size |-> IF ks[u] = "kr" THEN 12 ELSE IF ks[u] = "env" THEN 8 ELSE 4,
     align |-> IF ks[u] = "env" THEN 8 ELSE 4,
     aux |-> IF ks[u] \in {"ar", "demand"} THEN 6 ELSE 0,
     pool |-> ks[u] = "pool"]

Definition(ks, params, reblock) ==
    [params |-> params, reblock |-> reblock, resample |-> 1,
     units |-> [u \in DOMAIN ks |-> Unit(ks, params, u)]]

Worth(ks) ==
    /\ \A u \in DOMAIN ks : ks[u] = "watch" => Watched(ks, u) # {}
    /\ \A u, v \in DOMAIN ks : ks[u] = "LocalOut" /\ ks[v] = "LocalIn" => v < u

\* Every pair of kinds, and longer definitions for what a pair cannot show:
\* a watcher past a demand unit, a feedback loop, several local buffers.
Pairs == {ks \in Kinds \X Kinds : Worth(ks)}
Chains ==
    {<<>>, <<"ir", "ar", "kr">>, <<"demand", "demand", "ar">>, <<"demand", "env", "watch">>,
     <<"kr", "demand", "pool", "watch">>, <<"LocalIn", "ar", "LocalOut">>,
     <<"LocalIn", "demand", "pool", "LocalOut">>, <<"LocalBuf", "LocalBuf", "LocalBuf">>,
     <<"LocalBuf", "demand", "LocalBuf", "env", "watch">>}

AllDefs ==
    {Definition(ks, <<"trig", "audio">>, <<1>>) : ks \in Pairs} \cup
    {Definition(ks, <<"trig", "audio">>, rb) : ks \in Chains, rb \in {<<>>, <<1>>}} \cup
    {Definition(ks, <<"lag", "trig">>, rb) : ks \in {<<"kr", "ar">>, <<"demand", "ar">>}, rb \in {<<>>, <<1>>}}

Interchangeable == Permutations(Synth)
====
