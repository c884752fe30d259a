---- MODULE MCBusBlocks ----
EXTENDS BusBlocks

CONSTANTS w, r, x, o, f

\* A plain writer, a reblocked reader and writer, a crossfade and its
\* readers, an OffsetOut, a reblocked replacement and a feedback reader.
Mixers(n) ==
    CASE n = w -> << <<"out", Private>>, <<"outkr", Control>>, <<"in", In0>>, <<"feedback", Out0>> >>
      [] n = r -> << <<"in", Private>>, <<"inkr", Control>>, <<"offset", Out0>>, <<"xpart", Private>>, <<"intrig", Control>> >>
      [] n = x -> << <<"map", Private>>, <<"replace", Private>>, <<"in", Private>>, <<"intrig", Control>>, <<"replacekr", Control>>, <<"xpart", Out0>> >>
      [] n = o -> << <<"offset", Out0>>, <<"xfull", Private>>, <<"in", Out0>> >>
      [] n = f -> << <<"replace", Out0>>, <<"feedback", Private>>, <<"out", Out0>>, <<"in", Out0>> >>
====
