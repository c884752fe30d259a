--------------------------- MODULE MCOscDispatch ---------------------------
(* Two clients, one buffer, one node id and two definitions.  The packets  *)
(* are the ones whose handling can interfere: a bundle stands for commands *)
(* a client sends together.                                                *)
EXTENDS OscDispatch, TLC

M(op, on) == [op |-> op, on |-> on, def |-> None, then |-> None]
With(op, on, then) == [op |-> op, on |-> on, def |-> None, then |-> then]
New(on, def) == [op |-> "s_new", on |-> on, def |-> def, then |-> None]
Sent(m) == [time |-> 0, msgs |-> <<m>>]
Bundle(t, ms) == [time |-> t, msgs |-> ms]

OutPackets == UNION {
    {Sent(M(op, b)) : op \in {"b_free", "b_write", "b_close"}}
    \cup {Sent(With("b_close", b, "b_query")), Sent(With("b_alloc", b, "b_write")),
          Bundle(0, <<M("b_alloc", b), M("b_writeOpen", b)>>),
          Bundle(1, <<M("b_alloc", b), M("b_write", b)>>)} : b \in Bufs}
InPackets == UNION {
    {Sent(M("b_read", b)), Bundle(0, <<M("c_set", b), M("cmd", b)>>),
     Bundle(0, <<M("b_fill", b), M("b_gen", b)>>)}
    \cup {Sent(With("d_load", b, "b_free")), Sent(With("b_allocRead", b, "b_free")),
          Bundle(0, <<M("b_alloc", b), With("b_readOpen", b, "b_query")>>),
          Bundle(0, <<M("b_close", b), M("b_writeOpen", b)>>)} : b \in Bufs}
NodePackets == UNION {
    {Sent(New(n, d)) : d \in Defs}
    \cup {Bundle(0, <<M("n_free", n), New(n, d)>>) : d \in Defs}
    \cup {Bundle(1, <<New(n, CHOOSE d \in Defs : TRUE), M("n_set", n)>>),
          Sent(M("n_run", n))} : n \in Nodes}
ThreeSessions == {OutPackets, InPackets, NodePackets}

Symmetry == Permutations(Clients)
=============================================================================
