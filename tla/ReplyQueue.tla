----------------------------- MODULE ReplyQueue -----------------------------
(***************************************************************************)
(* What the reply path promises its reader: the answers of the audio       *)
(* thread arrive in the order they were composed, each exactly once        *)
(* (World::reply: "preserving FIFO order").  An operation may compose      *)
(* several answers at once.                                                *)
(***************************************************************************)
EXTENDS Sequences, Integers

CONSTANT Reply
VARIABLE queue

Init == queue = <<>>

(* Some answers join at the back. *)
Compose ==
    /\ Len(queue') > Len(queue)
    /\ SubSeq(queue', 1, Len(queue)) = queue

(* Nrt::poll_reply takes the oldest. *)
Deliver ==
    /\ queue # <<>>
    /\ queue' = Tail(queue)

Next == Compose \/ Deliver

Spec == Init /\ [][Next]_queue
=============================================================================
