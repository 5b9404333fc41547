------------------------------- MODULE FifoQueue -------------------------------
(***************************************************************************)
(* What a fifo promises: elements leave it in the order in which they came *)
(* in, none is lost, none comes twice, whatever happens to its size and    *)
(* its buffer.  nb_poke may put another element in the place of one.       *)
(***************************************************************************)
EXTENDS Integers, Sequences

CONSTANT Items

VARIABLES
  queue,     \* the elements inside
  out        \* the element that came out last, if any

Init == queue = <<>> /\ out = <<>>

Put == \E t \in Items : queue' = Append(queue, t) /\ UNCHANGED out

Get == queue # <<>> /\ out' = <<Head(queue)>> /\ queue' = Tail(queue)

Poke == \E t \in Items, i \in DOMAIN queue : queue' = [queue EXCEPT ![i] = t] /\ UNCHANGED out

Next == Put \/ Get \/ Poke

Spec == Init /\ [][Next]_<<queue, out>>
=============================================================================
