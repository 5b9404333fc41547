------------------------------ MODULE TlmFifoOps ------------------------------
(***************************************************************************)
(* The operations of a tlm_fifo (tlm_fifo.h, tlm_fifo_put_get.h,           *)
(* tlm_fifo_peek.h, tlm_fifo_resize.h) as functions from a fifo to a fifo. *)
(* A fifo is a record [buffer, size, readable, read, written, expand,      *)
(* requested] of its members; requested says that request_update was       *)
(* called.  A negative size is that of an unbounded fifo.  The count       *)
(* m_num_read_no_notify is left out: it is never anything but 0.           *)
(***************************************************************************)
EXTENDS CircularBuffer

CONSTANT ZeroBuffer     \* the slots of a fifo of size 0 (16)
ASSUME ZeroBufferAssumption == ZeroBuffer \in Nat \ {0}

Abs(n) == IF n < 0 THEN -n ELSE n

NewFifo(n) ==
  [ buffer |-> NewBuffer(IF n = 0 THEN ZeroBuffer ELSE Abs(n)), size |-> n,
    readable |-> 0, read |-> 0, written |-> 0, expand |-> FALSE, requested |-> FALSE ]

used(f) == f.readable - f.read

is_empty(f) == used(f) = 0

is_full(f) == f.size >= 0 /\ f.size <= f.readable + f.written

\* A get that does not wait.
Taken(f) ==
  [f EXCEPT !.buffer = read(f.buffer), !.read = f.read + 1, !.requested = TRUE]

\* A put that does not wait: a full buffer is doubled.
Stored(f, t) ==
  LET room == IF buffer_is_full(f.buffer) THEN resize(f.buffer, 2 * f.buffer.size) ELSE f.buffer
  IN [f EXCEPT !.buffer = write(room, t), !.written = f.written + 1, !.requested = TRUE]

\* nb_poke.
Poked(f, n, t) == [f EXCEPT !.buffer = poke(f.buffer, n, t)]

\* nb_expand.
Expanded(f, n) ==
  IF f.size < 0 THEN f ELSE [f EXCEPT !.expand = TRUE, !.size = f.size + n, !.requested = TRUE]

\* nb_unbound.
Unbounded(f, n) ==
  [f EXCEPT !.expand = TRUE, !.size = -n, !.requested = TRUE,
            !.buffer = IF f.buffer.size < n THEN resize(f.buffer, n) ELSE f.buffer]

\* nb_bound, and nb_reduce, which calls it with what is left of the size; a negative
\* size, as an unsigned one wraps to it and back, is less than what is used.
Bounded(f, n) == [f EXCEPT !.size = IF n < used(f) THEN used(f) ELSE n]
Reduced(f, n) == IF f.size < 0 THEN f ELSE Bounded(f, f.size - n)

\* Which events update notifies.
ReadNotified(f) == f.read > 0 \/ f.expand
WriteNotified(f) == f.written > 0

\* update: at the end of the delta cycle what was written can be read.
Updated(f) ==
  [f EXCEPT !.readable = f.buffer.used, !.read = 0, !.written = 0,
            !.expand = FALSE, !.requested = FALSE]
=============================================================================
