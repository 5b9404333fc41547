---------------------------- MODULE CircularBuffer ----------------------------
(***************************************************************************)
(* The buffer of a tlm_fifo (circular_buffer.h): a ring of slots, of which *)
(* used ones from ri on hold elements and wi is the next to be written.    *)
(* The number of free slots, which the code also keeps, is size - used.    *)
(***************************************************************************)
EXTENDS Integers

CONSTANTS
  Items,     \* what the elements are
  Hole       \* a slot whose element has been destroyed, or was never made

\* Where a position is after i slots more.
Wrap(position, size) == position % size

NewBuffer(size) ==
  [size |-> size, slot |-> [s \in 0 .. (size - 1) |-> Hole], ri |-> 0, wi |-> 0, used |-> 0]

buffer_is_full(b) == b.used = b.size

read_data(b) == b.slot[b.ri]
peek_data(b, i) == b.slot[Wrap(b.ri + i, b.size)]

\* read: the element is moved out and destroyed.
read(b) ==
  [ size |-> b.size, slot |-> [b.slot EXCEPT ![b.ri] = Hole],
    ri |-> Wrap(b.ri + 1, b.size), wi |-> b.wi, used |-> b.used - 1 ]

write(b, t) ==
  [ size |-> b.size, slot |-> [b.slot EXCEPT ![b.wi] = t],
    ri |-> b.ri, wi |-> Wrap(b.wi + 1, b.size), used |-> b.used + 1 ]

\* An assignment through poke_data: unlike peek_data it counts from wi.
poke(b, i, t) ==
  [ size |-> b.size, slot |-> [b.slot EXCEPT ![Wrap(b.wi + i, b.size)] = t],
    ri |-> b.ri, wi |-> b.wi, used |-> b.used ]

\* Faulty resize: the slots keep their places, as a realloc would leave them.
resizeInPlace(b, size) ==
  [ size |-> size, ri |-> b.ri, wi |-> Wrap(b.ri + b.used, size), used |-> b.used,
    slot |-> [s \in 0 .. (size - 1) |-> IF s < b.size THEN b.slot[s] ELSE Hole] ]

\* resize: the elements that fit move to the front of a new ring.
resize(b, size) ==
  LET kept == IF size < b.used THEN size ELSE b.used
  IN [ size |-> size, ri |-> 0, wi |-> Wrap(kept, size), used |-> kept,
       slot |-> [s \in 0 .. (size - 1) |-> IF s < kept THEN peek_data(b, s) ELSE Hole] ]

\* The elements, the oldest first.
Contents(b) == [i \in 1 .. b.used |-> peek_data(b, i - 1)]

\* The type of a ring.
BufferOK(b) ==
  /\ b.size \in Nat \ {0}
  /\ b.slot \in [0 .. (b.size - 1) -> Items \cup {Hole}]
  /\ b.ri \in 0 .. (b.size - 1) /\ b.wi \in 0 .. (b.size - 1)
  /\ b.used \in 0 .. b.size
=============================================================================
