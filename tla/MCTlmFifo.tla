------------------------------- MODULE MCTlmFifo -------------------------------
(***************************************************************************)
(* Small fifos for TLC: unbounded, of size 0, 1 and 2.                     *)
(***************************************************************************)
EXTENDS TlmFifo

SmallSizes == {-1, 0, 1, 2}

=============================================================================
