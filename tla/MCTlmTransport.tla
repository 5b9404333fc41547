----------------------------- MODULE MCTlmTransport -----------------------------
(***************************************************************************)
(* Three clients that call twice each.                                     *)
(***************************************************************************)
EXTENDS TlmTransport

Requests == Clients \X (1 .. MaxCalls)
=============================================================================
