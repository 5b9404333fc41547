---------------------------- MODULE MCContextCache ----------------------------
(***************************************************************************)
(* A device and its core.                                                  *)
(***************************************************************************)
EXTENDS ContextCache

CONSTANTS c1, c2

TwoLevels == (c1 :> Root) @@ (c2 :> c1)

\* All kinds of events but containerResumed.
PlainKinds == AllKinds \ {"containerResumed"}

\* Contexts that come and go, stop, and run together.
ResumeKinds == {"added", "removed", "suspended", "containerResumed"}
=============================================================================
