------------------------------ MODULE ReqWindow ------------------------------
(***************************************************************************)
(* What a request-window command of the XSDB console promises, whatever it *)
(* sends.  The command registers its state in the interpreter's single     *)
(* "arg" variable, issues TCF commands whose reply callbacks find their    *)
(* state through that variable, and gives the variable up when it returns. *)
(*                                                                         *)
(*   - nothing is sent once an error has been recorded;                    *)
(*   - the variable is given up only when no reply is outstanding, so      *)
(*     every callback finds the variable of the command that sent it;      *)
(*   - a recorded error is reported.                                       *)
(*                                                                         *)
(* Module Download shows that download_cache_client in xsdb.tcl implements *)
(* this specification, and the operations below are mapped to its code.    *)
(* Other commands of xsdb.tcl, such as process_tcf_actions_cache_client,   *)
(* have the same shape; nothing here is checked against them.              *)
(***************************************************************************)

CONSTANT Req      \* the names of the requests a command may issue

VARIABLES
  open,           \* a command is under way and owns the "arg" variable
  pending,        \* requests issued and not yet answered
  failed,         \* an error has been recorded in arg's "err" entry
  verdict         \* what the last command returned: "none", "ok", "error"

rwvars == <<open, pending, failed, verdict>>

Verdicts == {"none", "ok", "error"}

RWInit ==
  /\ open = FALSE
  /\ pending = {}
  /\ failed = FALSE
  /\ verdict = "none"

\* A command stores its arguments in the interpreter.
Begin ==
  /\ ~open
  /\ pending = {}
  /\ open' = TRUE
  /\ failed' = FALSE
  /\ verdict' = "none"
  /\ UNCHANGED pending

\* One turn of the command's loop issues requests, fails, or both.
Issue ==
  /\ open
  /\ ~failed
  /\ pending \subseteq pending'
  /\ pending' \subseteq Req
  /\ failed' \in BOOLEAN
  /\ UNCHANGED <<open, verdict>>

\* The callback of one outstanding request runs, and may record an error.
Answer ==
  /\ open
  /\ \E r \in pending : pending' = pending \ {r}
  /\ failed' \in BOOLEAN
  /\ failed => failed'
  /\ UNCHANGED <<open, verdict>>

\* The command returns.
End ==
  /\ open
  /\ pending = {}
  /\ open' = FALSE
  /\ verdict' \in {"ok", "error"}
  /\ failed => verdict' = "error"
  /\ UNCHANGED <<pending, failed>>

\* A command is refused before it has done anything.
Refuse ==
  /\ ~open
  /\ verdict' = "error"
  /\ UNCHANGED <<open, pending, failed>>

RWNext == Begin \/ Issue \/ Answer \/ End \/ Refuse

RWSpec == RWInit /\ [][RWNext]_rwvars

=============================================================================
