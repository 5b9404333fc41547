----------------------------- MODULE ContextCache -----------------------------
(***************************************************************************)
(* The context cache of one TCF channel (add_channel in                    *)
(* xsdb_tcfinterp.tcl) and the debug agent whose context tree it mirrors.  *)
(*                                                                         *)
(* The cache is a dictionary from context ids to entries.  An entry may    *)
(* have a parent, child contexts and, per data type, a value that was read *)
(* from the agent; a type that is absent is invalid.  Values come in by    *)
(* replies to the commands that "get" sends and by events, both over one   *)
(* channel that keeps their order; events also invalidate.                 *)
(*                                                                         *)
(* Of the services only RunControl is modelled, and the children of        *)
(* Registers ("regs") as the example of a type that RunControl's events    *)
(* leave alone.                                                            *)
(***************************************************************************)
EXTENDS Integers, Sequences, FiniteSets, SequencesExt

CONSTANTS
  Ctx,            \* the context ids the agent may use
  Root,           \* the id "" of the root
  Parent,         \* the ParentID of every context
  Reads,          \* the data types that clients read
  Kinds,          \* the kinds of events that the agent raises
  Readd,          \* the agent may add a context again under its old id
  MaxInbox,       \* bound: an event is raised only if fewer messages are on their way
  MaxReads        \* bound: a read is sent only if fewer are pending

Node == Ctx \cup {Root}
RunControlTypes == {"context", "children", "state"}
Types == RunControlTypes \cup {"regs"}
AllKinds == {"added", "removed", "suspended", "resumed", "exception", "stateChanged",
             "containerSuspended", "containerResumed"}

ASSUME CtxAssumption ==
  /\ Root \notin Ctx /\ IsFiniteSet(Ctx)
  /\ Parent \in [Ctx -> Node]
  /\ Reads \subseteq Types /\ Kinds \subseteq AllKinds
  /\ Readd \in BOOLEAN
  /\ MaxInbox \in Nat \ {0} /\ MaxReads \in Nat

VARIABLES
  alive,          \* the contexts of the agent
  used,           \* the contexts that the agent has added so far
  running,        \* those that run
  cmds,           \* commands the agent has not handled
  inbox,          \* replies and events the debugger has not handled
  ctxs,           \* the cache, as a record of
                  \*   entry     the context ids in it
                  \*   kids      the entries with a key "children"
                  \*   parented  the entries with a key "parent"
                  \*   linked    the contexts in the children of their parent's entry
                  \*   data      the cached values
  pending,        \* the reads whose reply has not come
  waiting,        \* <<n, t>>: a transaction waits, in the cache of type t, for n's value
  announced       \* the contexts given to ctx_added_handler

agentVars == <<alive, used, running>>
vars == <<agentVars, cmds, inbox, ctxs, pending, waiting, announced>>

\* Cached values.
Invalid == <<"invalid">>
Error == <<"error">>
List(S) == <<"list", S>>
State(b) == <<"state", b>>
Present == <<"present">>
Values == {Invalid, Error, Present} \cup {List(S) : S \in SUBSET Ctx} \cup {State(b) : b \in BOOLEAN}

IsList(v) == v[1] = "list"

\* What the agent would answer now.
Truth(n, t) ==
  CASE n \in Ctx \ alive -> Error
    [] n = Root /\ t \in {"state", "context"} -> Error
    [] OTHER -> CASE t = "children" -> List({c \in alive : Parent[c] = n})
                  [] t = "state"    -> State(n \in running)
                  [] OTHER          -> Present
-----------------------------------------------------------------------------
Init ==
  /\ alive = {} /\ used = {} /\ running = {}
  /\ cmds = <<>> /\ inbox = <<>>
  /\ ctxs = [entry |-> {Root}, kids |-> {Root}, parented |-> {}, linked |-> {},
             data |-> [x \in Node \X Types |-> Invalid]]
  /\ pending = {} /\ waiting = {}
  /\ announced = {}

-----------------------------------------------------------------------------
(***************************************************************************)
(* The agent (external).                                                   *)
(***************************************************************************)
Raise(kind, seq) ==
  /\ Len(inbox) < MaxInbox /\ kind \in Kinds
  /\ inbox' = Append(inbox, [kind |-> kind, ids |-> seq])
  /\ UNCHANGED <<cmds, ctxs, pending, waiting, announced>>

\* The context c and all that is below it: the least set with c and the children of its members.
Below(c) ==
  {d \in Ctx : \A S \in SUBSET Ctx : c \in S /\ (\A e \in Ctx : Parent[e] \in S => e \in S) => d \in S}

AgentAdd ==
  \E c \in Ctx \ alive :
    /\ Parent[c] \in alive \cup {Root}
    /\ Readd \/ c \notin used
    /\ alive' = alive \cup {c} /\ used' = used \cup {c}
    /\ Raise("added", <<c>>)
    /\ UNCHANGED running

\* The contexts below it disappear with a context.
AgentRemove ==
  \E c \in alive :
    /\ alive' = alive \ Below(c) /\ running' = running \ Below(c)
    /\ \E ids \in SetToSeqs(alive \cap Below(c)) : Raise("removed", ids)
    /\ UNCHANGED used

AgentSuspend ==
  \E c \in running :
    /\ running' = running \ {c}
    /\ Raise("suspended", <<c>>)
    /\ UNCHANGED <<alive, used>>

AgentResume ==
  \E c \in alive \ running :
    /\ running' = running \cup {c}
    /\ Raise("resumed", <<c>>)
    /\ UNCHANGED <<alive, used>>

\* Contexts stop or run together.
AgentContainer ==
  /\ \E S \in (SUBSET alive) \ {{}} : \E ids \in SetToSeqs(S) :
       \/ S \subseteq running /\ running' = running \ S /\ Raise("containerSuspended", ids)
       \/ S \cap running = {} /\ running' = running \cup S /\ Raise("containerResumed", ids)
  /\ UNCHANGED <<alive, used>>

\* An exception stops a context; the state changes otherwise, as in a reset.
AgentException ==
  \E c \in alive :
    /\ running' = running \ {c}
    /\ Raise("exception", <<c>>)
    /\ UNCHANGED <<alive, used>>

AgentStateChange ==
  \E c \in alive :
    /\ running' \in {running \cup {c}, running \ {c}} \ {running}
    /\ Raise("stateChanged", <<c>>)
    /\ UNCHANGED <<alive, used>>

AgentReply ==
  /\ cmds # <<>>
  /\ LET r == Head(cmds)
     IN inbox' = Append(inbox, [kind |-> "reply", node |-> r[1], type |-> r[2],
                                val |-> Truth(r[1], r[2])])
  /\ cmds' = Tail(cmds)
  /\ UNCHANGED <<agentVars, ctxs, pending, waiting, announced>>

-----------------------------------------------------------------------------
(***************************************************************************)
(* Operations on the cache k.                                              *)
(***************************************************************************)

\* The entries that hold nothing but an empty list of children.
Empty(k) ==
  {n \in k.kids \cap Ctx : /\ n \notin k.parented
                           /\ \A t \in Types : k.data[<<n, t>>] = Invalid
                           /\ \A c \in k.linked : Parent[c] # n}

Without(k, S) == [k EXCEPT !.entry = @ \ S, !.kids = @ \ S]

\* invalidate_datatypes for one type, not deep.
Invalidated(k, n, t) ==
  LET l == [k EXCEPT !.data[<<n, t>>] = Invalid] IN Without(l, Empty(l) \cap {n})

\* A deep invalidation of the types T.  The group that evaluates it goes on, when
\* nothing is left to do, with every context that has no parent, and so with all
\* there are.  With the children every relation is given up.
Swept(k, T) ==
  LET l == [k EXCEPT
              !.parented = IF "children" \in T THEN {} ELSE @,
              !.linked = IF "children" \in T THEN {} ELSE @,
              !.data = [x \in Node \X Types |-> IF x[2] \in T THEN Invalid ELSE k.data[x]]]
  IN Without(l, Empty(l))

\* Faulty RemoveTypes: the list of children is kept.
RemoveTypesKeepChildren == {"context", "state"}

\* The types that the removal of a context invalidates.
RemoveTypes == RunControlTypes

\* update_relations of n: a child that is gone is invalidated, and so is everything.
Related(k, n, S) ==
  LET old == {c \in k.linked : Parent[c] = n}
  IN IF old \subseteq S
     THEN [k EXCEPT !.entry = @ \cup S \cup (IF S = {} THEN {} ELSE {n}),
                    !.kids = @ \cup (S \ k.entry) \cup (IF S = {} THEN {} ELSE {n}),
                    !.parented = @ \cup S,
                    !.linked = @ \cup S]
     ELSE Swept(k, RemoveTypes)

\* update_cache and update_cache_entry.
Updated(k, n, t, v) == [k EXCEPT !.entry = @ \cup {n}, !.data[<<n, t>>] = v]

\* update_children; an error has no children.
UpdatedChildren(k, n, v) ==
  Updated(Related(k, n, IF IsList(v) THEN v[2] ELSE {}), n, "children", v)

\* The cached list of the parent's children gets the new one.
WithChild(k, c) ==
  LET v == k.data[<<Parent[c], "children">>]
  IN [k EXCEPT !.data[<<Parent[c], "children">>] = IF IsList(v) THEN List(v[2] \cup {c}) ELSE v]

\* add_contexts.
Added(k, c) ==
  LET l == [k EXCEPT !.entry = @ \cup {c, Parent[c]},
                     !.kids = @ \cup {Parent[c]} \cup ({c} \ k.entry),
                     !.parented = @ \cup ({c} \ k.entry),
                     !.linked = @ \cup {c}]
  IN Updated(WithChild(l, c), c, "context", Present)

\* remove_contexts: a context whose entry has no parent is passed over.
Removed(k, S) == IF S \cap k.parented # {} THEN Swept(k, RemoveTypes) ELSE k

\* containerSuspended: the state of the first context is replaced.  Those of the others
\* are invalidated, up to the first that is not in the cache: there dict unset
\* raises an error, which the sweep of the group precedes.
ContainerSuspended(k, ids) ==
  LET l == Updated(k, Head(ids), "state", State(FALSE))
  IN IF Len(ids) = 1 THEN l ELSE Swept(l, {"state"})

\* containerResumed: a context that is not in the cache raises an error before its
\* state is replaced, and the contexts after it are not reached.
ContainerResumed(k, ids) ==
  LET reached == {i \in DOMAIN ids : \A j \in 1 .. i : ids[j] \in k.entry}
      resumed == {ids[i] : i \in reached}
  IN [k EXCEPT !.data = [x \in Node \X Types |->
                           IF x[1] \in resumed /\ x[2] = "state" THEN State(TRUE)
                           ELSE k.data[x]]]

-----------------------------------------------------------------------------
(***************************************************************************)
(* The debugger.                                                           *)
(***************************************************************************)

\* The contexts that a client can ask for: those it was told of.
Known == {Root} \cup announced

\* Faulty NotPending: a read is sent although the same one is under way.
NotPendingIgnored(n, t) == TRUE

NotPending(n, t) == <<n, t>> \notin pending

\* A transaction misses in get_ctx_data: the type's get sends the command, once, and waits
\* in the cache.  A transaction that goes on begins anew, and may come here again.
Get(n, t) ==
  /\ ctxs.data[<<n, t>>] = Invalid
  /\ \/ /\ NotPending(n, t) /\ Cardinality(pending) < MaxReads
        /\ cmds' = Append(cmds, <<n, t>>)
        /\ pending' = pending \cup {<<n, t>>}
     \/ ~NotPending(n, t) /\ UNCHANGED <<cmds, pending>>
  /\ waiting' = waiting \cup {<<n, t>>}
  /\ UNCHANGED <<agentVars, inbox, ctxs, announced>>

\* Faulty Settled: a reply with an error leaves the read pending.
SettledUnlessError(m) == IF m.val = Error THEN pending ELSE pending \ {<<m.node, m.type>>}

Settled(m) == pending \ {<<m.node, m.type>>}

\* Faulty StillWaiting: the cache looks for reads that are left before the one that was
\* answered is taken off.
StillWaitingEarly(m) ==
  IF \E n \in Node : <<n, m.type>> \in pending THEN waiting ELSE {w \in waiting : w[2] # m.type}

\* The cache of a type is notified, and every transaction that waits in it goes on, when
\* no read of the type is left; until then also those whose value has come wait.
StillWaiting(m) ==
  IF \E n \in Node : <<n, m.type>> \in Settled(m) THEN waiting ELSE {w \in waiting : w[2] # m.type}

HandleReply(m) ==
  /\ ctxs' = IF m.type = "children" THEN UpdatedChildren(ctxs, m.node, m.val)
             ELSE Updated(ctxs, m.node, m.type, m.val)
  /\ pending' = Settled(m) /\ waiting' = StillWaiting(m)
  /\ UNCHANGED announced

\* Faulty NewContexts: only a child of a cached list is announced.
NewContextsListed(c) == IF IsList(ctxs.data[<<Parent[c], "children">>]) THEN {c} \ ctxs.entry ELSE {}

NewContexts(c) == {c} \ ctxs.entry

\* contextSuspended and contextResumed replace the state; what they invalidate, the
\* stack and expressions, is not modelled.  The sweep after contextException is that of
\* an unknown context too, whose error comes after the first type, the state.
HandleEvent(m) ==
  LET c == m.ids[1]
  IN /\ ctxs' =
          CASE m.kind = "added"              -> Added(ctxs, c)
            [] m.kind = "removed"            -> Removed(ctxs, ToSet(m.ids))
            [] m.kind = "suspended"          -> Updated(ctxs, c, "state", State(FALSE))
            [] m.kind = "resumed"            -> Updated(ctxs, c, "state", State(TRUE))
            [] m.kind = "exception"          -> Swept(ctxs, {"state"})
            [] m.kind = "stateChanged"       -> Invalidated(ctxs, c, "state")
            [] m.kind = "containerSuspended" -> ContainerSuspended(ctxs, m.ids)
            [] m.kind = "containerResumed"   -> ContainerResumed(ctxs, m.ids)
     /\ announced' = IF m.kind = "added" THEN announced \cup NewContexts(c) ELSE announced
     /\ UNCHANGED <<pending, waiting>>

\* The event thread takes the next message of the channel.
Deliver ==
  /\ inbox # <<>>
  /\ inbox' = Tail(inbox)
  /\ IF Head(inbox).kind = "reply" THEN HandleReply(Head(inbox)) ELSE HandleEvent(Head(inbox))
  /\ UNCHANGED <<agentVars, cmds>>

-----------------------------------------------------------------------------
AgentEvent ==
  \/ AgentAdd \/ AgentRemove
  \/ AgentSuspend \/ AgentResume \/ AgentContainer
  \/ AgentException \/ AgentStateChange

Next ==
  \/ AgentEvent
  \/ AgentReply
  \/ \E n \in Known, t \in Reads : Get(n, t)
  \/ Deliver

Spec == Init /\ [][Next]_vars

\* The agent answers, and the event thread handles what has come.
FairSpec == Spec /\ WF_vars(AgentReply) /\ WF_vars(Deliver)

-----------------------------------------------------------------------------
(***************************************************************************)
(* Properties                                                              *)
(***************************************************************************)

\* The types of the variables.
TypeOK ==
  /\ alive \subseteq used /\ used \subseteq Ctx /\ running \subseteq alive
  /\ cmds \in Seq(Node \X Types)
  /\ \A i \in DOMAIN inbox : inbox[i].kind \in AllKinds \cup {"reply"}
  /\ Root \in ctxs.entry /\ ctxs.entry \subseteq Node
  /\ ctxs.kids \subseteq ctxs.entry /\ ctxs.parented \subseteq ctxs.entry
  /\ ctxs.data \in [Node \X Types -> Values]
  /\ pending \subseteq Node \X Types /\ waiting \subseteq Node \X Types
  /\ announced \subseteq used

\* What the comment at lines 70-74 says of the cache: what is in it is valid.  When the
\* debugger has handled all the agent has sent, every value cached for a context
\* that exists is the one that the agent would answer, whatever reads, events and
\* invalidations crossed.
Coherent ==
  inbox = <<>> =>
    \A n \in alive \cup {Root}, t \in RunControlTypes : ctxs.data[<<n, t>>] \in {Invalid, Truth(n, t)}

\* The assertions of update_children and update_cache (lines 249 and 273): the reply
\* to a read finds the read pending; and a read is pending only while its
\* command or its reply is on the way.
Underway(n, t) ==
  \/ \E i \in DOMAIN cmds : cmds[i] = <<n, t>>
  \/ \E i \in DOMAIN inbox : inbox[i].kind = "reply" /\ inbox[i].node = n /\ inbox[i].type = t

PendingExact == \A n \in Node, t \in Types : <<n, t>> \in pending <=> Underway(n, t)

\* Every context that appears is announced to the clients (notify_newctxs), which
\* set up its memory map, whatever part of the tree was cached or swept before.
NewAnnounced == inbox = <<>> => alive \subseteq announced

\* No transaction is forgotten: one waits in the cache of a type only while a read of that
\* type is pending, whose reply will notify it, whichever of several reads is answered
\* last, with a value or with an error, and whatever the agent's events have stored
\* or invalidated meanwhile.
WaitersHeard == \A w \in waiting : \E n \in Node : <<n, w[2]>> \in pending

Sends(t) == \E n \in Node : <<n, t>> \in pending' \ pending

\* A transaction that waits for the cache is run again, if reads of the type do not go on
\* being sent for ever: those that are pending are all answered.
WaitersResumed ==
  \A n \in Node, t \in Reads :
    <>[][~Sends(t)]_vars => (<<n, t>> \in waiting ~> <<n, t>> \notin waiting)
=============================================================================
