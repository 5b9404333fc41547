-------------------------- MODULE ContextCache_proofs --------------------------
(***************************************************************************)
(* Proofs about ContextCache, for every tree of contexts, set of reads,    *)
(* kinds of events and bounds: a read is pending exactly while its command *)
(* or its reply is under way, no waiting transaction is forgotten, every   *)
(* context is announced, and the cache ends up with what the agent would   *)
(* answer.                                                                 *)
(***************************************************************************)
EXTENDS ContextCache, FiniteSetTheorems, SequenceTheorems, TLAPS

-----------------------------------------------------------------------------
(* What is sent *)

IsReply(m) == m.kind = "reply"

ReplyMessages == [kind : {"reply"}, node : Node, type : Types, val : Values]
EventMessages == [kind : AllKinds, ids : Seq(Ctx) \ {<<>>}]
Messages == ReplyMessages \cup EventMessages

Channel ==
  /\ cmds \in Seq(Node \X Types) /\ inbox \in Seq(Messages)
  /\ alive \subseteq Ctx /\ running \subseteq alive /\ announced \subseteq Ctx

LEMMA MessageKinds ==
  ASSUME NEW m \in Messages
  PROVE  IF IsReply(m) THEN m \in ReplyMessages ELSE m \in EventMessages
BY DEF Messages, ReplyMessages, EventMessages, AllKinds, IsReply

LEMMA TruthValue ==
  ASSUME alive \subseteq Ctx, NEW n \in Node, NEW t \in Types
  PROVE  /\ Truth(n, t) \in Values
         /\ IsList(Truth(n, t)) => Truth(n, t)[2] \subseteq alive
<1>1. CASE n \in Ctx \ alive \/ (n = Root /\ t \in {"state", "context"})
  <2>1. Truth(n, t) = Error
    BY <1>1 DEF Truth
  <2> QED BY <2>1 DEF Values, IsList, Error
<1>2. CASE ~(n \in Ctx \ alive \/ (n = Root /\ t \in {"state", "context"}))
  <2>1. CASE t = "children"
    <3> DEFINE S == {c \in alive : Parent[c] = n}
    <3>1. Truth(n, t) = List(S)
      BY <1>2, <2>1 DEF Truth
    <3> HIDE DEF S
    <3>2. S \subseteq alive
      BY DEF S
    <3> QED BY <3>1, <3>2 DEF Values, IsList, List
  <2>2. CASE t = "state"
    <3> DEFINE b == n \in running
    <3>1. Truth(n, t) = State(b)
      BY <1>2, <2>2 DEF Truth
    <3>2. b \in BOOLEAN
      OBVIOUS
    <3> HIDE DEF b
    <3>3. State(b) \in Values
      BY <3>2, Zenon DEF Values
    <3>4. ~IsList(State(b))
      BY DEF IsList, State
    <3> QED BY <3>1, <3>3, <3>4
  <2>3. CASE t \notin {"children", "state"}
    <3>1. Truth(n, t) = Present
      BY <1>2, <2>3 DEF Truth
    <3> QED BY <3>1 DEF Values, IsList, Present
  <2> QED BY <2>1, <2>2, <2>3
<1> QED BY <1>1, <1>2

\* The ids of an event are those of some contexts, in any order.
LEMMA IdsOf ==
  ASSUME NEW S \in SUBSET Ctx, S # {}, NEW ids \in SetToSeqs(S)
  PROVE  ids \in Seq(Ctx) \ {<<>>} /\ ids[1] \in S
<1>1. IsFiniteSet(S) /\ Cardinality(S) \in Nat /\ Cardinality(S) # 0
  BY CtxAssumption, FS_Subset, FS_CardinalityType, FS_EmptySet
<1>2. ids \in [1 .. Cardinality(S) -> S]
  BY DEF SetToSeqs
<1>3. 1 \in 1 .. Cardinality(S)
  BY <1>1
<1> QED BY <1>1, <1>2, <1>3

-----------------------------------------------------------------------------
(* Pending reads *)

\* m is the reply to the read of t at n.
Answers(m, n, t) == IsReply(m) /\ m.node = n /\ m.type = t

\* The same read is never under way twice.
Once ==
  /\ \A i, j \in DOMAIN cmds : cmds[i] = cmds[j] => i = j
  /\ \A i \in DOMAIN cmds, j \in DOMAIN inbox : ~Answers(inbox[j], cmds[i][1], cmds[i][2])
  /\ \A i, j \in DOMAIN inbox :
       IsReply(inbox[i]) /\ Answers(inbox[j], inbox[i].node, inbox[i].type) => i = j

PendingInv == Channel /\ Once /\ PendingExact

LEMMA InitPending == Init => PendingInv
<1> SUFFICES ASSUME Init PROVE PendingInv
  OBVIOUS
<1>1. cmds = <<>> /\ inbox = <<>> /\ pending = {} /\ alive = {} /\ running = {} /\ announced = {}
  BY DEF Init
<1> QED BY <1>1 DEF PendingInv, Channel, Once, PendingExact, Underway

\* An event is raised.
LEMMA RaisedKeeps ==
  ASSUME PendingInv, NEW m \in EventMessages, inbox' = Append(inbox, m),
         alive' \subseteq Ctx, running' \subseteq alive',
         UNCHANGED <<cmds, pending, waiting, announced>>
  PROVE  PendingInv'
<1>1. cmds \in Seq(Node \X Types) /\ inbox \in Seq(Messages) /\ m \in Messages /\ ~IsReply(m)
  BY DEF PendingInv, Channel, Messages, EventMessages, AllKinds, IsReply
<1>2. /\ inbox' \in Seq(Messages) /\ DOMAIN inbox' = DOMAIN inbox \cup {Len(inbox) + 1}
      /\ \A i \in DOMAIN inbox : inbox'[i] = inbox[i]
      /\ inbox'[Len(inbox) + 1] = m
  BY <1>1
<1>3. \A i \in DOMAIN inbox' : IsReply(inbox'[i]) => i \in DOMAIN inbox /\ inbox'[i] = inbox[i]
  BY <1>1, <1>2
<1>4. Channel'
  BY <1>1, <1>2 DEF PendingInv, Channel
<1>5. Once'
  BY <1>2, <1>3 DEF PendingInv, Once, Answers
<1>6. \A n \in Node, t \in Types : Underway(n, t)' <=> Underway(n, t)
  BY <1>2, <1>3 DEF Underway, IsReply
<1>7. PendingExact'
  <2> SUFFICES ASSUME NEW n \in Node, NEW t \in Types
               PROVE  <<n, t>> \in pending' <=> Underway(n, t)'
    BY Zenon DEF PendingExact
  <2>1. <<n, t>> \in pending <=> Underway(n, t)
    BY Zenon DEF PendingInv, PendingExact
  <2>2. pending' = pending
    OBVIOUS
  <2> QED BY <1>6, <2>1, <2>2, Zenon
<1> QED BY <1>4, <1>5, <1>7 DEF PendingInv

LEMMA EventRaised ==
  ASSUME Channel, AgentEvent
  PROVE  /\ \E m \in EventMessages :
              /\ inbox' = Append(inbox, m)
              /\ IF m.kind = "added"
                 THEN alive' = alive \cup {m.ids[1]} /\ Parent[m.ids[1]] \in alive \cup {Root}
                 ELSE alive' \subseteq alive /\ m.ids[1] \in alive
         /\ alive' \subseteq Ctx /\ running' \subseteq alive' /\ UNCHANGED <<cmds, ctxs, pending, waiting, announced>>
<1> DEFINE M(k, s) == [kind |-> k, ids |-> s]
<1>1. alive \subseteq Ctx /\ running \subseteq alive /\ Kinds \subseteq AllKinds
  BY CtxAssumption DEF Channel
<1>2. ASSUME NEW k \in Kinds, NEW s \in Seq(Ctx) \ {<<>>}
      PROVE  M(k, s) \in EventMessages /\ M(k, s).kind = k /\ M(k, s).ids = s
  BY <1>1, <1>2 DEF EventMessages
<1>3. ASSUME NEW c \in Ctx PROVE <<c>> \in Seq(Ctx) \ {<<>>} /\ <<c>>[1] = c
  BY <1>3
<1>4. ASSUME NEW k, NEW s \in Seq(Ctx) \ {<<>>}, Raise(k, s)
      PROVE  /\ \E m \in EventMessages : inbox' = Append(inbox, m) /\ m.kind = k /\ m.ids = s
             /\ UNCHANGED <<cmds, ctxs, pending, waiting, announced>>
  <2>1. k \in Kinds /\ inbox' = Append(inbox, M(k, s)) /\ UNCHANGED <<cmds, ctxs, pending, waiting, announced>>
    BY <1>4 DEF Raise
  <2> HIDE DEF M
  <2> QED BY <1>2, <2>1
<1> HIDE DEF M
<1>5. CASE AgentAdd
  <2>1. PICK c \in Ctx \ alive : /\ Parent[c] \in alive \cup {Root} /\ alive' = alive \cup {c}
                                 /\ running' = running /\ Raise("added", <<c>>)
    BY <1>5 DEF AgentAdd
  <2>2. /\ \E m \in EventMessages : inbox' = Append(inbox, m) /\ m.kind = "added" /\ m.ids = <<c>>
        /\ UNCHANGED <<cmds, ctxs, pending, waiting, announced>>
    BY <1>3, <1>4, <2>1
  <2> QED BY <1>1, <1>3, <2>1, <2>2
<1>6. CASE AgentRemove
  <2>1. PICK c \in alive : /\ alive' = alive \ Below(c) /\ running' = running \ Below(c)
                           /\ \E ids \in SetToSeqs(alive \cap Below(c)) : Raise("removed", ids)
    BY <1>6 DEF AgentRemove
  <2>2. PICK ids \in SetToSeqs(alive \cap Below(c)) : Raise("removed", ids)
    BY <2>1
  <2>3. alive \cap Below(c) \in SUBSET Ctx /\ alive \cap Below(c) # {}
    BY <1>1 DEF Below
  <2>4. ids \in Seq(Ctx) \ {<<>>} /\ ids[1] \in alive
    BY <2>3, IdsOf
  <2>5. /\ \E m \in EventMessages : inbox' = Append(inbox, m) /\ m.kind = "removed" /\ m.ids = ids
        /\ UNCHANGED <<cmds, ctxs, pending, waiting, announced>>
    BY <1>4, <2>2, <2>4
  <2> QED BY <1>1, <2>1, <2>4, <2>5
<1>7. CASE AgentSuspend \/ AgentResume \/ AgentException \/ AgentStateChange
  <2>1. PICK c \in Ctx, k \in {"suspended", "resumed", "exception", "stateChanged"} :
          Raise(k, <<c>>) /\ alive' = alive /\ c \in alive /\ running' \subseteq alive
    BY <1>1, <1>7 DEF AgentSuspend, AgentResume, AgentException, AgentStateChange
  <2>2. /\ \E m \in EventMessages : inbox' = Append(inbox, m) /\ m.kind = k /\ m.ids = <<c>>
        /\ UNCHANGED <<cmds, ctxs, pending, waiting, announced>>
    BY <1>3, <1>4, <2>1
  <2> QED BY <1>1, <1>3, <2>1, <2>2
<1>8. CASE AgentContainer
  <2>1. PICK S \in (SUBSET alive) \ {{}} : \E ids \in SetToSeqs(S) :
          \/ running' = running \ S /\ Raise("containerSuspended", ids)
          \/ running' = running \cup S /\ Raise("containerResumed", ids)
    BY <1>8 DEF AgentContainer
  <2>2. S \in SUBSET Ctx /\ S # {}
    BY <1>1
  <2>3. PICK ids \in SetToSeqs(S) :
          \/ running' = running \ S /\ Raise("containerSuspended", ids)
          \/ running' = running \cup S /\ Raise("containerResumed", ids)
    BY <2>1
  <2>4. ids \in Seq(Ctx) \ {<<>>} /\ ids[1] \in S
    BY <2>2, IdsOf
  <2>5. PICK k \in {"containerSuspended", "containerResumed"} : Raise(k, ids)
    BY <2>3
  <2>6. alive' = alive /\ running' \subseteq alive
    BY <1>1, <1>8, <2>3 DEF AgentContainer
  <2>7. /\ \E m \in EventMessages : inbox' = Append(inbox, m) /\ m.kind = k /\ m.ids = ids
        /\ UNCHANGED <<cmds, ctxs, pending, waiting, announced>>
    BY <1>4, <2>4, <2>5
  <2> QED BY <1>1, <2>4, <2>6, <2>7
<1> QED BY <1>5, <1>6, <1>7, <1>8 DEF AgentEvent

LEMMA ReadSent ==
  ASSUME PendingInv, NEW n \in Known, NEW t \in Reads, Get(n, t), ~UNCHANGED <<cmds, pending>>
  PROVE  PendingInv'
<1>1. /\ n \in Node /\ t \in Types /\ <<n, t>> \notin pending
      /\ cmds' = Append(cmds, <<n, t>>) /\ pending' = pending \cup {<<n, t>>}
      /\ UNCHANGED <<alive, running, inbox, announced>>
  BY CtxAssumption DEF PendingInv, Channel, Known, Node, Get, NotPending, agentVars
<1>2. cmds \in Seq(Node \X Types) /\ inbox \in Seq(Messages) /\ <<n, t>> \in Node \X Types
  BY <1>1 DEF PendingInv, Channel
<1>3. /\ cmds' \in Seq(Node \X Types) /\ DOMAIN cmds' = DOMAIN cmds \cup {Len(cmds) + 1}
      /\ \A i \in DOMAIN cmds : cmds'[i] = cmds[i]
      /\ cmds'[Len(cmds) + 1] = <<n, t>>
  <2> DEFINE R == Node \X Types
             r == <<n, t>>
  <2>1. cmds \in Seq(R) /\ r \in R /\ cmds' = Append(cmds, r)
    BY <1>1, <1>2
  <2> HIDE DEF R, r
  <2>2. /\ cmds' \in Seq(R) /\ DOMAIN cmds' = DOMAIN cmds \cup {Len(cmds) + 1}
        /\ \A i \in DOMAIN cmds : cmds'[i] = cmds[i]
        /\ cmds'[Len(cmds) + 1] = r
    BY <2>1
  <2> QED BY <2>2 DEF R, r
<1>4. /\ \A i \in DOMAIN cmds : cmds[i] # <<n, t>>
      /\ \A i \in DOMAIN inbox : ~Answers(inbox[i], n, t)
  BY <1>1 DEF PendingInv, PendingExact, Underway, Answers, IsReply
<1>5. Channel'
  BY <1>1, <1>3 DEF PendingInv, Channel
<1>6. Once'
  <2>1. \A i, j \in DOMAIN cmds' : cmds'[i] = cmds'[j] => i = j
    BY <1>3, <1>4 DEF PendingInv, Once
  <2>2. \A i \in DOMAIN cmds', j \in DOMAIN inbox' : ~Answers(inbox'[j], cmds'[i][1], cmds'[i][2])
    BY <1>1, <1>3, <1>4 DEF PendingInv, Once
  <2>3. \A i, j \in DOMAIN inbox' :
          IsReply(inbox'[i]) /\ Answers(inbox'[j], inbox'[i].node, inbox'[i].type) => i = j
    BY <1>1 DEF PendingInv, Once
  <2> QED BY <2>1, <2>2, <2>3 DEF Once, Answers, IsReply
<1>7. \A m \in Node, s \in Types : Underway(m, s)' <=> Underway(m, s) \/ <<m, s>> = <<n, t>>
  <2> TAKE m \in Node, s \in Types
  <2>1. (\E i \in DOMAIN cmds' : cmds'[i] = <<m, s>>)
          <=> (\E i \in DOMAIN cmds : cmds[i] = <<m, s>>) \/ <<m, s>> = <<n, t>>
    BY <1>3
  <2> QED BY <1>1, <2>1 DEF Underway
<1>8. PendingExact'
  <2> SUFFICES ASSUME NEW m \in Node, NEW s \in Types
               PROVE  <<m, s>> \in pending' <=> Underway(m, s)'
    BY Zenon DEF PendingExact
  <2>1. <<m, s>> \in pending <=> Underway(m, s)
    BY Zenon DEF PendingInv, PendingExact
  <2>2. <<m, s>> \in pending' <=> <<m, s>> \in pending \/ <<m, s>> = <<n, t>>
    BY <1>1
  <2> QED BY <1>7, <2>1, <2>2, Zenon
<1> QED BY <1>5, <1>6, <1>8 DEF PendingInv

LEMMA GetPending ==
  ASSUME PendingInv, NEW n \in Known, NEW t \in Reads, Get(n, t)
  PROVE  PendingInv'
<1>1. CASE UNCHANGED <<cmds, pending>>
  <2>1. UNCHANGED <<alive, running, inbox, announced, cmds, pending>>
    BY <1>1 DEF Get, agentVars
  <2> QED BY <2>1 DEF PendingInv, Channel, Once, PendingExact, Underway, Answers, IsReply
<1> QED BY <1>1, ReadSent

\* The command becomes its reply.
LEMMA ReplyPending ==
  ASSUME PendingInv, AgentReply
  PROVE  PendingInv'
<1> DEFINE n == Head(cmds)[1]
           t == Head(cmds)[2]
           m == [kind |-> "reply", node |-> n, type |-> t, val |-> Truth(n, t)]
<1>1. /\ cmds # <<>> /\ cmds' = Tail(cmds) /\ inbox' = Append(inbox, m)
      /\ UNCHANGED <<alive, running, pending, announced>>
  BY DEF AgentReply, agentVars
<1>2. cmds \in Seq(Node \X Types) /\ inbox \in Seq(Messages) /\ alive \subseteq Ctx
  BY DEF PendingInv, Channel
<1>3. /\ 1 \in DOMAIN cmds /\ cmds[1] = <<n, t>> /\ n \in Node /\ t \in Types
      /\ cmds' \in Seq(Node \X Types)
      /\ \A i \in DOMAIN cmds' : i + 1 \in DOMAIN cmds /\ cmds'[i] = cmds[i + 1] /\ i \in Nat /\ i > 0
      /\ \A i \in DOMAIN cmds : i # 1 => i - 1 \in DOMAIN cmds' /\ cmds'[i - 1] = cmds[i]
  <2> DEFINE R == Node \X Types
             r == Head(cmds)
  <2>1. cmds \in Seq(R) /\ cmds # <<>> /\ cmds' = Tail(cmds)
    BY <1>1, <1>2
  <2> HIDE DEF R
  <2>2. 1 \in DOMAIN cmds /\ cmds[1] = r /\ r \in R /\ cmds' \in Seq(R)
    BY <2>1
  <2>3. \A i \in DOMAIN cmds' : i + 1 \in DOMAIN cmds /\ cmds'[i] = cmds[i + 1] /\ i \in Nat /\ i > 0
    BY <2>1
  <2>4. \A i \in DOMAIN cmds : i # 1 => i - 1 \in DOMAIN cmds' /\ cmds'[i - 1] = cmds[i]
    BY <2>1
  <2>5. r = <<n, t>> /\ n \in Node /\ t \in Types
    BY <2>2 DEF R
  <2> QED BY <2>2, <2>3, <2>4, <2>5 DEF R
<1>4. m \in ReplyMessages /\ IsReply(m) /\ m.node = n /\ m.type = t
  BY <1>2, <1>3, TruthValue DEF ReplyMessages, IsReply
<1> HIDE DEF m, n, t
<1>5. /\ inbox' \in Seq(Messages) /\ DOMAIN inbox' = DOMAIN inbox \cup {Len(inbox) + 1}
      /\ \A i \in DOMAIN inbox : inbox'[i] = inbox[i]
      /\ inbox'[Len(inbox) + 1] = m
  BY <1>1, <1>2, <1>4 DEF Messages
<1>6. /\ \A i \in DOMAIN cmds' : cmds'[i] # <<n, t>>
      /\ \A i \in DOMAIN inbox : ~Answers(inbox[i], n, t)
  BY <1>3 DEF PendingInv, Once
<1>7. Channel'
  BY <1>1, <1>3, <1>5 DEF PendingInv, Channel
<1>8. Once'
  <2>1. \A i, j \in DOMAIN cmds' : cmds'[i] = cmds'[j] => i = j
    <3>1. TAKE i, j \in DOMAIN cmds'
    <3>2. HAVE cmds'[i] = cmds'[j]
    <3>3. i + 1 = j + 1
      BY <1>3, <3>1, <3>2 DEF PendingInv, Once
    <3> QED BY <1>3, <3>1, <3>3
  <2>2. \A i \in DOMAIN cmds', j \in DOMAIN inbox' : ~Answers(inbox'[j], cmds'[i][1], cmds'[i][2])
    <3>1. TAKE i \in DOMAIN cmds', j \in DOMAIN inbox'
    <3>2. CASE j \in DOMAIN inbox
      BY <1>3, <1>5, <3>1, <3>2 DEF PendingInv, Once
    <3>3. CASE inbox'[j] = m
      <4>1. cmds'[i] \in Node \X Types /\ cmds'[i] # <<n, t>>
        BY <1>3, <1>6, <3>1
      <4>2. cmds'[i][1] # n \/ cmds'[i][2] # t
        BY <4>1
      <4> QED BY <1>4, <3>3, <4>2 DEF Answers
    <3> QED BY <1>5, <3>1, <3>2, <3>3
  <2>3. \A i, j \in DOMAIN inbox' :
          IsReply(inbox'[i]) /\ Answers(inbox'[j], inbox'[i].node, inbox'[i].type) => i = j
    BY <1>4, <1>5, <1>6 DEF PendingInv, Once, Answers
  <2> QED BY <2>1, <2>2, <2>3 DEF Once, Answers, IsReply
<1>9. \A o \in Node, s \in Types : Underway(o, s)' <=> Underway(o, s)
  <2> TAKE o \in Node, s \in Types
  <2>1. (\E i \in DOMAIN cmds : cmds[i] = <<o, s>>)
          <=> (\E i \in DOMAIN cmds' : cmds'[i] = <<o, s>>) \/ <<o, s>> = <<n, t>>
    BY <1>3
  <2>2. (\E i \in DOMAIN inbox' : Answers(inbox'[i], o, s))
          <=> (\E i \in DOMAIN inbox : Answers(inbox[i], o, s)) \/ <<o, s>> = <<n, t>>
    BY <1>4, <1>5 DEF Answers
  <2> QED BY <2>1, <2>2 DEF Underway, Answers, IsReply
<1>10. PendingExact'
  <2> SUFFICES ASSUME NEW o \in Node, NEW s \in Types
               PROVE  <<o, s>> \in pending' <=> Underway(o, s)'
    BY Zenon DEF PendingExact
  <2>1. <<o, s>> \in pending <=> Underway(o, s)
    BY Zenon DEF PendingInv, PendingExact
  <2>2. pending' = pending
    BY <1>1
  <2> QED BY <1>9, <2>1, <2>2, Zenon
<1> QED BY <1>7, <1>8, <1>10 DEF PendingInv

\* The next message is taken from the channel.
LEMMA MessageTaken ==
  ASSUME Channel, inbox # <<>>, inbox' = Tail(inbox)
  PROVE  /\ 1 \in DOMAIN inbox /\ inbox[1] = Head(inbox) /\ Head(inbox) \in Messages
         /\ inbox' \in Seq(Messages)
         /\ \A i \in DOMAIN inbox' :
              i + 1 \in DOMAIN inbox /\ inbox'[i] = inbox[i + 1] /\ i \in Nat /\ i > 0
         /\ \A i \in DOMAIN inbox : i # 1 => i - 1 \in DOMAIN inbox' /\ inbox'[i - 1] = inbox[i]
<1>1. inbox \in Seq(Messages)
  BY DEF Channel
<1>2. /\ 1 \in DOMAIN inbox /\ inbox[1] = Head(inbox) /\ Head(inbox) \in Messages
      /\ inbox' \in Seq(Messages)
  BY <1>1
<1>3. \A i \in DOMAIN inbox' : i + 1 \in DOMAIN inbox /\ inbox'[i] = inbox[i + 1] /\ i \in Nat /\ i > 0
  BY <1>1
<1>4. \A i \in DOMAIN inbox : i # 1 => i - 1 \in DOMAIN inbox' /\ inbox'[i - 1] = inbox[i]
  BY <1>1
<1> QED BY <1>2, <1>3, <1>4

LEMMA DeliverPending ==
  ASSUME PendingInv, Deliver
  PROVE  PendingInv'
<1> DEFINE m == Head(inbox)
<1>1. /\ inbox # <<>> /\ inbox' = Tail(inbox) /\ UNCHANGED <<alive, running, cmds>>
  BY DEF Deliver, agentVars
<1>2. /\ 1 \in DOMAIN inbox /\ inbox[1] = m /\ m \in Messages /\ inbox' \in Seq(Messages)
      /\ \A i \in DOMAIN inbox' :
           i + 1 \in DOMAIN inbox /\ inbox'[i] = inbox[i + 1] /\ i \in Nat /\ i > 0
      /\ \A i \in DOMAIN inbox : i # 1 => i - 1 \in DOMAIN inbox' /\ inbox'[i - 1] = inbox[i]
  BY <1>1, MessageTaken DEF PendingInv
<1>3. IF IsReply(m) THEN HandleReply(m) ELSE HandleEvent(m)
  BY DEF Deliver, IsReply
<1> HIDE DEF m
<1>4. announced' \subseteq Ctx
  <2>1. CASE IsReply(m)
    BY <1>3, <2>1 DEF HandleReply, PendingInv, Channel
  <2>2. CASE ~IsReply(m)
    <3>1. m \in EventMessages
      BY <1>2, <2>2, MessageKinds
    <3>2. m.ids \in Seq(Ctx) /\ m.ids # <<>>
      BY <3>1 DEF EventMessages
    <3>3. m.ids[1] \in Ctx
      BY <3>2
    <3> QED BY <1>3, <2>2, <3>3 DEF HandleEvent, NewContexts, PendingInv, Channel
  <2> QED BY <2>1, <2>2
<1>5. Channel'
  BY <1>1, <1>2, <1>4 DEF PendingInv, Channel
<1>6. Once'
  <2>1. \A i, j \in DOMAIN inbox' :
          IsReply(inbox'[i]) /\ Answers(inbox'[j], inbox'[i].node, inbox'[i].type) => i = j
    <3>1. TAKE i, j \in DOMAIN inbox'
    <3>2. HAVE IsReply(inbox'[i]) /\ Answers(inbox'[j], inbox'[i].node, inbox'[i].type)
    <3>3. i + 1 = j + 1
      BY <1>2, <3>1, <3>2 DEF PendingInv, Once
    <3> QED BY <1>2, <3>1, <3>3
  <2>2. \A i, j \in DOMAIN cmds' : cmds'[i] = cmds'[j] => i = j
    BY <1>1 DEF PendingInv, Once
  <2>3. \A i \in DOMAIN cmds', j \in DOMAIN inbox' : ~Answers(inbox'[j], cmds'[i][1], cmds'[i][2])
    BY <1>1, <1>2 DEF PendingInv, Once
  <2> QED BY <2>1, <2>2, <2>3 DEF Once, Answers, IsReply
<1>7. \A n \in Node, t \in Types : Underway(n, t) <=> Underway(n, t)' \/ Answers(m, n, t)
  <2> TAKE n \in Node, t \in Types
  <2>1. (\E i \in DOMAIN inbox : Answers(inbox[i], n, t))
          <=> (\E i \in DOMAIN inbox' : Answers(inbox'[i], n, t)) \/ Answers(m, n, t)
    BY <1>2
  <2> QED BY <1>1, <2>1 DEF Underway, Answers, IsReply
<1>8. CASE IsReply(m)
  <2>1. pending' = pending \ {<<m.node, m.type>>}
    BY <1>3, <1>8 DEF HandleReply, Settled
  <2>2. \A n \in Node, t \in Types : Answers(m, n, t) => ~Underway(n, t)'
    <3> SUFFICES ASSUME NEW n \in Node, NEW t \in Types, Answers(m, n, t) PROVE ~Underway(n, t)'
      OBVIOUS
    <3>1. \A i \in DOMAIN cmds : cmds[i] # <<n, t>>
      BY <1>2 DEF PendingInv, Once
    <3>2. \A i \in DOMAIN inbox' : ~Answers(inbox'[i], n, t)
      <4> SUFFICES ASSUME NEW i \in DOMAIN inbox', Answers(inbox'[i], n, t) PROVE FALSE
        OBVIOUS
      <4>3. Answers(inbox[i + 1], inbox[1].node, inbox[1].type) /\ IsReply(inbox[1])
        BY <1>2 DEF Answers
      <4>4. i + 1 = 1
        BY <1>2, <4>3 DEF PendingInv, Once
      <4> QED BY <1>2, <4>4
    <3> QED BY <1>1, <3>1, <3>2 DEF Underway, Answers, IsReply
  <2>3. \A n \in Node, t \in Types : <<n, t>> \in pending' <=> Underway(n, t)'
    <3> SUFFICES ASSUME NEW n \in Node, NEW t \in Types
                 PROVE  <<n, t>> \in pending' <=> Underway(n, t)'
      OBVIOUS
    <3>1. <<n, t>> \in pending <=> Underway(n, t)
      BY Zenon DEF PendingInv, PendingExact
    <3>2. <<n, t>> \in pending' <=> <<n, t>> \in pending /\ ~Answers(m, n, t)
      BY <1>8, <2>1 DEF Answers
    <3> QED BY <1>7, <2>2, <3>1, <3>2, Zenon
  <2> QED BY <1>5, <1>6, <2>3 DEF PendingInv, PendingExact, Underway
<1>9. CASE ~IsReply(m)
  <2>1. pending' = pending
    BY <1>3, <1>9 DEF HandleEvent
  <2>2. \A n \in Node, t \in Types : <<n, t>> \in pending' <=> Underway(n, t)'
    <3> SUFFICES ASSUME NEW n \in Node, NEW t \in Types
                 PROVE  <<n, t>> \in pending' <=> Underway(n, t)'
      OBVIOUS
    <3>1. <<n, t>> \in pending <=> Underway(n, t)
      BY Zenon DEF PendingInv, PendingExact
    <3>2. ~Answers(m, n, t)
      BY <1>9 DEF Answers
    <3> QED BY <1>7, <2>1, <3>1, <3>2, Zenon
  <2> QED BY <1>5, <1>6, <2>2 DEF PendingInv, PendingExact, Underway
<1> QED BY <1>8, <1>9

LEMMA StepPending == PendingInv /\ [Next]_vars => PendingInv'
<1> SUFFICES ASSUME PendingInv, [Next]_vars PROVE PendingInv'
  OBVIOUS
<1>1. CASE AgentEvent
  <2>1. Channel
    BY DEF PendingInv
  <2>2. /\ \E m \in EventMessages : inbox' = Append(inbox, m)
        /\ alive' \subseteq Ctx /\ running' \subseteq alive' /\ UNCHANGED <<cmds, pending, waiting, announced>>
    BY <1>1, <2>1, EventRaised
  <2> QED BY <2>2, RaisedKeeps
<1>2. CASE UNCHANGED vars
  BY <1>2 DEF vars, agentVars, PendingInv, Channel, Once, PendingExact, Underway, Answers, IsReply
<1> QED BY <1>1, <1>2, ReplyPending, GetPending, DeliverPending DEF Next

\* The assertions of update_children and update_cache hold, and no read is pending whose
\* reply will not come.
THEOREM KeepsPending == Spec => []PendingExact
<1>1. PendingInv => PendingExact
  BY DEF PendingInv
<1> QED BY <1>1, InitPending, StepPending, PTL DEF Spec

LEMMA StepHeard ==
  ASSUME PendingInv, WaitersHeard, [Next]_vars
  PROVE  WaitersHeard'
<1>1. CASE AgentEvent
  <2>1. UNCHANGED <<pending, waiting>>
    BY <1>1, EventRaised DEF PendingInv
  <2> QED BY <2>1 DEF WaitersHeard
<1>2. CASE AgentReply
  <2>1. UNCHANGED <<pending, waiting>>
    BY <1>2 DEF AgentReply
  <2> QED BY <2>1 DEF WaitersHeard
<1>3. ASSUME NEW n \in Known, NEW t \in Reads, Get(n, t) PROVE WaitersHeard'
  <2>1. n \in Node
    BY DEF PendingInv, Channel, Known, Node
  <2>2. <<n, t>> \in pending' /\ pending \subseteq pending' /\ waiting' = waiting \cup {<<n, t>>}
    BY <1>3 DEF Get, NotPending
  <2> SUFFICES ASSUME NEW w \in waiting' PROVE \E o \in Node : <<o, w[2]>> \in pending'
    BY DEF WaitersHeard
  <2>3. CASE w = <<n, t>>
    BY <2>1, <2>2, <2>3
  <2>4. CASE w \in waiting
    BY <2>2, <2>4 DEF WaitersHeard
  <2> QED BY <2>2, <2>3, <2>4
<1>4. CASE Deliver
  <2>1. PICK m : m = Head(inbox)
    OBVIOUS
  <2>2. CASE m.kind = "reply"
    <3>1. pending' = pending \ {<<m.node, m.type>>} /\ waiting' = StillWaiting(m) /\ Settled(m) = pending'
      BY <1>4, <2>1, <2>2 DEF Deliver, HandleReply, Settled
    <3> SUFFICES ASSUME NEW w \in waiting' PROVE \E o \in Node : <<o, w[2]>> \in pending'
      BY DEF WaitersHeard
    <3>2. w \in waiting /\ (w[2] = m.type => \E n \in Node : <<n, m.type>> \in pending')
      BY <3>1 DEF StillWaiting
    <3>3. PICK o \in Node : <<o, w[2]>> \in pending
      BY <3>2 DEF WaitersHeard
    <3>4. w[2] # m.type => <<o, w[2]>> \in pending'
      BY <3>1, <3>3
    <3> QED BY <3>2, <3>4
  <2>3. CASE m.kind # "reply"
    <3>1. UNCHANGED <<pending, waiting>>
      BY <1>4, <2>1, <2>3 DEF Deliver, HandleEvent
    <3> QED BY <3>1 DEF WaitersHeard
  <2> QED BY <2>2, <2>3
<1>5. CASE UNCHANGED vars
  BY <1>5 DEF vars, WaitersHeard
<1> QED BY <1>1, <1>2, <1>3, <1>4, <1>5 DEF Next

\* No transaction waits in the cache of a type of which no read is pending: the reply that
\* empties the list of pending reads has notified all that waited.
THEOREM HearsWaiters == Spec => []WaitersHeard
<1>1. Init => WaitersHeard
  BY DEF Init, WaitersHeard
<1> QED BY <1>1, InitPending, StepPending, StepHeard, PTL DEF Spec

-----------------------------------------------------------------------------
(* Announced contexts *)

IsAdded(m) == m.kind = "added"

\* The contexts that a message speaks of, but for the one that it adds.
Mentions(m) ==
  IF IsReply(m) THEN {m.node} \cup (IF IsList(m.val) THEN m.val[2] ELSE {})
  ELSE IF IsAdded(m) THEN {Parent[m.ids[1]]} ELSE {m.ids[1]}

\* The addition of c comes before message i, or has been handled.
Before(c, i) ==
  c \in Known \/ \E j \in DOMAIN inbox : j < i /\ IsAdded(inbox[j]) /\ inbox[j].ids[1] = c

\* The channel keeps cause and effect in order, so whatever comes into the cache has
\* been announced.
Told ==
  /\ \A c \in alive : c \in announced \/ \E j \in DOMAIN inbox : IsAdded(inbox[j]) /\ inbox[j].ids[1] = c
  /\ \A i \in DOMAIN inbox : \A c \in Mentions(inbox[i]) : Before(c, i)
  /\ \A i \in DOMAIN cmds : cmds[i][1] \in Known
  /\ ctxs.entry \subseteq Known

\* The cache is a record with these fields.
Fields == {"entry", "kids", "parented", "linked", "data"}
Shape(k) == DOMAIN k = Fields

\* What each operation adds to the entries.
LEMMA SweptEntry ==
  ASSUME NEW k, NEW T, Shape(k)
  PROVE  Shape(Swept(k, T)) /\ Swept(k, T).entry \subseteq k.entry
BY DEF Shape, Fields, Swept, Without

LEMMA InvalidatedEntry ==
  ASSUME NEW k, NEW n, NEW t, Shape(k)
  PROVE  Shape(Invalidated(k, n, t)) /\ Invalidated(k, n, t).entry \subseteq k.entry
BY DEF Shape, Fields, Invalidated, Without

LEMMA UpdatedEntry ==
  ASSUME NEW k, NEW n, NEW t, NEW v, Shape(k)
  PROVE  Shape(Updated(k, n, t, v)) /\ Updated(k, n, t, v).entry = k.entry \cup {n}
BY DEF Shape, Fields, Updated

LEMMA RelatedEntry ==
  ASSUME NEW k, NEW n, NEW S, Shape(k)
  PROVE  Shape(Related(k, n, S)) /\ Related(k, n, S).entry \subseteq k.entry \cup S \cup {n}
<1>1. CASE {c \in k.linked : Parent[c] = n} \subseteq S
  BY <1>1 DEF Shape, Fields, Related
<1>2. CASE ~({c \in k.linked : Parent[c] = n} \subseteq S)
  <2>1. Related(k, n, S) = Swept(k, RemoveTypes)
    BY <1>2 DEF Related
  <2> QED BY <2>1, SweptEntry
<1> QED BY <1>1, <1>2

LEMMA UpdatedChildrenEntry ==
  ASSUME NEW k, NEW n, NEW v, Shape(k)
  PROVE  /\ Shape(UpdatedChildren(k, n, v))
         /\ UpdatedChildren(k, n, v).entry \subseteq k.entry \cup {n} \cup (IF IsList(v) THEN v[2] ELSE {})
<1> DEFINE S == IF IsList(v) THEN v[2] ELSE {}
           l == Related(k, n, S)
<1>1. Shape(l) /\ l.entry \subseteq k.entry \cup S \cup {n}
  <2> HIDE DEF S
  <2> QED BY RelatedEntry
<1>2. UpdatedChildren(k, n, v) = Updated(l, n, "children", v)
  BY DEF UpdatedChildren
<1> HIDE DEF l
<1> QED BY <1>1, <1>2, UpdatedEntry

LEMMA AddedEntry ==
  ASSUME NEW k, NEW c, Shape(k)
  PROVE  Shape(Added(k, c)) /\ Added(k, c).entry \subseteq k.entry \cup {c, Parent[c]}
<1> DEFINE l == [k EXCEPT !.entry = @ \cup {c, Parent[c]},
                          !.kids = @ \cup {Parent[c]} \cup ({c} \ k.entry),
                          !.parented = @ \cup ({c} \ k.entry),
                          !.linked = @ \cup {c}]
           w == WithChild(l, c)
<1>1. Shape(l) /\ l.entry = k.entry \cup {c, Parent[c]}
  BY DEF Shape, Fields
<1>2. Added(k, c) = Updated(w, c, "context", Present)
  BY DEF Added
<1> HIDE DEF l
<1>3. Shape(w) /\ w.entry = l.entry
  BY <1>1 DEF Shape, Fields, WithChild
<1> HIDE DEF w
<1> QED BY <1>1, <1>2, <1>3, UpdatedEntry

LEMMA RemovedEntry ==
  ASSUME NEW k, NEW S, Shape(k)
  PROVE  Shape(Removed(k, S)) /\ Removed(k, S).entry \subseteq k.entry
BY SweptEntry DEF Removed

LEMMA ContainerSuspendedEntry ==
  ASSUME NEW k, NEW ids, Shape(k)
  PROVE  /\ Shape(ContainerSuspended(k, ids))
         /\ ContainerSuspended(k, ids).entry \subseteq k.entry \cup {Head(ids)}
<1> DEFINE l == Updated(k, Head(ids), "state", State(FALSE))
<1>1. Shape(l) /\ l.entry = k.entry \cup {Head(ids)}
  BY UpdatedEntry
<1>2. ContainerSuspended(k, ids) = l \/ ContainerSuspended(k, ids) = Swept(l, {"state"})
  BY DEF ContainerSuspended
<1> HIDE DEF l
<1> QED BY <1>1, <1>2, SweptEntry

LEMMA ContainerResumedEntry ==
  ASSUME NEW k, NEW ids, Shape(k)
  PROVE  Shape(ContainerResumed(k, ids)) /\ ContainerResumed(k, ids).entry = k.entry
BY DEF Shape, Fields, ContainerResumed

\* The cache gets entries for what the message speaks of.
LEMMA HandledEntry ==
  ASSUME Shape(ctxs), NEW m \in Messages, IF IsReply(m) THEN HandleReply(m) ELSE HandleEvent(m)
  PROVE  /\ Shape(ctxs')
         /\ ctxs'.entry \subseteq ctxs.entry \cup Mentions(m)
                                  \cup (IF ~IsReply(m) /\ IsAdded(m) THEN {m.ids[1]} ELSE {})
<1>1. CASE IsReply(m)
  <2>1. CASE m.type = "children"
    <3>1. ctxs' = UpdatedChildren(ctxs, m.node, m.val)
      BY <1>1, <2>1 DEF HandleReply
    <3> QED BY <1>1, <3>1, UpdatedChildrenEntry DEF Mentions
  <2>2. CASE m.type # "children"
    <3>1. ctxs' = Updated(ctxs, m.node, m.type, m.val)
      BY <1>1, <2>2 DEF HandleReply
    <3> QED BY <1>1, <3>1, UpdatedEntry DEF Mentions
  <2> QED BY <2>1, <2>2
<1>2. CASE ~IsReply(m)
  <2>1. m.kind \in AllKinds /\ m.ids \in Seq(Ctx) /\ m.ids # <<>> /\ HandleEvent(m)
    BY <1>2, MessageKinds DEF EventMessages
  <2>2. Head(m.ids) = m.ids[1]
    BY <2>1
  <2> DEFINE c == m.ids[1]
  <2>3. CASE m.kind = "added"
    <3>1. ctxs' = Added(ctxs, c)
      BY <2>1, <2>3 DEF HandleEvent
    <3> QED BY <1>2, <2>3, <3>1, AddedEntry DEF Mentions, IsAdded
  <2>4. CASE m.kind = "removed"
    <3>1. ctxs' = Removed(ctxs, ToSet(m.ids))
      BY <2>1, <2>4 DEF HandleEvent
    <3> QED BY <3>1, RemovedEntry
  <2>5. CASE m.kind \in {"suspended", "resumed"}
    <3>1. PICK v : ctxs' = Updated(ctxs, c, "state", v)
      BY <2>1, <2>5 DEF HandleEvent
    <3> QED BY <1>2, <2>5, <3>1, UpdatedEntry DEF Mentions, IsAdded
  <2>6. CASE m.kind = "exception"
    <3>1. ctxs' = Swept(ctxs, {"state"})
      BY <2>1, <2>6 DEF HandleEvent
    <3> QED BY <3>1, SweptEntry
  <2>7. CASE m.kind = "stateChanged"
    <3>1. ctxs' = Invalidated(ctxs, c, "state")
      BY <2>1, <2>7 DEF HandleEvent
    <3> QED BY <3>1, InvalidatedEntry
  <2>8. CASE m.kind = "containerSuspended"
    <3>1. ctxs' = ContainerSuspended(ctxs, m.ids)
      BY <2>1, <2>8 DEF HandleEvent
    <3> QED BY <1>2, <2>2, <2>8, <3>1, ContainerSuspendedEntry DEF Mentions, IsAdded
  <2>9. CASE m.kind = "containerResumed"
    <3>1. ctxs' = ContainerResumed(ctxs, m.ids)
      BY <2>1, <2>9 DEF HandleEvent
    <3> QED BY <3>1, ContainerResumedEntry
  <2> QED BY <2>1, <2>3, <2>4, <2>5, <2>6, <2>7, <2>8, <2>9 DEF AllKinds
<1> QED BY <1>1, <1>2

ToldInv == Channel /\ Shape(ctxs) /\ Told

LEMMA InitTold == Init => Shape(ctxs) /\ Told
<1> SUFFICES ASSUME Init PROVE Shape(ctxs) /\ Told
  OBVIOUS
<1>1. /\ cmds = <<>> /\ inbox = <<>> /\ alive = {}
      /\ ctxs = [entry |-> {Root}, kids |-> {Root}, parented |-> {}, linked |-> {},
                 data |-> [x \in Node \X Types |-> Invalid]]
  BY DEF Init
<1>2. DOMAIN ctxs = Fields /\ ctxs.entry = {Root}
  <2> DEFINE d == [x \in Node \X Types |-> Invalid]
  <2>1. ctxs = [entry |-> {Root}, kids |-> {Root}, parented |-> {}, linked |-> {}, data |-> d]
    BY <1>1
  <2> HIDE DEF d
  <2> QED BY <2>1 DEF Fields
<1> QED BY <1>1, <1>2 DEF Told, Shape, Known

\* A message is sent about contexts whose additions have been sent.
LEMMA SentTold ==
  ASSUME ToldInv, NEW m \in Messages, inbox' = Append(inbox, m),
         UNCHANGED <<announced, ctxs>>,
         \A i \in DOMAIN cmds' : cmds'[i][1] \in Known,
         \A c \in alive' : c \in alive \/ (IsAdded(m) /\ m.ids[1] = c),
         \A c \in Mentions(m) : c \in Known \cup alive
  PROVE  Told'
<1>1. /\ DOMAIN inbox' = DOMAIN inbox \cup {Len(inbox) + 1} /\ Len(inbox) \in Nat
      /\ \A i \in DOMAIN inbox : inbox'[i] = inbox[i] /\ i < Len(inbox) + 1
      /\ inbox'[Len(inbox) + 1] = m
  <2>1. inbox \in Seq(Messages)
    BY DEF ToldInv, Channel
  <2> QED BY <2>1
<1>2. Known' = Known
  BY DEF Known
<1>3. \A c \in alive : c \in announced \/ \E j \in DOMAIN inbox : IsAdded(inbox[j]) /\ inbox[j].ids[1] = c
  BY DEF ToldInv, Told
<1>4. \A c \in alive' : c \in announced' \/ \E j \in DOMAIN inbox' : IsAdded(inbox'[j]) /\ inbox'[j].ids[1] = c
  BY <1>1, <1>3
<1>5. ASSUME NEW i \in DOMAIN inbox', NEW c \in Mentions(inbox'[i])
      PROVE  c \in Known \/ \E j \in DOMAIN inbox' : j < i /\ IsAdded(inbox'[j]) /\ inbox'[j].ids[1] = c
  <2>1. CASE i \in DOMAIN inbox
    <3>1. Before(c, i)
      BY <1>1, <1>5, <2>1 DEF ToldInv, Told
    <3> QED BY <1>1, <3>1 DEF Before
  <2>2. CASE i = Len(inbox) + 1
    <3>1. c \in Known \/ c \in alive
      BY <1>1, <1>5, <2>2
    <3> QED BY <1>1, <1>3, <2>2, <3>1 DEF Known
  <2> QED BY <1>1, <2>1, <2>2
<1>6. \A i \in DOMAIN inbox' : \A c \in Mentions(inbox'[i]) : Before(c, i)'
  BY <1>2, <1>5 DEF Before, IsAdded
<1>7. (\A i \in DOMAIN inbox : \A c \in Mentions(inbox[i]) : Before(c, i))'
  BY <1>6 DEF Mentions, IsReply, IsAdded, IsList
<1>8. ctxs'.entry \subseteq Known'
  BY <1>2 DEF ToldInv, Told
<1> QED BY <1>2, <1>4, <1>7, <1>8 DEF Told, IsAdded

LEMMA EventTold ==
  ASSUME ToldInv, AgentEvent
  PROVE  Told'
<1>1. Channel
  BY DEF ToldInv
<1>2. PICK m \in EventMessages :
        /\ inbox' = Append(inbox, m)
        /\ IF m.kind = "added"
           THEN alive' = alive \cup {m.ids[1]} /\ Parent[m.ids[1]] \in alive \cup {Root}
           ELSE alive' \subseteq alive /\ m.ids[1] \in alive
  BY <1>1, EventRaised
<1>3. UNCHANGED <<cmds, ctxs, announced>>
  BY <1>1, EventRaised
<1>4. m \in Messages /\ ~IsReply(m)
  BY DEF Messages, EventMessages, AllKinds, IsReply
<1>5. \A c \in alive' : c \in alive \/ (IsAdded(m) /\ m.ids[1] = c)
  BY <1>2 DEF IsAdded
<1>6. \A c \in Mentions(m) : c \in Known \cup alive
  BY <1>2, <1>4 DEF Mentions, IsAdded, Known
<1>7. \A i \in DOMAIN cmds' : cmds'[i][1] \in Known
  BY <1>3 DEF ToldInv, Told
<1> QED BY <1>2, <1>3, <1>4, <1>5, <1>6, <1>7, SentTold

LEMMA ReplyTold ==
  ASSUME ToldInv, AgentReply
  PROVE  Told'
<1> DEFINE n == Head(cmds)[1]
           t == Head(cmds)[2]
           m == [kind |-> "reply", node |-> n, type |-> t, val |-> Truth(n, t)]
<1>1. /\ cmds # <<>> /\ cmds' = Tail(cmds) /\ inbox' = Append(inbox, m)
      /\ UNCHANGED <<alive, announced, ctxs>>
  BY DEF AgentReply, agentVars
<1>2. cmds \in Seq(Node \X Types) /\ alive \subseteq Ctx /\ \A i \in DOMAIN cmds : cmds[i][1] \in Known
  BY DEF ToldInv, Channel, Told
<1>3. /\ n \in Node /\ t \in Types /\ n \in Known
      /\ \A i \in DOMAIN cmds' : cmds'[i][1] \in Known
  <2> DEFINE R == Node \X Types
             r == Head(cmds)
  <2>1. cmds \in Seq(R) /\ cmds # <<>> /\ cmds' = Tail(cmds)
    BY <1>1, <1>2
  <2> HIDE DEF R
  <2>2. 1 \in DOMAIN cmds /\ cmds[1] = r /\ r \in R
    BY <2>1
  <2>3. \A i \in DOMAIN cmds' : i + 1 \in DOMAIN cmds /\ cmds'[i] = cmds[i + 1]
    BY <2>1
  <2>4. n \in Node /\ t \in Types
    BY <2>2 DEF R
  <2> QED BY <1>2, <2>2, <2>3, <2>4
<1>4. m \in ReplyMessages /\ IsReply(m) /\ ~IsAdded(m) /\ m.node = n /\ m.val = Truth(n, t)
  BY <1>2, <1>3, TruthValue DEF ReplyMessages, IsReply, IsAdded
<1> HIDE DEF m, n, t
<1>5. \A c \in Mentions(m) : c \in Known \cup alive
  BY <1>2, <1>3, <1>4, TruthValue DEF Mentions
<1>6. m \in Messages
  BY <1>4 DEF Messages
<1> QED BY <1>1, <1>3, <1>5, <1>6, SentTold

LEMMA GetTold ==
  ASSUME ToldInv, NEW n \in Known, NEW t \in Reads, Get(n, t)
  PROVE  Told'
<1>1. cmds' \in {cmds, Append(cmds, <<n, t>>)} /\ UNCHANGED <<alive, inbox, ctxs, announced>>
  BY DEF Get, agentVars
<1>2. n \in Node /\ t \in Types /\ cmds \in Seq(Node \X Types)
  BY CtxAssumption DEF ToldInv, Channel, Known, Node
<1>3. \A i \in DOMAIN cmds' : cmds'[i][1] \in Known
  <2> DEFINE R == Node \X Types
             r == <<n, t>>
  <2>1. cmds \in Seq(R) /\ r \in R /\ cmds' \in {cmds, Append(cmds, r)} /\ r[1] \in Known
    BY <1>1, <1>2
  <2> HIDE DEF R, r
  <2>2. \A i \in DOMAIN cmds' : cmds'[i] = r \/ (i \in DOMAIN cmds /\ cmds'[i] = cmds[i])
    BY <2>1
  <2> QED BY <2>1, <2>2 DEF ToldInv, Told
<1> QED BY <1>1, <1>3 DEF ToldInv, Told, Known, Before

LEMMA DeliverTold ==
  ASSUME ToldInv, Deliver
  PROVE  Shape(ctxs)' /\ Told'
<1> DEFINE m == Head(inbox)
<1>1. /\ inbox # <<>> /\ inbox' = Tail(inbox) /\ UNCHANGED <<alive, cmds>>
  BY DEF Deliver, agentVars
<1>2. /\ 1 \in DOMAIN inbox /\ inbox[1] = m /\ m \in Messages
      /\ \A i \in DOMAIN inbox' :
           i + 1 \in DOMAIN inbox /\ inbox'[i] = inbox[i + 1] /\ i \in Nat /\ i > 0
      /\ \A i \in DOMAIN inbox : i # 1 => i - 1 \in DOMAIN inbox' /\ inbox'[i - 1] = inbox[i]
  BY <1>1, MessageTaken DEF ToldInv
<1>3. IF IsReply(m) THEN HandleReply(m) ELSE HandleEvent(m)
  BY DEF Deliver, IsReply
<1> HIDE DEF m
<1>4. /\ announced \subseteq announced'
      /\ ~IsReply(m) /\ IsAdded(m) => m.ids[1] \in Known'
  <2>1. CASE IsReply(m)
    BY <1>3, <2>1 DEF HandleReply
  <2>2. CASE ~IsReply(m)
    BY <1>3, <2>2 DEF HandleEvent, NewContexts, IsAdded, Known, ToldInv, Told
  <2> QED BY <2>1, <2>2
<1>5. Known \subseteq Known'
  BY <1>4 DEF Known
<1>6. Mentions(m) \subseteq Known
  <2>1. \A c \in Mentions(m) : Before(c, 1)
    BY <1>2 DEF ToldInv, Told
  <2>2. \A j \in DOMAIN inbox : ~(j < 1)
    BY <1>2, <1>1 DEF ToldInv, Channel
  <2> QED BY <2>1, <2>2 DEF Before
<1>7. Shape(ctxs)' /\ ctxs'.entry \subseteq Known'
  <2>1. /\ Shape(ctxs')
        /\ ctxs'.entry \subseteq ctxs.entry \cup Mentions(m)
                                 \cup (IF ~IsReply(m) /\ IsAdded(m) THEN {m.ids[1]} ELSE {})
    BY <1>2, <1>3, HandledEntry DEF ToldInv
  <2> QED BY <1>4, <1>5, <1>6, <2>1 DEF Shape, ToldInv, Told
\* An addition that was there is still there, or has been handled.
<1>8. ASSUME NEW i \in DOMAIN inbox, IsAdded(inbox[i])
      PROVE  inbox[i].ids[1] \in Known' \/ (i - 1 \in DOMAIN inbox' /\ inbox'[i - 1] = inbox[i])
  <2>1. IsAdded(m) => ~IsReply(m)
    BY DEF IsAdded, IsReply
  <2> QED BY <1>2, <1>4, <1>8, <2>1
<1>9. ASSUME NEW i \in DOMAIN inbox', NEW c \in Mentions(inbox'[i]) PROVE Before(c, i)'
  <2>1. i + 1 \in DOMAIN inbox /\ inbox'[i] = inbox[i + 1] /\ i \in Nat
    BY <1>2, <1>9
  <2>2. Before(c, i + 1)
    BY <1>9, <2>1 DEF ToldInv, Told
  <2>3. CASE c \in Known
    BY <1>5, <2>3 DEF Before
  <2>4. CASE c \notin Known
    <3>1. PICK j \in DOMAIN inbox : j < i + 1 /\ IsAdded(inbox[j]) /\ inbox[j].ids[1] = c
      BY <2>2, <2>4 DEF Before
    <3>2. CASE c \in Known'
      BY <3>2 DEF Before
    <3>3. CASE j - 1 \in DOMAIN inbox' /\ inbox'[j - 1] = inbox[j]
      <4>1. j - 1 < i /\ IsAdded(inbox'[j - 1]) /\ inbox'[j - 1].ids[1] = c
        <5>1. j \in Nat
          BY <3>1 DEF ToldInv, Channel
        <5> QED BY <2>1, <3>1, <3>3, <5>1
      <4> QED BY <3>3, <4>1 DEF Before, IsAdded
    <3> QED BY <1>8, <3>1, <3>2, <3>3
  <2> QED BY <2>3, <2>4
<1>10. (\A i \in DOMAIN inbox : \A c \in Mentions(inbox[i]) : Before(c, i))'
  BY <1>9 DEF Mentions, IsReply, IsAdded, IsList
<1>11. (\A c \in alive : c \in announced \/ \E j \in DOMAIN inbox : IsAdded(inbox[j]) /\ inbox[j].ids[1] = c)'
  <2> SUFFICES ASSUME NEW c \in alive
               PROVE  c \in announced' \/ \E j \in DOMAIN inbox' : IsAdded(inbox'[j]) /\ inbox'[j].ids[1] = c
    BY <1>1 DEF IsAdded
  <2>1. CASE c \in announced
    BY <1>4, <2>1
  <2>2. CASE c \notin announced
    <3>1. PICK j \in DOMAIN inbox : IsAdded(inbox[j]) /\ inbox[j].ids[1] = c
      BY <2>2 DEF ToldInv, Told
    <3>2. c # Root
      BY CtxAssumption DEF ToldInv, Channel
    <3> QED BY <1>8, <3>1, <3>2 DEF Known
  <2> QED BY <2>1, <2>2
<1>12. \A i \in DOMAIN cmds' : cmds'[i][1] \in Known'
  BY <1>1, <1>5 DEF ToldInv, Told
<1> QED BY <1>7, <1>10, <1>11, <1>12 DEF Told

LEMMA StepTold == ToldInv /\ [Next]_vars => Shape(ctxs)' /\ Told'
<1> SUFFICES ASSUME ToldInv, [Next]_vars PROVE Shape(ctxs)' /\ Told'
  OBVIOUS
<1>1. CASE AgentEvent
  <2>1. ctxs' = ctxs
    BY <1>1, EventRaised DEF ToldInv
  <2> QED BY <1>1, <2>1, EventTold DEF ToldInv, Shape
<1>2. CASE AgentReply
  BY <1>2, ReplyTold DEF AgentReply, ToldInv, Shape
<1>3. ASSUME NEW n \in Known, NEW t \in Reads, Get(n, t) PROVE Shape(ctxs)' /\ Told'
  BY <1>3, GetTold DEF Get, ToldInv, Shape
<1>4. CASE Deliver
  BY <1>4, DeliverTold
<1>5. CASE UNCHANGED vars
  BY <1>5 DEF vars, agentVars, ToldInv, Shape, Told, Before, Known, Mentions, IsReply, IsAdded, IsList
<1> QED BY <1>1, <1>2, <1>3, <1>4, <1>5 DEF Next

\* Every context of the agent has been given to ctx_added_handler when all its messages
\* have been handled, whatever the cache lost or read in between.
THEOREM AnnouncesNew == Spec => []NewAnnounced
<1>1. PendingInv /\ Shape(ctxs) /\ Told /\ [Next]_vars => (PendingInv /\ Shape(ctxs) /\ Told)'
  BY StepPending, StepTold DEF ToldInv, PendingInv
<1>2. Told => NewAnnounced
  BY DEF Told, NewAnnounced
<1> QED BY <1>1, <1>2, InitPending, InitTold, PTL DEF Spec

-----------------------------------------------------------------------------
(* What is cached *)

Listed(v) == IF IsList(v) THEN v[2] ELSE {}

\* What the operations keep of a cache: a child that is linked has an entry with a parent,
\* a value has an entry, and the children in a cached list are linked.
Kept(k) ==
  /\ Shape(k)
  /\ k.linked \subseteq k.parented /\ k.parented \subseteq k.entry /\ k.linked \subseteq Ctx
  /\ k.data \in [Node \X Types -> Values]
  /\ \A n \in Node, t \in Types : k.data[<<n, t>>] # Invalid => n \in k.entry
  /\ \A n \in Node : \A c \in Listed(k.data[<<n, "children">>]) : c \in k.linked /\ Parent[c] = n

\* The values of the state and the context.
Plain == {"state", "context"}

LEMMA TypesAre ==
  /\ Plain \subseteq Types /\ "children" \in Types /\ "children" \notin Plain
  /\ RemoveTypes = {"context", "children", "state"} /\ Ctx \subseteq Node /\ Root \in Node
BY DEF Plain, Types, RunControlTypes, RemoveTypes, Node

LEMMA ValuesAre ==
  /\ Invalid \in Values /\ Error \in Values /\ Present \in Values
  /\ State(TRUE) \in Values /\ State(FALSE) \in Values
  /\ \A S \in SUBSET Ctx : List(S) \in Values
BY DEF Values

LEMMA ListsAre ==
  /\ ~IsList(Invalid) /\ ~IsList(Error) /\ ~IsList(Present) /\ ~IsList(State(TRUE)) /\ ~IsList(State(FALSE))
  /\ \A S : IsList(List(S)) /\ List(S)[2] = S
  /\ Present # Invalid /\ Present # Error
BY DEF IsList, Invalid, Error, Present, State, List

LEMMA ListedChildren ==
  ASSUME NEW v \in Values
  PROVE  Listed(v) \subseteq Ctx /\ (IsList(v) => v = List(Listed(v)))
BY DEF Values, Listed, IsList, Invalid, Error, Present, State, List

LEMMA SweptKept ==
  ASSUME NEW k, NEW T \in SUBSET Types, Kept(k)
  PROVE  LET l == Swept(k, T)
         IN /\ Kept(l)
            /\ l.linked = IF "children" \in T THEN {} ELSE k.linked
            /\ \A n \in Node, t \in Types :
                 l.data[<<n, t>>] = IF t \in T THEN Invalid ELSE k.data[<<n, t>>]
<1> DEFINE d == [x \in Node \X Types |-> IF x[2] \in T THEN Invalid ELSE k.data[x]]
           l == [k EXCEPT !.parented = IF "children" \in T THEN {} ELSE @,
                          !.linked = IF "children" \in T THEN {} ELSE @,
                          !.data = d]
           w == Swept(k, T)
<1>1. w = Without(l, Empty(l))
  BY DEF Swept
<1>2. /\ Shape(l) /\ l.entry = k.entry /\ l.data = d
      /\ l.parented = (IF "children" \in T THEN {} ELSE k.parented)
      /\ l.linked = (IF "children" \in T THEN {} ELSE k.linked)
  <2> HIDE DEF d
  <2> QED BY DEF Kept, Shape, Fields
<1>3. \A n \in Node, t \in Types : d[<<n, t>>] = IF t \in T THEN Invalid ELSE k.data[<<n, t>>]
  OBVIOUS
<1>4. d \in [Node \X Types -> Values]
  BY ValuesAre DEF Kept
<1> HIDE DEF d, l
<1>5. /\ Shape(w) /\ w.entry = l.entry \ Empty(l) /\ w.data = d
      /\ w.parented = l.parented /\ w.linked = l.linked
  BY <1>1, <1>2 DEF Without, Shape, Fields
<1>6. \A n \in Empty(l) : n \notin l.parented /\ \A t \in Types : d[<<n, t>>] = Invalid
  BY <1>2 DEF Empty
<1>7. w.linked \subseteq w.parented /\ w.parented \subseteq w.entry /\ w.linked \subseteq Ctx
  BY <1>2, <1>5, <1>6 DEF Kept
<1>8. \A n \in Node, t \in Types : w.data[<<n, t>>] # Invalid => n \in w.entry
  BY <1>2, <1>3, <1>5, <1>6 DEF Kept
<1>9. \A n \in Node : \A c \in Listed(w.data[<<n, "children">>]) : c \in w.linked /\ Parent[c] = n
  BY <1>2, <1>3, <1>5, TypesAre, ListsAre DEF Kept, Listed
<1>10. Kept(w)
  BY <1>4, <1>5, <1>7, <1>8, <1>9 DEF Kept
<1> QED BY <1>2, <1>3, <1>5, <1>10

LEMMA InvalidatedKept ==
  ASSUME NEW k, NEW n \in Node, NEW t \in Plain, Kept(k)
  PROVE  LET l == Invalidated(k, n, t)
         IN /\ Kept(l) /\ l.linked = k.linked
            /\ \A o \in Node, s \in Types :
                 l.data[<<o, s>>] = IF <<o, s>> = <<n, t>> THEN Invalid ELSE k.data[<<o, s>>]
<1> DEFINE l == [k EXCEPT !.data[<<n, t>>] = Invalid]
           w == Invalidated(k, n, t)
<1>1. w = Without(l, Empty(l) \cap {n})
  BY DEF Invalidated
<1>2. /\ Shape(l) /\ l.entry = k.entry /\ l.parented = k.parented /\ l.linked = k.linked
      /\ l.data \in [Node \X Types -> Values]
      /\ \A o \in Node, s \in Types :
           l.data[<<o, s>>] = IF <<o, s>> = <<n, t>> THEN Invalid ELSE k.data[<<o, s>>]
  BY ValuesAre, TypesAre DEF Kept, Shape, Fields
<1> HIDE DEF l
<1>5. /\ Shape(w) /\ w.entry = l.entry \ (Empty(l) \cap {n}) /\ w.data = l.data
      /\ w.parented = l.parented /\ w.linked = l.linked
  BY <1>1, <1>2 DEF Without, Shape, Fields
<1>6. \A o \in Empty(l) : o \notin l.parented /\ \A s \in Types : l.data[<<o, s>>] = Invalid
  BY DEF Empty
<1>7. w.linked \subseteq w.parented /\ w.parented \subseteq w.entry /\ w.linked \subseteq Ctx
  BY <1>2, <1>5, <1>6 DEF Kept
<1>8. \A o \in Node, s \in Types : w.data[<<o, s>>] # Invalid => o \in w.entry
  BY <1>2, <1>5, <1>6 DEF Kept
<1>9. \A o \in Node : \A c \in Listed(w.data[<<o, "children">>]) : c \in w.linked /\ Parent[c] = o
  BY <1>2, <1>5, TypesAre, ListsAre DEF Kept, Listed
<1>10. Kept(w)
  BY <1>2, <1>5, <1>7, <1>8, <1>9 DEF Kept
<1> QED BY <1>2, <1>5, <1>10

\* A value is replaced; a list only by one whose children are linked.
LEMMA UpdatedKept ==
  ASSUME NEW k, NEW n \in Node, NEW t \in Types, NEW v \in Values, Kept(k),
         t = "children" => \A c \in Listed(v) : c \in k.linked /\ Parent[c] = n
  PROVE  LET l == Updated(k, n, t, v)
         IN /\ Kept(l) /\ l.linked = k.linked
            /\ \A o \in Node, s \in Types :
                 l.data[<<o, s>>] = IF <<o, s>> = <<n, t>> THEN v ELSE k.data[<<o, s>>]
<1> DEFINE l == Updated(k, n, t, v)
<1>1. /\ Shape(l) /\ l.entry = k.entry \cup {n} /\ l.parented = k.parented /\ l.linked = k.linked
      /\ l.data \in [Node \X Types -> Values]
      /\ \A o \in Node, s \in Types :
           l.data[<<o, s>>] = IF <<o, s>> = <<n, t>> THEN v ELSE k.data[<<o, s>>]
  BY DEF Updated, Kept, Shape, Fields
<1> HIDE DEF l
<1>2. \A o \in Node, s \in Types : l.data[<<o, s>>] # Invalid => o \in l.entry
  BY <1>1 DEF Kept
<1>3. \A o \in Node : \A c \in Listed(l.data[<<o, "children">>]) : c \in l.linked /\ Parent[c] = o
  BY <1>1, TypesAre DEF Kept
<1>4. Kept(l)
  BY <1>1, <1>2, <1>3 DEF Kept
<1> QED BY <1>1, <1>4 DEF l

\* The list of n is replied, and no child that is linked is left out.
LEMMA UpdatedChildrenKept ==
  ASSUME NEW k, NEW n \in Node, NEW v \in Values, Kept(k),
         \A c \in Listed(v) : Parent[c] = n,
         \A c \in k.linked : Parent[c] = n => c \in Listed(v)
  PROVE  LET l == UpdatedChildren(k, n, v)
         IN /\ Kept(l) /\ l.linked = k.linked \cup Listed(v)
            /\ \A o \in Node, s \in Types :
                 l.data[<<o, s>>] = IF <<o, s>> = <<n, "children">> THEN v ELSE k.data[<<o, s>>]
<1> DEFINE S == Listed(v)
           l == Related(k, n, S)
<1>1. UpdatedChildren(k, n, v) = Updated(l, n, "children", v)
  BY DEF UpdatedChildren, Listed
<1>2. S \subseteq Ctx
  BY ListedChildren
<1>3. {c \in k.linked : Parent[c] = n} \subseteq S
  OBVIOUS
<1> HIDE DEF S
<1>4. /\ Shape(l) /\ l.linked = k.linked \cup S /\ l.parented = k.parented \cup S /\ l.data = k.data
      /\ l.entry = k.entry \cup S \cup (IF S = {} THEN {} ELSE {n})
  BY <1>3 DEF Related, Kept, Shape, Fields
<1> HIDE DEF l
<1>5. Kept(l)
  BY <1>2, <1>4 DEF Kept
<1>6. \A c \in Listed(v) : c \in l.linked /\ Parent[c] = n
  BY <1>4 DEF S
<1> QED BY <1>1, <1>4, <1>5, <1>6, UpdatedKept, TypesAre DEF S

\* A context comes that has no entry.
LEMMA AddedKept ==
  ASSUME NEW k, NEW c \in Ctx, Kept(k), c \notin k.entry
  PROVE  LET l == Added(k, c)
             N(n) == k.data[<<n, "children">>]
         IN /\ Kept(l) /\ l.linked = k.linked \cup {c}
            /\ \A n \in Node : n # Parent[c] \/ ~IsList(N(n)) => l.data[<<n, "children">>] = N(n)
            /\ IsList(N(Parent[c])) =>
                 l.data[<<Parent[c], "children">>] = List(N(Parent[c])[2] \cup {c})
            /\ \A n \in Node, t \in Plain :
                 l.data[<<n, t>>] = IF n = c /\ t = "context" THEN Present ELSE k.data[<<n, t>>]
<1> DEFINE l == [k EXCEPT !.entry = @ \cup {c, Parent[c]},
                          !.kids = @ \cup {Parent[c]} \cup ({c} \ k.entry),
                          !.parented = @ \cup ({c} \ k.entry),
                          !.linked = @ \cup {c}]
           w == WithChild(l, c)
           p == <<Parent[c], "children">>
           v == IF IsList(k.data[p]) THEN List(k.data[p][2] \cup {c}) ELSE k.data[p]
<1>1. /\ Shape(l) /\ l.entry = k.entry \cup {c, Parent[c]} /\ l.parented = k.parented \cup {c}
      /\ l.linked = k.linked \cup {c} /\ l.data = k.data
  BY DEF Kept, Shape, Fields
<1>2. Added(k, c) = Updated(w, c, "context", Present)
  BY DEF Added
<1>3. w = [l EXCEPT !.data[p] = v]
  BY <1>1 DEF WithChild
<1> HIDE DEF l
<1>4. Parent[c] \in Node /\ p \in Node \X Types
  BY CtxAssumption, TypesAre
<1>5. k.data[p] \in Values
  BY <1>4 DEF Kept
<1>6. v \in Values
  <2>1. IsList(k.data[p]) => k.data[p][2] \subseteq Ctx
    BY <1>5, ListedChildren DEF Listed
  <2> QED BY <1>5, <2>1, ValuesAre
<1>7. Listed(v) = IF IsList(k.data[p]) THEN Listed(k.data[p]) \cup {c} ELSE {}
  BY ListsAre DEF Listed
<1> HIDE DEF v
<1>8. /\ Shape(w) /\ w.entry = l.entry /\ w.parented = l.parented /\ w.linked = l.linked
      /\ w.data \in [Node \X Types -> Values]
      /\ \A o \in Node, s \in Types : w.data[<<o, s>>] = IF <<o, s>> = p THEN v ELSE k.data[<<o, s>>]
  <2> HIDE DEF p
  <2> QED BY <1>1, <1>3, <1>4, <1>6 DEF Kept, Shape, Fields
<1> HIDE DEF w
<1>9. \A o \in Node, s \in Types : w.data[<<o, s>>] # Invalid => o \in w.entry
  BY <1>1, <1>8 DEF Kept
<1>10. \A o \in Node : \A d \in Listed(w.data[<<o, "children">>]) : d \in w.linked /\ Parent[d] = o
  BY <1>1, <1>7, <1>8, TypesAre DEF Kept
<1>11. Kept(w)
  BY <1>1, <1>8, <1>9, <1>10 DEF Kept
<1>12. LET m == Updated(w, c, "context", Present)
       IN /\ Kept(m) /\ m.linked = w.linked
          /\ \A o \in Node, s \in Types :
               m.data[<<o, s>>] = IF <<o, s>> = <<c, "context">> THEN Present ELSE w.data[<<o, s>>]
  BY <1>11, UpdatedKept, TypesAre, ValuesAre DEF Plain
<1>13. Kept(Added(k, c)) /\ Added(k, c).linked = k.linked \cup {c}
  BY <1>1, <1>2, <1>8, <1>12
<1>14. ASSUME NEW o \in Node, NEW s \in Types
       PROVE  Added(k, c).data[<<o, s>>] = IF <<o, s>> = <<c, "context">> THEN Present
                                          ELSE IF <<o, s>> = p THEN v ELSE k.data[<<o, s>>]
  <2> DEFINE m == Updated(w, c, "context", Present)
  <2>1. m.data[<<o, s>>] = IF <<o, s>> = <<c, "context">> THEN Present ELSE w.data[<<o, s>>]
    BY <1>12
  <2> HIDE DEF m, p
  <2>2. w.data[<<o, s>>] = IF <<o, s>> = p THEN v ELSE k.data[<<o, s>>]
    BY <1>8
  <2> QED BY <1>2, <2>1, <2>2 DEF m
<1>15. ASSUME NEW n \in Node, n # Parent[c] \/ ~IsList(k.data[<<n, "children">>])
       PROVE  Added(k, c).data[<<n, "children">>] = k.data[<<n, "children">>]
  <2>1. Added(k, c).data[<<n, "children">>] = IF n = Parent[c] THEN v ELSE k.data[<<n, "children">>]
    BY <1>14, TypesAre
  <2> QED BY <1>15, <2>1 DEF v
<1>16. ASSUME IsList(k.data[<<Parent[c], "children">>])
       PROVE  Added(k, c).data[<<Parent[c], "children">>] = List(k.data[<<Parent[c], "children">>][2] \cup {c})
  <2>1. Added(k, c).data[p] = v
    BY <1>4, <1>14, TypesAre
  <2> QED BY <1>16, <2>1 DEF v
<1>17. ASSUME NEW n \in Node, NEW t \in Plain
       PROVE  Added(k, c).data[<<n, t>>] = IF n = c /\ t = "context" THEN Present ELSE k.data[<<n, t>>]
  BY <1>14, TypesAre
<1> QED BY <1>13, <1>15, <1>16, <1>17

-----------------------------------------------------------------------------
(* What is on its way *)

\* A message of Y is on its way; one comes after every message of X.
Some(q, Y) == \E j \in DOMAIN q : q[j] \in Y
Due(q, X, Y) == \A i \in DOMAIN q : q[i] \in X => \E j \in DOMAIN q : i < j /\ q[j] \in Y

\* A message of Y comes before every message of Z, and between a message of X and a
\* later one of Z.
Cleared(q, Y, Z) == \A i \in DOMAIN q : q[i] \in Z => \E j \in DOMAIN q : j < i /\ q[j] \in Y
Between(q, X, Y, Z) ==
  \A h, i \in DOMAIN q : q[h] \in X /\ q[i] \in Z /\ h < i =>
    \E j \in DOMAIN q : h < j /\ j < i /\ q[j] \in Y

LEMMA Sending ==
  ASSUME NEW q \in Seq(Messages), NEW m \in Messages
  PROVE  LET r == Append(q, m)
         IN /\ r \in Seq(Messages) /\ DOMAIN r = DOMAIN q \cup {Len(q) + 1}
            /\ \A i \in DOMAIN q : r[i] = q[i] /\ i < Len(q) + 1
            /\ r[Len(q) + 1] = m
OBVIOUS

LEMMA SendingSome ==
  ASSUME NEW q \in Seq(Messages), NEW m \in Messages, NEW Y
  PROVE  Some(q, Y) \/ m \in Y => Some(Append(q, m), Y)
BY Sending DEF Some

LEMMA SendingDue ==
  ASSUME NEW q \in Seq(Messages), NEW m \in Messages, NEW X, NEW W, NEW Y,
         m \notin W, m \in Y \/ (Due(q, X, Y) /\ W \cap Messages \subseteq X)
  PROVE  Due(Append(q, m), W, Y)
<1> DEFINE r == Append(q, m)
<1>1. /\ DOMAIN r = DOMAIN q \cup {Len(q) + 1}
      /\ \A i \in DOMAIN q : r[i] = q[i] /\ i < Len(q) + 1 /\ q[i] \in Messages
      /\ r[Len(q) + 1] = m
  BY Sending
<1> HIDE DEF r
<1>2. ASSUME NEW i \in DOMAIN r, r[i] \in W
      PROVE  \E j \in DOMAIN r : i < j /\ r[j] \in Y
  <2>1. i \in DOMAIN q /\ r[i] = q[i]
    BY <1>1, <1>2
  <2>2. CASE m \in Y
    BY <1>1, <2>1, <2>2
  <2>3. CASE Due(q, X, Y) /\ W \cap Messages \subseteq X
    BY <1>1, <1>2, <2>1, <2>3 DEF Due
  <2> QED BY <2>2, <2>3
<1> QED BY <1>2 DEF Due, r

LEMMA SendingCleared ==
  ASSUME NEW q \in Seq(Messages), NEW m \in Messages, NEW Y, NEW Z,
         Cleared(q, Y, Z), m \in Z => Some(q, Y)
  PROVE  Cleared(Append(q, m), Y, Z)
BY Sending DEF Cleared, Some

LEMMA SendingBetween ==
  ASSUME NEW q \in Seq(Messages), NEW m \in Messages, NEW X, NEW Y, NEW Z,
         Between(q, X, Y, Z), m \in Z => Due(q, X, Y)
  PROVE  Between(Append(q, m), X, Y, Z)
<1> DEFINE r == Append(q, m)
<1>1. /\ DOMAIN r = DOMAIN q \cup {Len(q) + 1} /\ Len(q) \in Nat
      /\ \A i \in DOMAIN q : r[i] = q[i] /\ i < Len(q) + 1 /\ i \in Nat
      /\ r[Len(q) + 1] = m
  BY Sending
<1> HIDE DEF r
<1>2. ASSUME NEW h \in DOMAIN r, NEW i \in DOMAIN r, r[h] \in X, r[i] \in Z, h < i
      PROVE  \E j \in DOMAIN r : h < j /\ j < i /\ r[j] \in Y
  <2>1. h \in DOMAIN q /\ r[h] = q[h]
    BY <1>1, <1>2
  <2>2. CASE i \in DOMAIN q
    BY <1>1, <1>2, <2>1, <2>2 DEF Between
  <2>3. CASE i = Len(q) + 1
    BY <1>1, <1>2, <2>1, <2>3 DEF Due
  <2> QED BY <1>1, <2>2, <2>3
<1> QED BY <1>2 DEF Between, r

LEMMA Taking ==
  ASSUME NEW q \in Seq(Messages), q # <<>>
  PROVE  LET r == Tail(q)
         IN /\ r \in Seq(Messages) /\ 1 \in DOMAIN q /\ q[1] = Head(q) /\ Head(q) \in Messages
            /\ \A i \in DOMAIN r : i + 1 \in DOMAIN q /\ r[i] = q[i + 1] /\ i \in Nat /\ i > 0
            /\ \A i \in DOMAIN q : i # 1 => i - 1 \in DOMAIN r /\ r[i - 1] = q[i]
            /\ \A i \in DOMAIN q : i \in Nat /\ 1 <= i
<1>1. \A i \in DOMAIN Tail(q) : i + 1 \in DOMAIN q /\ Tail(q)[i] = q[i + 1] /\ i \in Nat /\ i > 0
  OBVIOUS
<1>2. \A i \in DOMAIN q : i # 1 => i - 1 \in DOMAIN Tail(q) /\ Tail(q)[i - 1] = q[i]
  OBVIOUS
<1> QED BY <1>1, <1>2

LEMMA TakingSome ==
  ASSUME NEW q \in Seq(Messages), q # <<>>, NEW X, NEW Y
  PROVE  /\ Some(q, Y) /\ Head(q) \notin Y => Some(Tail(q), Y)
         /\ Due(q, X, Y) /\ Head(q) \in X => Some(Tail(q), Y)
<1>1. ASSUME Some(q, Y), Head(q) \notin Y PROVE Some(Tail(q), Y)
  BY <1>1, Taking DEF Some
<1>2. ASSUME Due(q, X, Y), Head(q) \in X PROVE Some(Tail(q), Y)
  <2>1. PICK j \in DOMAIN q : 1 < j /\ q[j] \in Y
    BY <1>2, Taking DEF Due
  <2>2. j - 1 \in DOMAIN Tail(q) /\ Tail(q)[j - 1] \in Y
    BY <2>1, Taking
  <2> QED BY <2>2 DEF Some
<1> QED BY <1>1, <1>2

LEMMA TakingDue ==
  ASSUME NEW q \in Seq(Messages), q # <<>>, NEW X, NEW Y, Due(q, X, Y)
  PROVE  Due(Tail(q), X, Y)
<1> SUFFICES ASSUME NEW i \in DOMAIN Tail(q), Tail(q)[i] \in X
             PROVE  \E j \in DOMAIN Tail(q) : i < j /\ Tail(q)[j] \in Y
  BY DEF Due
<1>1. PICK j \in DOMAIN q : i + 1 < j /\ q[j] \in Y
  BY Taking DEF Due
<1>2. j - 1 \in DOMAIN Tail(q) /\ i < j - 1 /\ Tail(q)[j - 1] \in Y
  BY <1>1, Taking
<1> QED BY <1>2

LEMMA TakingCleared ==
  ASSUME NEW q \in Seq(Messages), q # <<>>, NEW X, NEW Y, NEW Z
  PROVE  /\ Cleared(q, Y, Z) => Head(q) \notin Z
         /\ Cleared(q, Y, Z) /\ Head(q) \notin Y => Cleared(Tail(q), Y, Z)
         /\ Between(q, X, Y, Z) /\ Head(q) \in X => Cleared(Tail(q), Y, Z)
<1>1. ASSUME Cleared(q, Y, Z) PROVE Head(q) \notin Z
  BY <1>1, Taking DEF Cleared
<1>2. ASSUME Cleared(q, Y, Z), Head(q) \notin Y, NEW i \in DOMAIN Tail(q), Tail(q)[i] \in Z
      PROVE  \E j \in DOMAIN Tail(q) : j < i /\ Tail(q)[j] \in Y
  <2>1. PICK j \in DOMAIN q : j < i + 1 /\ q[j] \in Y
    BY <1>2, Taking DEF Cleared
  <2>2. j - 1 \in DOMAIN Tail(q) /\ j - 1 < i /\ Tail(q)[j - 1] \in Y
    BY <1>2, <2>1, Taking
  <2> QED BY <2>2
<1>3. ASSUME Between(q, X, Y, Z), Head(q) \in X, NEW i \in DOMAIN Tail(q), Tail(q)[i] \in Z
      PROVE  \E j \in DOMAIN Tail(q) : j < i /\ Tail(q)[j] \in Y
  <2>1. PICK j \in DOMAIN q : 1 < j /\ j < i + 1 /\ q[j] \in Y
    BY <1>3, Taking DEF Between
  <2>2. j - 1 \in DOMAIN Tail(q) /\ j - 1 < i /\ Tail(q)[j - 1] \in Y
    BY <2>1, Taking
  <2> QED BY <2>2
<1> QED BY <1>1, <1>2, <1>3 DEF Cleared

LEMMA TakingBetween ==
  ASSUME NEW q \in Seq(Messages), q # <<>>, NEW X, NEW Y, NEW Z, Between(q, X, Y, Z)
  PROVE  Between(Tail(q), X, Y, Z)
<1> SUFFICES ASSUME NEW h \in DOMAIN Tail(q), NEW i \in DOMAIN Tail(q),
                    Tail(q)[h] \in X, Tail(q)[i] \in Z, h < i
             PROVE  \E j \in DOMAIN Tail(q) : h < j /\ j < i /\ Tail(q)[j] \in Y
  BY DEF Between
<1>1. PICK j \in DOMAIN q : h + 1 < j /\ j < i + 1 /\ q[j] \in Y
  BY Taking DEF Between
<1>2. j - 1 \in DOMAIN Tail(q) /\ h < j - 1 /\ j - 1 < i /\ Tail(q)[j - 1] \in Y
  BY <1>1, Taking
<1> QED BY <1>2

-----------------------------------------------------------------------------
(* What a message does to the cache *)

Adds(m, c) == IsAdded(m) /\ m.ids[1] = c
Removes(m, c) == m.kind = "removed" /\ c \in ToSet(m.ids)

\* m makes c a child of its parent's entry; it is a list of the children without c.
Links(m, c) == Adds(m, c) \/ (Answers(m, Parent[c], "children") /\ c \in Listed(m.val))
Omits(m, c) == Answers(m, Parent[c], "children") /\ c \notin Listed(m.val)

\* m gives the value v for the type t of n; it says that the value may have changed.
Gives(m, n, t, v) ==
  \/ Answers(m, n, t) /\ m.val = v
  \/ /\ t = "state" /\ m.kind \in {"suspended", "resumed", "containerSuspended"}
     /\ m.ids[1] = n /\ (m.kind = "containerSuspended" => Len(m.ids) = 1)
     /\ v = State(m.kind = "resumed")
  \/ t = "context" /\ Adds(m, n) /\ v = Present
Replaces(m, n, t) ==
  /\ t = "state"
  /\ \/ m.kind \in {"suspended", "resumed", "stateChanged"} /\ m.ids[1] = n
     \/ m.kind = "exception"
     \/ m.kind = "containerSuspended" /\ n \in ToSet(m.ids)

\* The cached list v does not have c.
Lacks(v, c) == IsList(v) /\ c \notin v[2]

\* The links, the lists and the plain values after the message m, with the cache l, come from
\* the cache k before it and from m.
Linking(m, k, l) ==
  \A c \in l.linked : (c \in k.linked /\ ~Removes(m, c)) \/ Links(m, c)
Listing(m, k, l) ==
  /\ \A n \in Node : \/ l.data[<<n, "children">>] = Invalid
                     \/ IsList(l.data[<<n, "children">>])
                     \/ l.data[<<n, "children">>] = k.data[<<n, "children">>]
                     \/ Answers(m, n, "children") /\ ~IsList(m.val)
  /\ \A c \in Ctx : Lacks(l.data[<<Parent[c], "children">>], c) =>
       \/ Lacks(k.data[<<Parent[c], "children">>], c) /\ ~Adds(m, c)
       \/ Omits(m, c)
Valuing(m, k, l) ==
  \A n \in Node, t \in Plain :
    \/ l.data[<<n, t>>] = Invalid
    \/ l.data[<<n, t>>] = k.data[<<n, t>>] /\ ~Replaces(m, n, t)
    \/ Gives(m, n, t, l.data[<<n, t>>])
Effects(m, k, l) == Kept(l) /\ Linking(m, k, l) /\ Listing(m, k, l) /\ Valuing(m, k, l)

LEMMA ParentsAre == \A c \in Ctx : Parent[c] \in Node
BY CtxAssumption

LEMMA ReplyEffects ==
  ASSUME Kept(ctxs), NEW m \in ReplyMessages, HandleReply(m),
         m.type = "children" => \A c \in Listed(m.val) : Parent[c] = m.node,
         \A c \in ctxs.linked : ~Omits(m, c)
  PROVE  Effects(m, ctxs, ctxs')
<1> DEFINE k == ctxs
           l == ctxs'
           n == m.node
           v == m.val
<1>1. n \in Node /\ v \in Values /\ m.kind = "reply" /\ m.type \in Types
  BY DEF ReplyMessages
<1>2. ~IsAdded(m) /\ IsReply(m) /\ \A c : ~Removes(m, c) /\ ~Adds(m, c)
  BY <1>1 DEF IsAdded, IsReply, Removes, Adds
<1>3. \A o, t : ~Replaces(m, o, t)
  BY <1>1 DEF Replaces
<1>4. CASE m.type = "children"
  <2>1. l = UpdatedChildren(k, n, v)
    BY <1>4 DEF HandleReply
  <2>2. \A c \in k.linked : Parent[c] = n => c \in Listed(v)
    BY <1>2, <1>4 DEF Omits, Answers
  <2>3. /\ Kept(l) /\ l.linked = k.linked \cup Listed(v)
        /\ \A o \in Node, s \in Types :
             l.data[<<o, s>>] = IF <<o, s>> = <<n, "children">> THEN v ELSE k.data[<<o, s>>]
    <3> HIDE DEF k, l
    <3> QED BY <1>1, <1>4, <2>1, <2>2, UpdatedChildrenKept DEF k
  <2> HIDE DEF k, l
  <2>4. \A c \in Listed(v) : Parent[c] = n
    BY <1>4
  <2>5. Linking(m, k, l)
    BY <1>2, <1>4, <2>3, <2>4 DEF Linking, Links, Answers
  <2>6. Listing(m, k, l)
    <3>1. \A o \in Node : \/ l.data[<<o, "children">>] = k.data[<<o, "children">>]
                          \/ o = n /\ l.data[<<o, "children">>] = v
      BY <2>3, TypesAre
    <3>2. \A c : Lacks(v, c) => c \notin Listed(v)
      BY DEF Lacks, Listed
    <3> QED BY <1>2, <1>4, <3>1, <3>2, ParentsAre DEF Listing, Omits, Answers
  <2>7. Valuing(m, k, l)
    BY <1>3, <2>3, TypesAre DEF Valuing
  <2> QED BY <2>3, <2>5, <2>6, <2>7 DEF Effects, k, l
<1>5. CASE m.type # "children"
  <2>1. l = Updated(k, n, m.type, v)
    BY <1>5 DEF HandleReply
  <2>3. /\ Kept(l) /\ l.linked = k.linked
        /\ \A o \in Node, s \in Types :
             l.data[<<o, s>>] = IF <<o, s>> = <<n, m.type>> THEN v ELSE k.data[<<o, s>>]
    <3> HIDE DEF k, l
    <3> QED BY <1>1, <1>5, <2>1, UpdatedKept DEF k
  <2> HIDE DEF k, l
  <2>5. Linking(m, k, l)
    BY <1>2, <2>3 DEF Linking
  <2>6. Listing(m, k, l)
    <3>1. \A o \in Node : l.data[<<o, "children">>] = k.data[<<o, "children">>]
      BY <1>5, <2>3, TypesAre
    <3> QED BY <1>2, <3>1, ParentsAre DEF Listing
  <2>7. Valuing(m, k, l)
    BY <1>2, <1>3, <2>3, TypesAre DEF Valuing, Gives, Answers
  <2> QED BY <2>3, <2>5, <2>6, <2>7 DEF Effects, k, l
<1> QED BY <1>4, <1>5

\* A sweep of the state, with the children or without.
LEMMA SweptEffects ==
  ASSUME NEW k, NEW m, NEW T \in SUBSET Types, Kept(k), ~IsReply(m), ~IsAdded(m),
         "state" \in T, "children" \in T \/ m.kind # "removed"
  PROVE  Effects(m, k, Swept(k, T))
<1> DEFINE l == Swept(k, T)
<1>1. /\ Kept(l)
      /\ l.linked = IF "children" \in T THEN {} ELSE k.linked
      /\ \A n \in Node, t \in Types :
           l.data[<<n, t>>] = IF t \in T THEN Invalid ELSE k.data[<<n, t>>]
  BY SweptKept
<1> HIDE DEF l
<1>2. Linking(m, k, l)
  BY <1>1 DEF Linking, Removes
<1>3. Listing(m, k, l)
  <2>1. \A n \in Node : l.data[<<n, "children">>] \in {Invalid, k.data[<<n, "children">>]}
    BY <1>1, TypesAre
  <2> QED BY <2>1, ParentsAre, ListsAre DEF Listing, Lacks, Adds
<1>4. Valuing(m, k, l)
  BY <1>1, TypesAre DEF Valuing, Replaces
<1> QED BY <1>1, <1>2, <1>3, <1>4 DEF Effects, l

\* A message that changes the state of one context.
LEMMA StateEffects ==
  ASSUME NEW k, NEW l, NEW m, NEW n \in Node, Kept(k), Kept(l), ~IsReply(m), ~IsAdded(m),
         m.kind # "removed", l.linked = k.linked,
         \A o \in Node, s \in Types : <<o, s>> # <<n, "state">> => l.data[<<o, s>>] = k.data[<<o, s>>],
         \A o \in Node : Replaces(m, o, "state") => o = n,
         l.data[<<n, "state">>] = Invalid \/ Gives(m, n, "state", l.data[<<n, "state">>])
  PROVE  Effects(m, k, l)
<1>2. Linking(m, k, l)
  BY DEF Linking, Removes
<1>3. Listing(m, k, l)
  <2>1. \A o \in Node : l.data[<<o, "children">>] = k.data[<<o, "children">>]
    BY TypesAre
  <2> QED BY <2>1, ParentsAre DEF Listing, Adds
<1>4. Valuing(m, k, l)
  <2>1. ASSUME NEW o \in Node, NEW t \in Plain
        PROVE  \/ l.data[<<o, t>>] = Invalid
               \/ l.data[<<o, t>>] = k.data[<<o, t>>] /\ ~Replaces(m, o, t)
               \/ Gives(m, o, t, l.data[<<o, t>>])
    <3>1. CASE o = n /\ t = "state"
      BY <3>1
    <3>2. CASE ~(o = n /\ t = "state")
      <4>1. l.data[<<o, t>>] = k.data[<<o, t>>]
        BY <3>2, TypesAre
      <4>2. ~Replaces(m, o, t)
        BY <3>2 DEF Replaces
      <4> QED BY <4>1, <4>2
    <3> QED BY <3>1, <3>2
  <2> QED BY <2>1 DEF Valuing
<1> QED BY <1>2, <1>3, <1>4 DEF Effects

LEMMA AddedEffects ==
  ASSUME NEW k, NEW m, NEW c \in Ctx, Kept(k), ~IsReply(m), IsAdded(m), m.ids[1] = c, c \notin k.entry
  PROVE  Effects(m, k, Added(k, c))
<1> DEFINE l == Added(k, c)
<1>1. /\ Kept(l) /\ l.linked = k.linked \cup {c}
      /\ \A n \in Node : n # Parent[c] \/ ~IsList(k.data[<<n, "children">>]) =>
           l.data[<<n, "children">>] = k.data[<<n, "children">>]
      /\ IsList(k.data[<<Parent[c], "children">>]) =>
           l.data[<<Parent[c], "children">>] = List(k.data[<<Parent[c], "children">>][2] \cup {c})
      /\ \A n \in Node, t \in Plain :
           l.data[<<n, t>>] = IF n = c /\ t = "context" THEN Present ELSE k.data[<<n, t>>]
  BY AddedKept
<1> HIDE DEF l
<1>2. Linking(m, k, l)
  BY <1>1 DEF Linking, Removes, Links, Adds, IsAdded
<1>3. Listing(m, k, l)
  <2>2. \A o \in Node : IsList(l.data[<<o, "children">>]) \/ l.data[<<o, "children">>] = k.data[<<o, "children">>]
    <3> TAKE o \in Node
    <3>1. CASE o = Parent[c] /\ IsList(k.data[<<o, "children">>])
      <4>1. \A S : IsList(List(S))
        BY ListsAre
      <4>2. l.data[<<o, "children">>] = List(k.data[<<o, "children">>][2] \cup {c})
        BY <1>1, <3>1
      <4> QED BY <4>1, <4>2, Zenon
    <3>2. CASE o # Parent[c] \/ ~IsList(k.data[<<o, "children">>])
      BY <1>1, <3>2
    <3> QED BY <3>1, <3>2
  <2>3. ASSUME NEW d \in Ctx, Lacks(l.data[<<Parent[d], "children">>], d)
        PROVE  Lacks(k.data[<<Parent[d], "children">>], d) /\ ~Adds(m, d)
    <3>1. CASE Parent[d] = Parent[c] /\ IsList(k.data[<<Parent[d], "children">>])
      <4>1. l.data[<<Parent[d], "children">>] = List(k.data[<<Parent[d], "children">>][2] \cup {c})
        BY <1>1, <3>1, ParentsAre
      <4> QED BY <2>3, <3>1, <4>1, ListsAre DEF Lacks, Adds
    <3>2. CASE ~(Parent[d] = Parent[c] /\ IsList(k.data[<<Parent[d], "children">>]))
      <4>1. l.data[<<Parent[d], "children">>] = k.data[<<Parent[d], "children">>]
        BY <1>1, <3>2, ParentsAre
      <4> QED BY <2>3, <3>2, <4>1 DEF Lacks, Adds
    <3> QED BY <3>1, <3>2
  <2> QED BY <2>2, <2>3 DEF Listing
<1>4. Valuing(m, k, l)
  <2>1. ASSUME NEW o \in Node, NEW t \in Plain
        PROVE  \/ l.data[<<o, t>>] = k.data[<<o, t>>] /\ ~Replaces(m, o, t)
               \/ Gives(m, o, t, l.data[<<o, t>>])
    <3>1. ~Replaces(m, o, t)
      BY DEF Replaces, IsAdded
    <3>2. l.data[<<o, t>>] = IF o = c /\ t = "context" THEN Present ELSE k.data[<<o, t>>]
      BY <1>1
    <3> QED BY <3>1, <3>2 DEF Gives, Adds
  <2> QED BY <2>1 DEF Valuing
<1> QED BY <1>1, <1>2, <1>3, <1>4 DEF Effects, l

LEMMA EventEffects ==
  ASSUME Kept(ctxs), NEW m \in EventMessages, HandleEvent(m), m.kind # "containerResumed",
         IsAdded(m) => m.ids[1] \notin ctxs.entry
  PROVE  Effects(m, ctxs, ctxs')
<1> DEFINE k == ctxs
           l == ctxs'
           c == m.ids[1]
<1>1. /\ m.kind \in AllKinds /\ c \in Ctx /\ c \in Node /\ Head(m.ids) = c
      /\ m.ids \in Seq(Ctx) /\ m.ids # <<>> /\ 1 \in DOMAIN m.ids
  BY TypesAre DEF EventMessages
<1>2. ~IsReply(m)
  BY <1>1 DEF IsReply, AllKinds
<1>3. State(TRUE) \in Values /\ State(FALSE) \in Values /\ "state" \in Types /\ "state" # "children"
  BY TypesAre, ValuesAre DEF Plain
<1>4. ASSUME NEW b \in {TRUE, FALSE}, l = Updated(k, c, "state", State(b)), ~IsAdded(m), m.kind # "removed",
             Gives(m, c, "state", State(b)), \A o \in Node : Replaces(m, o, "state") => o = c
      PROVE  Effects(m, k, l)
  <2>1. State(b) \in Values
    BY <1>3, <1>4
  <2> DEFINE v == State(b)
  <2> HIDE DEF v, k, l
  <2>2. /\ Kept(l) /\ l.linked = k.linked
        /\ \A o \in Node, s \in Types :
             l.data[<<o, s>>] = IF <<o, s>> = <<c, "state">> THEN v ELSE k.data[<<o, s>>]
    BY <1>1, <1>3, <1>4, <2>1, UpdatedKept DEF v, k
  <2>3. l.data[<<c, "state">>] = v
    BY <1>1, <1>3, <2>2
  <2>4. Gives(m, c, "state", l.data[<<c, "state">>])
    BY <1>4, <2>3 DEF v
  <2> QED BY <1>1, <1>2, <1>4, <2>2, <2>4, StateEffects DEF k
<1>5. CASE m.kind = "added"
  <2>1. l = Added(k, c)
    BY <1>5 DEF HandleEvent
  <2> QED BY <1>1, <1>2, <1>5, <2>1, AddedEffects DEF IsAdded
<1>6. CASE m.kind = "removed"
  <2>1. l = Removed(k, ToSet(m.ids))
    BY <1>6 DEF HandleEvent
  <2>2. CASE ToSet(m.ids) \cap k.parented # {}
    <3>1. l = Swept(k, RemoveTypes)
      BY <2>1, <2>2 DEF Removed
    <3>2. RemoveTypes \in SUBSET Types /\ "state" \in RemoveTypes /\ "children" \in RemoveTypes
      BY DEF RemoveTypes, Types, RunControlTypes
    <3> QED BY <1>2, <1>6, <3>1, <3>2, SweptEffects DEF IsAdded, RunControlTypes, RemoveTypes
  <2>3. CASE ToSet(m.ids) \cap k.parented = {}
    <3>1. l = k
      BY <2>1, <2>3 DEF Removed
    <3> HIDE DEF l
    <3>2. \A d \in k.linked : ~Removes(m, d)
      BY <2>3 DEF Removes, Kept
    <3>3. \A o, t : ~Replaces(m, o, t)
      BY <1>6 DEF Replaces
    <3>4. \A d : ~Adds(m, d)
      BY <1>6 DEF Adds, IsAdded
    <3>5. Linking(m, k, l) /\ Listing(m, k, l) /\ Valuing(m, k, l)
      BY <3>1, <3>2, <3>3, <3>4 DEF Linking, Listing, Valuing
    <3> QED BY <3>1, <3>5 DEF Effects, l
  <2> QED BY <2>2, <2>3
<1>7. CASE m.kind \in {"suspended", "resumed"}
  <2>1. ~IsAdded(m) /\ m.kind # "removed" /\ \A o \in Node : Replaces(m, o, "state") => o = c
    BY <1>7 DEF IsAdded, Replaces
  <2>2. CASE m.kind = "suspended"
    <3>1. l = Updated(k, c, "state", State(FALSE))
      BY <2>2 DEF HandleEvent
    <3>2. (m.kind = "resumed") = FALSE
      BY <2>2
    <3>3. Gives(m, c, "state", State(FALSE))
      BY <2>2, <3>2 DEF Gives
    <3> QED BY <1>4, <2>1, <3>1, <3>3
  <2>3. CASE m.kind = "resumed"
    <3>1. l = Updated(k, c, "state", State(TRUE))
      BY <2>3 DEF HandleEvent
    <3>2. (m.kind = "resumed") = TRUE
      BY <2>3
    <3>3. Gives(m, c, "state", State(TRUE))
      BY <2>3, <3>2 DEF Gives
    <3> QED BY <1>4, <2>1, <3>1, <3>3
  <2> QED BY <1>7, <2>2, <2>3
<1>8. CASE m.kind = "exception"
  <2>1. l = Swept(k, {"state"})
    BY <1>8 DEF HandleEvent
  <2> QED BY <1>2, <1>3, <1>8, <2>1, SweptEffects DEF IsAdded
<1>9. CASE m.kind = "stateChanged"
  <2>1. l = Invalidated(k, c, "state")
    BY <1>9 DEF HandleEvent
  <2> HIDE DEF k, l
  <2>2. /\ Kept(l) /\ l.linked = k.linked
        /\ \A o \in Node, s \in Types :
             l.data[<<o, s>>] = IF <<o, s>> = <<c, "state">> THEN Invalid ELSE k.data[<<o, s>>]
    BY <1>1, <2>1, InvalidatedKept DEF k, Plain
  <2>3. l.data[<<c, "state">>] = Invalid
    BY <1>1, <1>3, <2>2
  <2>4. ~IsAdded(m) /\ m.kind # "removed" /\ \A o \in Node : Replaces(m, o, "state") => o = c
    BY <1>9 DEF IsAdded, Replaces
  <2> QED BY <1>1, <1>2, <2>2, <2>3, <2>4, StateEffects DEF k, l
<1>10. CASE m.kind = "containerSuspended"
  <2> DEFINE w == Updated(k, c, "state", State(FALSE))
  <2>1. l = ContainerSuspended(k, m.ids)
    BY <1>10 DEF HandleEvent
  <2>2. l = IF Len(m.ids) = 1 THEN w ELSE Swept(w, {"state"})
    BY <1>1, <2>1 DEF ContainerSuspended
  <2>3. ~IsAdded(m) /\ m.kind # "removed"
    BY <1>10 DEF IsAdded
  <2>4. CASE Len(m.ids) = 1
    <3>1. \A o \in Node : Replaces(m, o, "state") => o = c
      <4>1. \A o \in ToSet(m.ids) : o = c
        BY <1>1, <2>4 DEF ToSet
      <4> QED BY <1>10, <4>1 DEF Replaces
    <3>2. (m.kind = "resumed") = FALSE
      BY <1>10
    <3>3. Gives(m, c, "state", State(FALSE))
      BY <1>10, <2>4, <3>2 DEF Gives
    <3> QED BY <1>4, <2>2, <2>3, <2>4, <3>1, <3>3
  <2>5. CASE Len(m.ids) # 1
    <3>1. l = Swept(w, {"state"})
      BY <2>2, <2>5
    <3> HIDE DEF w, l
    <3>2. /\ Kept(w) /\ w.linked = k.linked
          /\ \A o \in Node, s \in Types : s # "state" => w.data[<<o, s>>] = k.data[<<o, s>>]
      <4> DEFINE v == State(FALSE)
      <4>1. Kept(k) /\ c \in Node /\ v \in Values /\ w = Updated(k, c, "state", v)
        BY <1>1, <1>3 DEF k, w
      <4> HIDE DEF v
      <4>2. /\ Kept(w) /\ w.linked = k.linked
            /\ \A o \in Node, s \in Types :
                 w.data[<<o, s>>] = IF <<o, s>> = <<c, "state">> THEN v ELSE k.data[<<o, s>>]
        BY <1>3, <4>1, UpdatedKept
      <4> QED BY <4>2
    <3>3. /\ Kept(l) /\ l.linked = w.linked
          /\ \A o \in Node, s \in Types :
               l.data[<<o, s>>] = IF s \in {"state"} THEN Invalid ELSE w.data[<<o, s>>]
      BY <1>3, <3>1, <3>2, SweptKept
    <3>4. \A o \in Node, s \in Types : l.data[<<o, s>>] = IF s = "state" THEN Invalid ELSE k.data[<<o, s>>]
      BY <3>2, <3>3
    <3>5. Linking(m, k, l)
      BY <2>3, <3>2, <3>3 DEF Linking, Removes
    <3>6. Listing(m, k, l)
      <4>1. \A o \in Node : l.data[<<o, "children">>] = k.data[<<o, "children">>]
        BY <3>4, TypesAre
      <4> QED BY <2>3, <4>1, ParentsAre DEF Listing, Adds
    <3>7. Valuing(m, k, l)
      BY <3>4, TypesAre DEF Valuing, Replaces
    <3> QED BY <3>3, <3>5, <3>6, <3>7 DEF Effects, l
  <2> QED BY <2>4, <2>5
<1> QED BY <1>1, <1>5, <1>6, <1>7, <1>8, <1>9, <1>10 DEF AllKinds

-----------------------------------------------------------------------------
(* Coherence *)

\* What the agent answers for a plain type of the root or of a context that it has.
Right(n, t, R) == IF n = Root THEN Error ELSE IF t = "state" THEN State(n \in R) ELSE Present

AddsOf(c) == {m \in Messages : Adds(m, c)}
RemovesOf(c) == {m \in Messages : Removes(m, c)}
LinksOf(c) == {m \in Messages : Links(m, c)}
OmitsOf(c) == {m \in Messages : Omits(m, c)}
ReplacesOf(n, t) == {m \in Messages : Replaces(m, n, t)}
WrongOf(n, t, R) == {m \in Messages : \E v \in Values : Gives(m, n, t, v) /\ v # Right(n, t, R)}

\* The contexts A, the running ones R, the cache k and the channel q.  A context that is
\* gone and still in the cache, or about to come into it, has its removal on the way.
Gone(c, A, k, q) ==
  c \notin A => /\ c \in k.linked => Some(q, RemovesOf(c))
                /\ Due(q, LinksOf(c), RemovesOf(c))

\* A list that leaves out a context in the cache comes after the context's removal.
Omitted(c, k, q) ==
  /\ c \in k.linked => Cleared(q, RemovesOf(c), OmitsOf(c))
  /\ Between(q, LinksOf(c), RemovesOf(c), OmitsOf(c))

\* A context that a cached list lacks, or a list on the way, is yet to be added.
Awaited(c, A, k, q) ==
  c \in A => /\ Lacks(k.data[<<Parent[c], "children">>], c) => Some(q, AddsOf(c))
             /\ Due(q, OmitsOf(c), AddsOf(c))

\* A plain value that is wrong, in the cache or on the way, is yet to be replaced.
Valued(n, t, R, k, q) ==
  /\ k.data[<<n, t>>] \notin {Invalid, Right(n, t, R)} => Some(q, ReplacesOf(n, t))
  /\ Due(q, WrongOf(n, t, R), ReplacesOf(n, t))

Lists(A, k) ==
  \A n \in A \cup {Root} : k.data[<<n, "children">>] = Invalid \/ IsList(k.data[<<n, "children">>])

\* A list has children of the node alone, and only what is gone answers with an error.
Replied(A, m) ==
  IsReply(m) /\ m.type = "children" =>
    /\ \A c \in Listed(m.val) : Parent[c] = m.node
    /\ m.node \in A \cup {Root} => IsList(m.val)

Tree ==
  /\ alive \subseteq used /\ announced \subseteq used /\ used \subseteq Ctx
  /\ \A c \in alive : Parent[c] \in alive \cup {Root}
  /\ \A i \in DOMAIN inbox : IsAdded(inbox[i]) => inbox[i].ids[1] \in used \ announced
  /\ \A i, j \in DOMAIN inbox :
       IsAdded(inbox[i]) /\ IsAdded(inbox[j]) /\ inbox[i].ids[1] = inbox[j].ids[1] => i = j

Mirrored ==
  /\ Kept(ctxs) /\ Lists(alive, ctxs)
  /\ \A i \in DOMAIN inbox : Replied(alive, inbox[i]) /\ inbox[i].kind # "containerResumed"
  /\ \A c \in Ctx : Gone(c, alive, ctxs, inbox) /\ Omitted(c, ctxs, inbox) /\ Awaited(c, alive, ctxs, inbox)
  /\ \A n \in alive \cup {Root}, t \in Plain : Valued(n, t, running, ctxs, inbox)

CoherentInv == Channel /\ Told /\ Tree /\ Mirrored

LEMMA SentGone ==
  ASSUME NEW q \in Seq(Messages), NEW m \in Messages, NEW c \in Ctx, NEW A, NEW B, NEW k,
         Gone(c, A, k, q), c \in A \ B => Removes(m, c), Links(m, c) => c \in B
  PROVE  Gone(c, B, k, Append(q, m))
<1> SUFFICES ASSUME c \notin B
             PROVE  /\ c \in k.linked => Some(Append(q, m), RemovesOf(c))
                    /\ Due(Append(q, m), LinksOf(c), RemovesOf(c))
  BY DEF Gone
<1>1. m \notin LinksOf(c)
  BY DEF LinksOf
<1>2. CASE c \in A
  <2>1. m \in RemovesOf(c)
    BY <1>2 DEF RemovesOf
  <2> QED BY <1>1, <2>1, SendingSome, SendingDue
<1>3. CASE c \notin A
  BY <1>1, <1>3, SendingSome, SendingDue DEF Gone
<1> QED BY <1>2, <1>3

LEMMA SentOmitted ==
  ASSUME NEW q \in Seq(Messages), NEW m \in Messages, NEW c \in Ctx, NEW A, NEW k,
         Gone(c, A, k, q), Omitted(c, k, q), Omits(m, c) => c \notin A
  PROVE  Omitted(c, k, Append(q, m))
<1>1. m \in OmitsOf(c) => c \notin A
  BY DEF OmitsOf
<1> QED BY <1>1, SendingCleared, SendingBetween DEF Omitted, Gone

LEMMA SentAwaited ==
  ASSUME NEW q \in Seq(Messages), NEW m \in Messages, NEW c \in Ctx, NEW A, NEW B, NEW k,
         Awaited(c, A, k, q), c \in B \ A => Adds(m, c), Omits(m, c) => c \notin B
  PROVE  Awaited(c, B, k, Append(q, m))
<1> SUFFICES ASSUME c \in B
             PROVE  /\ Lacks(k.data[<<Parent[c], "children">>], c) => Some(Append(q, m), AddsOf(c))
                    /\ Due(Append(q, m), OmitsOf(c), AddsOf(c))
  BY DEF Awaited
<1>1. m \notin OmitsOf(c)
  BY DEF OmitsOf
<1>2. CASE c \notin A
  <2>1. m \in AddsOf(c)
    BY <1>2 DEF AddsOf
  <2> QED BY <1>1, <2>1, SendingSome, SendingDue
<1>3. CASE c \in A
  <2>1. Due(Append(q, m), OmitsOf(c), AddsOf(c))
    BY <1>1, <1>3, SendingDue DEF Awaited
  <2> QED BY <1>3, <2>1, SendingSome DEF Awaited
<1> QED BY <1>2, <1>3

LEMMA SentValued ==
  ASSUME NEW q \in Seq(Messages), NEW m \in Messages, NEW n \in Node, NEW t \in Plain,
         NEW R, NEW S, NEW k,
         Valued(n, t, R, k, q), Replaces(m, n, t) \/ Right(n, t, S) = Right(n, t, R),
         \A v \in Values : Gives(m, n, t, v) => v = Right(n, t, S)
  PROVE  Valued(n, t, S, k, Append(q, m))
<1>1. m \notin WrongOf(n, t, S)
  BY DEF WrongOf
<1>2. CASE Replaces(m, n, t)
  <2>1. m \in ReplacesOf(n, t)
    BY <1>2 DEF ReplacesOf
  <2> QED BY <1>1, <2>1, SendingSome, SendingDue DEF Valued
<1>3. CASE Right(n, t, S) = Right(n, t, R)
  <2>1. WrongOf(n, t, S) \cap Messages \subseteq WrongOf(n, t, R)
    BY <1>3 DEF WrongOf
  <2>2. Due(Append(q, m), WrongOf(n, t, S), ReplacesOf(n, t))
    BY <1>1, <2>1, SendingDue DEF Valued
  <2> QED BY <1>3, <2>2, SendingSome DEF Valued
<1> QED BY <1>2, <1>3

\* Nothing is cached or on its way for a context that has never been there.
LEMMA NewValued ==
  ASSUME NEW q \in Seq(Messages), NEW n \in Node, NEW t \in Plain, NEW R, NEW k,
         k.data[<<n, t>>] = Invalid,
         \A i \in DOMAIN q : \A v \in Values : ~Gives(q[i], n, t, v)
  PROVE  Valued(n, t, R, k, q)
BY DEF Valued, Due, WrongOf

\* The head m of the channel is handled.
LEMMA TakenGone ==
  ASSUME NEW q \in Seq(Messages), q # <<>>, NEW c \in Ctx, NEW A, NEW k, NEW l,
         Gone(c, A, k, q), Linking(Head(q), k, l)
  PROVE  Gone(c, A, l, Tail(q))
<1>1. Head(q) \in Messages
  BY Taking
<1>2. c \in l.linked => (c \in k.linked /\ Head(q) \notin RemovesOf(c)) \/ Head(q) \in LinksOf(c)
  BY <1>1 DEF Linking, RemovesOf, LinksOf
<1> QED BY <1>2, TakingSome, TakingDue DEF Gone

LEMMA TakenOmitted ==
  ASSUME NEW q \in Seq(Messages), q # <<>>, NEW c \in Ctx, NEW k, NEW l,
         Omitted(c, k, q), Linking(Head(q), k, l)
  PROVE  Omitted(c, l, Tail(q))
<1>1. Head(q) \in Messages
  BY Taking
<1>2. c \in l.linked => (c \in k.linked /\ Head(q) \notin RemovesOf(c)) \/ Head(q) \in LinksOf(c)
  BY <1>1 DEF Linking, RemovesOf, LinksOf
<1> QED BY <1>2, TakingCleared, TakingBetween DEF Omitted

LEMMA TakenAwaited ==
  ASSUME NEW q \in Seq(Messages), q # <<>>, NEW c \in Ctx, NEW A, NEW k, NEW l,
         Awaited(c, A, k, q), Listing(Head(q), k, l)
  PROVE  Awaited(c, A, l, Tail(q))
<1>1. Head(q) \in Messages
  BY Taking
<1>2. Lacks(l.data[<<Parent[c], "children">>], c) =>
        \/ Lacks(k.data[<<Parent[c], "children">>], c) /\ Head(q) \notin AddsOf(c)
        \/ Head(q) \in OmitsOf(c)
  BY <1>1 DEF Listing, AddsOf, OmitsOf
<1> QED BY <1>2, TakingSome, TakingDue DEF Awaited

LEMMA TakenValued ==
  ASSUME NEW q \in Seq(Messages), q # <<>>, NEW n \in Node, NEW t \in Plain, NEW R, NEW k, NEW l,
         Valued(n, t, R, k, q), Valuing(Head(q), k, l), l.data[<<n, t>>] \in Values
  PROVE  Valued(n, t, R, l, Tail(q))
<1>1. Head(q) \in Messages
  BY Taking
<1>2. CASE l.data[<<n, t>>] \in {Invalid, Right(n, t, R)}
  BY <1>2, TakingDue DEF Valued
<1>3. CASE l.data[<<n, t>>] \notin {Invalid, Right(n, t, R)}
  <2>1. \/ k.data[<<n, t>>] = l.data[<<n, t>>] /\ Head(q) \notin ReplacesOf(n, t)
        \/ Head(q) \in WrongOf(n, t, R)
    BY <1>1, <1>3 DEF Valuing, ReplacesOf, WrongOf
  <2> QED BY <1>3, <2>1, TakingSome, TakingDue DEF Valued
<1> QED BY <1>2, <1>3

-----------------------------------------------------------------------------
(* The steps *)

LEMMA BelowHas ==
  ASSUME NEW c \in Ctx
  PROVE  /\ c \in Below(c) /\ Below(c) \subseteq Ctx
         /\ \A d \in Ctx : Parent[d] \in Below(c) => d \in Below(c)
BY DEF Below

LEMMA IdsSet ==
  ASSUME NEW S \in SUBSET Ctx, NEW ids \in SetToSeqs(S)
  PROVE  ToSet(ids) = S
<1> DEFINE n == Cardinality(S)
           D == 1 .. n
<1>1. IsFiniteSet(S) /\ n \in Nat
  BY CtxAssumption, FS_Subset, FS_CardinalityType
<1>2. ids \in [D -> S] /\ \A i, j \in D : i # j => ids[i] # ids[j]
  BY DEF SetToSeqs
<1>3. Cardinality(D) = n
  <2>1. 1 \in Int /\ n \in Int /\ n - 1 + 1 = n /\ (1 > n => n = 0)
    BY <1>1
  <2> HIDE DEF n
  <2> QED BY <2>1, FS_Interval
<1> HIDE DEF D
<1>4. ids \in Injection(D, S)
  BY <1>2 DEF Injection, IsInjective
<1>5. ids \in Surjection(D, S)
  BY <1>1, <1>3, <1>4, FS_Injection
<1> QED BY <1>2, <1>5 DEF Surjection, ToSet

LEMMA TruthChildren ==
  ASSUME Channel, NEW n \in Node
  PROVE  Truth(n, "children") =
           IF n \in alive \cup {Root} THEN List({c \in alive : Parent[c] = n}) ELSE Error
<1>1. CASE n \in alive \cup {Root}
  BY <1>1, CtxAssumption DEF Truth
<1>2. CASE n \notin alive \cup {Root}
  BY <1>2 DEF Truth, Node
<1> QED BY <1>1, <1>2

LEMMA TruthPlain ==
  ASSUME NEW n \in alive \cup {Root}, NEW t \in Plain, alive \subseteq Ctx
  PROVE  Truth(n, t) = Right(n, t, running)
<1>1. n \notin Ctx \ alive
  BY CtxAssumption
<1>2. CASE n = Root
  BY <1>1, <1>2 DEF Truth, Right, Plain
<1>3. CASE n # Root /\ t = "state"
  <2> DEFINE v == State(n \in running)
  <2>1. Truth(n, t) = v
    BY <1>1, <1>3, Zenon DEF Truth
  <2>2. Right(n, t, running) = v
    BY <1>3, Zenon DEF Right
  <2> QED BY <2>1, <2>2, Zenon
<1>4. CASE n # Root /\ t = "context"
  BY <1>1, <1>4 DEF Truth, Right
<1> QED BY <1>2, <1>3, <1>4 DEF Plain

\* The events and what they tell: a context comes, a context goes with all below it, or some
\* start and stop.
Adding(m) ==
  /\ IsAdded(m) /\ m.ids[1] \in Ctx \ used /\ Parent[m.ids[1]] \in alive \cup {Root}
  /\ alive' = alive \cup {m.ids[1]} /\ used' = used \cup {m.ids[1]} /\ running' = running
Removing(m) ==
  /\ m.kind = "removed" /\ alive' \subseteq alive /\ used' = used
  /\ \A c \in alive \ alive' : Removes(m, c)
  /\ \A c \in alive' : Parent[c] \in alive => Parent[c] \in alive'
  /\ running' = running \cap alive'
Changing(m) ==
  /\ ~IsAdded(m) /\ m.kind # "removed" /\ UNCHANGED <<alive, used>>
  /\ \A n \in Ctx : Replaces(m, n, "state") \/ (n \in running' <=> n \in running)
  /\ m.kind \in {"suspended", "containerSuspended"} => m.ids[1] \notin running'
  /\ m.kind = "resumed" => m.ids[1] \in running'

LEMMA EventSent ==
  ASSUME Channel, Tree, ~Readd, "containerResumed" \notin Kinds, AgentEvent
  PROVE  /\ \E m \in EventMessages :
              /\ inbox' = Append(inbox, m) /\ m.kind # "containerResumed"
              /\ m.ids[1] \in alive \/ Adding(m)
              /\ Adding(m) \/ Removing(m) \/ Changing(m)
         /\ UNCHANGED <<cmds, ctxs, announced>>
<1> DEFINE Sent(m) == /\ inbox' = Append(inbox, m) /\ m.kind # "containerResumed"
                      /\ m.ids[1] \in alive \/ Adding(m)
                      /\ Adding(m) \/ Removing(m) \/ Changing(m)
           M(k, s) == [kind |-> k, ids |-> s]
<1>1. alive \subseteq Ctx /\ running \subseteq alive /\ Kinds \subseteq AllKinds /\ alive \subseteq used
  BY CtxAssumption DEF Channel, Tree
<1>2. ASSUME NEW k \in Kinds, NEW s \in Seq(Ctx) \ {<<>>}
      PROVE  M(k, s) \in EventMessages /\ M(k, s).kind = k /\ M(k, s).ids = s
  BY <1>1, <1>2 DEF EventMessages
<1>3. ASSUME NEW c \in Ctx PROVE <<c>> \in Seq(Ctx) \ {<<>>} /\ <<c>>[1] = c
  BY <1>3
<1>4. ASSUME NEW k, NEW s \in Seq(Ctx) \ {<<>>}, Raise(k, s)
      PROVE  /\ M(k, s) \in EventMessages /\ M(k, s).kind = k /\ M(k, s).ids = s
             /\ inbox' = Append(inbox, M(k, s)) /\ k # "containerResumed"
             /\ UNCHANGED <<cmds, ctxs, announced>>
  <2>1. k \in Kinds /\ inbox' = Append(inbox, M(k, s)) /\ UNCHANGED <<cmds, ctxs, announced>>
    BY <1>4 DEF Raise
  <2> HIDE DEF M
  <2> QED BY <1>2, <2>1
<1> HIDE DEF M
<1>5. CASE AgentAdd
  <2>1. PICK c \in Ctx \ alive : /\ Parent[c] \in alive \cup {Root} /\ c \notin used
                                 /\ alive' = alive \cup {c} /\ used' = used \cup {c}
                                 /\ running' = running /\ Raise("added", <<c>>)
    BY <1>5 DEF AgentAdd
  <2> DEFINE s == <<c>>
             m == M("added", s)
  <2>2. /\ m \in EventMessages /\ m.kind = "added" /\ m.ids[1] = c
        /\ inbox' = Append(inbox, m) /\ UNCHANGED <<cmds, ctxs, announced>>
    <3>1. s \in Seq(Ctx) \ {<<>>} /\ s[1] = c
      BY <1>3
    <3>2. Raise("added", s)
      BY <2>1
    <3> HIDE DEF s
    <3> QED BY <1>4, <3>1, <3>2
  <2> HIDE DEF m
  <2>3. Adding(m)
    BY <2>1, <2>2 DEF Adding, IsAdded
  <2> QED BY <2>2, <2>3
<1>6. CASE AgentRemove
  <2>1. PICK c \in alive : /\ alive' = alive \ Below(c) /\ running' = running \ Below(c) /\ used' = used
                           /\ \E ids \in SetToSeqs(alive \cap Below(c)) : Raise("removed", ids)
    BY <1>6 DEF AgentRemove
  <2> DEFINE S == alive \cap Below(c)
  <2>2. PICK ids \in SetToSeqs(S) : Raise("removed", ids)
    BY <2>1
  <2>3. /\ S \in SUBSET Ctx /\ S # {}
        /\ \A d \in Ctx : Parent[d] \in Below(c) => d \in Below(c)
    BY <1>1, BelowHas
  <2> HIDE DEF S
  <2>4. ids \in Seq(Ctx) \ {<<>>} /\ ids[1] \in S /\ ToSet(ids) = S
    <3>1. ids \in Seq(Ctx) \ {<<>>} /\ ids[1] \in S
      BY <2>3, IdsOf
    <3>2. ToSet(ids) = S
      BY <2>3, IdsSet
    <3> QED BY <3>1, <3>2
  <2> DEFINE m == M("removed", ids)
  <2>5. /\ m \in EventMessages /\ m.kind = "removed" /\ m.ids = ids
        /\ inbox' = Append(inbox, m) /\ UNCHANGED <<cmds, ctxs, announced>>
    BY <1>4, <2>2, <2>4
  <2> HIDE DEF m
  <2>6. Removing(m)
    <3>1. \A d \in alive \ alive' : Removes(m, d)
      BY <2>1, <2>4, <2>5 DEF Removes, S
    <3>2. \A d \in alive' : Parent[d] \in alive => Parent[d] \in alive'
      BY <1>1, <2>1, <2>3
    <3>3. running' = running \cap alive'
      BY <1>1, <2>1
    <3> QED BY <2>1, <2>5, <3>1, <3>2, <3>3 DEF Removing
  <2> QED BY <2>4, <2>5, <2>6 DEF S
<1>7. CASE AgentSuspend \/ AgentResume \/ AgentException \/ AgentStateChange
  <2>1. PICK c \in Ctx, k \in {"suspended", "resumed", "exception", "stateChanged"} :
          /\ Raise(k, <<c>>) /\ alive' = alive /\ used' = used /\ c \in alive
          /\ k = "suspended" => c \notin running'
          /\ k = "resumed" => c \in running'
          /\ \A n \in Ctx \ {c} : n \in running' <=> n \in running
    <3>1. CASE AgentSuspend
      BY <1>1, <3>1 DEF AgentSuspend
    <3>2. CASE AgentResume
      BY <1>1, <3>2 DEF AgentResume
    <3>3. CASE AgentException
      BY <1>1, <3>3 DEF AgentException
    <3>4. CASE AgentStateChange
      BY <1>1, <3>4 DEF AgentStateChange
    <3> QED BY <1>7, <3>1, <3>2, <3>3, <3>4
  <2> DEFINE s == <<c>>
             m == M(k, s)
  <2>2. /\ m \in EventMessages /\ m.kind = k /\ m.ids[1] = c
        /\ inbox' = Append(inbox, m) /\ UNCHANGED <<cmds, ctxs, announced>>
    <3>1. s \in Seq(Ctx) \ {<<>>} /\ s[1] = c
      BY <1>3
    <3>2. Raise(k, s)
      BY <2>1
    <3> HIDE DEF s
    <3> QED BY <1>4, <3>1, <3>2
  <2> HIDE DEF m
  <2>3. Changing(m)
    BY <2>1, <2>2 DEF Changing, Replaces, IsAdded
  <2> QED BY <2>1, <2>2, <2>3
<1>8. CASE AgentContainer
  <2>1. PICK S \in (SUBSET alive) \ {{}} : \E ids \in SetToSeqs(S) :
          \/ running' = running \ S /\ Raise("containerSuspended", ids)
          \/ running' = running \cup S /\ Raise("containerResumed", ids)
    BY <1>8 DEF AgentContainer
  <2>2. S \in SUBSET Ctx /\ S # {}
    BY <1>1
  <2>3. PICK ids \in SetToSeqs(S) :
          \/ running' = running \ S /\ Raise("containerSuspended", ids)
          \/ running' = running \cup S /\ Raise("containerResumed", ids)
    BY <2>1
  <2>4. ids \in Seq(Ctx) \ {<<>>} /\ ids[1] \in S /\ ToSet(ids) = S
    <3>1. ids \in Seq(Ctx) \ {<<>>} /\ ids[1] \in S
      BY <2>2, IdsOf
    <3>2. ToSet(ids) = S
      BY <2>2, IdsSet
    <3> QED BY <3>1, <3>2
  <2>5. Raise("containerSuspended", ids) /\ running' = running \ S
    BY <2>3 DEF Raise
  <2> DEFINE m == M("containerSuspended", ids)
  <2>6. /\ m \in EventMessages /\ m.kind = "containerSuspended" /\ m.ids = ids
        /\ inbox' = Append(inbox, m) /\ UNCHANGED <<cmds, ctxs, announced>>
    BY <1>4, <2>4, <2>5
  <2> HIDE DEF m
  <2>7. alive' = alive /\ used' = used
    BY <1>8 DEF AgentContainer
  <2>8. \A n \in Ctx : Replaces(m, n, "state") \/ (n \in running' <=> n \in running)
    BY <2>4, <2>5, <2>6 DEF Replaces
  <2>9. Changing(m)
    BY <2>4, <2>5, <2>6, <2>7, <2>8 DEF Changing, IsAdded
  <2> QED BY <2>4, <2>6, <2>9
<1> QED BY <1>5, <1>6, <1>7, <1>8 DEF AgentEvent

LEMMA InitMirrored == Init => Tree /\ Mirrored
<1> SUFFICES ASSUME Init PROVE Tree /\ Mirrored
  OBVIOUS
<1> DEFINE d == [x \in Node \X Types |-> Invalid]
<1>1. /\ inbox = <<>> /\ alive = {} /\ used = {} /\ announced = {}
      /\ ctxs = [entry |-> {Root}, kids |-> {Root}, parented |-> {}, linked |-> {}, data |-> d]
  BY DEF Init
<1>2. d \in [Node \X Types -> Values] /\ \A n \in Node, t \in Types : d[<<n, t>>] = Invalid
  BY ValuesAre
<1> HIDE DEF d
<1>3. Shape(ctxs) /\ ctxs.linked = {} /\ ctxs.parented = {} /\ ctxs.entry = {Root} /\ ctxs.data = d
  BY <1>1 DEF Shape, Fields
<1>4. \A n \in Node, t \in Types : ctxs.data[<<n, t>>] = Invalid
  BY <1>2, <1>3
<1>5. Kept(ctxs)
  BY <1>2, <1>3, <1>4, TypesAre, ListsAre DEF Kept, Listed
<1>6. Lists(alive, ctxs)
  BY <1>1, <1>4, TypesAre DEF Lists
<1>7. ASSUME NEW c \in Ctx
      PROVE  Gone(c, alive, ctxs, inbox) /\ Omitted(c, ctxs, inbox) /\ Awaited(c, alive, ctxs, inbox)
  <2>1. DOMAIN inbox = {}
    BY <1>1
  <2>2. Gone(c, alive, ctxs, inbox)
    BY <1>3, <2>1 DEF Gone, Due
  <2>3. Omitted(c, ctxs, inbox)
    BY <1>3, <2>1 DEF Omitted, Between
  <2>4. Awaited(c, alive, ctxs, inbox)
    BY <1>1 DEF Awaited
  <2> QED BY <2>2, <2>3, <2>4
<1>8. \A n \in alive \cup {Root}, t \in Plain : Valued(n, t, running, ctxs, inbox)
  BY <1>1, <1>4, TypesAre DEF Valued, Due
<1>9. DOMAIN inbox = {}
  BY <1>1
<1>10. Tree
  BY <1>1, <1>9 DEF Tree
<1>11. Mirrored
  BY <1>5, <1>6, <1>7, <1>8, <1>9 DEF Mirrored
<1> QED BY <1>10, <1>11

\* Nothing is said of a context that the agent has not added yet.
LEMMA Unmentioned ==
  ASSUME CoherentInv, NEW c \in Ctx \ used
  PROVE  /\ \A t \in Types : ctxs.data[<<c, t>>] = Invalid
         /\ \A i \in DOMAIN inbox : c \notin Mentions(inbox[i]) /\ ~Adds(inbox[i], c)
<1>1. c \notin Known
  BY CtxAssumption DEF Known, CoherentInv, Tree
<1>2. \A i \in DOMAIN inbox : ~Adds(inbox[i], c)
  BY DEF CoherentInv, Tree, Adds
<1>3. \A i \in DOMAIN inbox : c \notin Mentions(inbox[i])
  <2> SUFFICES ASSUME NEW i \in DOMAIN inbox, c \in Mentions(inbox[i]) PROVE FALSE
    OBVIOUS
  <2>1. Before(c, i)
    BY DEF CoherentInv, Told
  <2> QED BY <1>1, <1>2, <2>1 DEF Before, Adds
<1>4. c \notin ctxs.entry
  BY <1>1 DEF CoherentInv, Told
<1>5. \A t \in Types : ctxs.data[<<c, t>>] = Invalid
  BY <1>4, TypesAre DEF CoherentInv, Mirrored, Kept
<1> QED BY <1>2, <1>3, <1>5

LEMMA ChangeKeepsRight ==
  ASSUME NEW n \in Node, NEW t \in Plain, NEW R, NEW S, t = "state" => (n \in S <=> n \in R)
  PROVE  Right(n, t, S) = Right(n, t, R)
<1>1. CASE n = Root \/ t # "state"
  BY <1>1 DEF Right
<1>2. CASE n # Root /\ t = "state"
  <2>1. CASE n \in R
    <3>1. (n \in R) = TRUE /\ (n \in S) = TRUE
      BY <1>2, <2>1
    <3> QED BY <1>2, <3>1, Zenon DEF Right
  <2>2. CASE n \notin R
    <3>1. (n \in R) = FALSE /\ (n \in S) = FALSE
      BY <1>2, <2>2
    <3> QED BY <1>2, <3>1, Zenon DEF Right
  <2> QED BY <2>1, <2>2
<1> QED BY <1>1, <1>2

\* An event gives nothing but the truth.
LEMMA EventGives ==
  ASSUME Channel, Tree, NEW m \in EventMessages, m.ids[1] \in alive \/ Adding(m),
         Adding(m) \/ Removing(m) \/ Changing(m),
         NEW n \in alive' \cup {Root}, NEW t \in Plain, NEW v \in Values, Gives(m, n, t, v)
  PROVE  v = Right(n, t, running')
<1>1. ~IsReply(m) /\ m.ids[1] \in Ctx /\ m.ids[1] # Root
  <2>1. m.ids \in Seq(Ctx) /\ m.ids # <<>> /\ m.kind \in AllKinds
    BY DEF EventMessages
  <2> QED BY <2>1, CtxAssumption DEF IsReply, AllKinds
<1>2. CASE t = "context" /\ Adds(m, n) /\ v = Present
  BY <1>1, <1>2 DEF Adds, Right
<1>3. CASE /\ t = "state" /\ m.kind \in {"suspended", "resumed", "containerSuspended"}
           /\ m.ids[1] = n /\ v = State(m.kind = "resumed")
  <2>1. Changing(m) /\ n # Root
    BY <1>1, <1>3 DEF Adding, Removing, IsAdded
  <2>2. CASE m.kind = "resumed"
    <3>1. (m.kind = "resumed") = TRUE /\ (n \in running') = TRUE
      BY <1>3, <2>1, <2>2 DEF Changing
    <3> QED BY <1>3, <2>1, <3>1, Zenon DEF Right
  <2>3. CASE m.kind # "resumed"
    <3>1. (m.kind = "resumed") = FALSE /\ (n \in running') = FALSE
      BY <1>3, <2>1, <2>3 DEF Changing
    <3> QED BY <1>3, <2>1, <3>1, Zenon DEF Right
  <2> QED BY <2>2, <2>3
<1> QED BY <1>1, <1>2, <1>3 DEF Gives, Answers

LEMMA EventTree ==
  ASSUME CoherentInv, NEW m \in EventMessages, inbox' = Append(inbox, m),
         Adding(m) \/ Removing(m) \/ Changing(m), announced' = announced
  PROVE  Tree'
<1>1. /\ DOMAIN inbox' = DOMAIN inbox \cup {Len(inbox) + 1}
      /\ \A i \in DOMAIN inbox : inbox'[i] = inbox[i]
      /\ inbox'[Len(inbox) + 1] = m
  <2>1. inbox \in Seq(Messages) /\ m \in Messages
    BY DEF CoherentInv, Channel, Messages
  <2> QED BY <2>1, Sending
<1>2. Tree /\ alive \subseteq Ctx
  BY DEF CoherentInv, Channel
<1>3. alive' \subseteq used' /\ announced' \subseteq used' /\ used' \subseteq Ctx /\ used \subseteq used'
  BY <1>2 DEF Tree, Adding, Removing, Changing
<1>4. \A c \in alive' : Parent[c] \in alive' \cup {Root}
  BY <1>2 DEF Tree, Adding, Removing, Changing
<1>5. IsAdded(m) => m.ids[1] \in used' \ used
  BY DEF Adding, Removing, Changing, IsAdded
<1>6. \A i \in DOMAIN inbox' : IsAdded(inbox'[i]) => inbox'[i].ids[1] \in used' \ announced'
  BY <1>1, <1>2, <1>3, <1>5 DEF Tree
<1>7. \A i, j \in DOMAIN inbox' :
        IsAdded(inbox'[i]) /\ IsAdded(inbox'[j]) /\ inbox'[i].ids[1] = inbox'[j].ids[1] => i = j
  BY <1>1, <1>2, <1>5 DEF Tree
<1> QED BY <1>3, <1>4, <1>6, <1>7 DEF Tree, IsAdded

LEMMA EventMirrored ==
  ASSUME CoherentInv, ~Readd, "containerResumed" \notin Kinds, AgentEvent
  PROVE  Tree' /\ Mirrored'
<1>1. Channel /\ Tree /\ Mirrored /\ inbox \in Seq(Messages) /\ alive \subseteq Ctx
  BY DEF CoherentInv, Channel
<1>2. PICK m \in EventMessages :
        /\ inbox' = Append(inbox, m) /\ m.kind # "containerResumed"
        /\ m.ids[1] \in alive \/ Adding(m)
        /\ Adding(m) \/ Removing(m) \/ Changing(m)
  BY <1>1, EventSent
<1>3. ctxs' = ctxs /\ announced' = announced
  BY <1>1, EventSent
<1>4. m \in Messages /\ ~IsReply(m)
  BY DEF Messages, EventMessages, AllKinds, IsReply
<1>5. Tree'
  BY <1>2, <1>3, EventTree
<1>6. /\ \A c \in alive \ alive' : Removes(m, c)
      /\ \A c \in alive' \ alive : Adds(m, c) /\ c \in Ctx \ used
      /\ \A c : Links(m, c) => c \in alive'
      /\ \A c : ~Omits(m, c)
  <2>1. \A c : Links(m, c) => Adds(m, c)
    BY <1>4 DEF Links, Answers
  <2>2. \A c : ~Omits(m, c)
    BY <1>4 DEF Omits, Answers
  <2>3. CASE Adding(m)
    BY <2>1, <2>2, <2>3 DEF Adding, Adds
  <2>4. CASE Removing(m)
    BY <2>1, <2>2, <2>4 DEF Removing, Adds, IsAdded
  <2>5. CASE Changing(m)
    BY <2>1, <2>2, <2>5 DEF Changing, Adds
  <2> QED BY <1>2, <2>3, <2>4, <2>5
<1>7. \A i \in DOMAIN inbox' : (i \in DOMAIN inbox /\ inbox'[i] = inbox[i]) \/ inbox'[i] = m
  BY <1>1, <1>2, <1>4, Sending
<1>8. ASSUME NEW i \in DOMAIN inbox' PROVE Replied(alive', inbox'[i]) /\ inbox'[i].kind # "containerResumed"
  <2>1. CASE inbox'[i] = m
    BY <1>2, <1>4, <2>1 DEF Replied
  <2>2. CASE i \in DOMAIN inbox /\ inbox'[i] = inbox[i]
    <3>1. Replied(alive, inbox[i]) /\ inbox[i].kind # "containerResumed"
      BY <1>1, <2>2 DEF Mirrored
    <3>2. \A c \in Ctx \ used : IsReply(inbox[i]) => inbox[i].node # c
      BY <2>2, Unmentioned DEF Mentions
    <3> QED BY <1>6, <2>2, <3>1, <3>2 DEF Replied
  <2> QED BY <1>7, <2>1, <2>2
<1>9. Kept(ctxs) /\ Lists(alive', ctxs)
  <2>1. Kept(ctxs) /\ Lists(alive, ctxs)
    BY <1>1 DEF Mirrored
  <2> QED BY <1>6, <2>1, Unmentioned, TypesAre DEF Lists
<1>10. ASSUME NEW c \in Ctx
       PROVE  /\ Gone(c, alive', ctxs, Append(inbox, m)) /\ Omitted(c, ctxs, Append(inbox, m))
              /\ Awaited(c, alive', ctxs, Append(inbox, m))
  <2>1. Gone(c, alive, ctxs, inbox) /\ Omitted(c, ctxs, inbox) /\ Awaited(c, alive, ctxs, inbox)
    BY <1>1 DEF Mirrored
  <2>2. /\ c \in alive \ alive' => Removes(m, c)
        /\ c \in alive' \ alive => Adds(m, c)
        /\ Links(m, c) => c \in alive'
        /\ ~Omits(m, c)
    BY <1>6
  <2>3. Gone(c, alive', ctxs, Append(inbox, m))
    BY <1>1, <1>4, <2>1, <2>2, SentGone
  <2>4. Omitted(c, ctxs, Append(inbox, m))
    BY <1>1, <1>4, <2>1, <2>2, SentOmitted
  <2>5. Awaited(c, alive', ctxs, Append(inbox, m))
    BY <1>1, <1>4, <2>1, <2>2, SentAwaited
  <2> QED BY <2>3, <2>4, <2>5
<1>11. ASSUME NEW n \in alive' \cup {Root}, NEW t \in Plain
       PROVE  Valued(n, t, running', ctxs, Append(inbox, m))
  <2>1. n \in Node
    BY <1>1, <1>6, TypesAre
  <2>2. Valued(n, t, running, ctxs, inbox)
    <3>1. CASE n \in alive \cup {Root}
      BY <1>1, <3>1 DEF Mirrored
    <3>2. CASE n \notin alive \cup {Root}
      <4>1. n \in Ctx \ used
        BY <1>6, <3>2
      <4>2. ctxs.data[<<n, t>>] = Invalid
        BY <4>1, Unmentioned, TypesAre
      <4>3. \A i \in DOMAIN inbox : \A v \in Values : ~Gives(inbox[i], n, t, v)
        <5>1. \A i \in DOMAIN inbox : n \notin Mentions(inbox[i]) /\ ~Adds(inbox[i], n)
          BY <4>1, Unmentioned
        <5> QED BY <5>1 DEF Gives, Mentions, Answers, IsReply, IsAdded
      <4> QED BY <1>1, <2>1, <4>2, <4>3, NewValued
    <3> QED BY <3>1, <3>2
  <2>3. Replaces(m, n, t) \/ Right(n, t, running') = Right(n, t, running)
    <3>2. ASSUME t = "state", n # Root, ~Replaces(m, n, t) PROVE n \in running' <=> n \in running
      <4>1. n \in Ctx
        BY <2>1, <3>2 DEF Node
      <4>2. CASE Adding(m)
        BY <4>2 DEF Adding
      <4>3. CASE Removing(m)
        BY <3>2, <4>3 DEF Removing
      <4>4. CASE Changing(m)
        BY <3>2, <4>1, <4>4 DEF Changing
      <4> QED BY <1>2, <4>2, <4>3, <4>4
    <3>3. CASE n = Root
      BY <3>3 DEF Right
    <3> QED BY <2>1, <3>2, <3>3, ChangeKeepsRight
  <2>4. \A v \in Values : Gives(m, n, t, v) => v = Right(n, t, running')
    BY <1>1, <1>2, EventGives
  <2> QED BY <1>1, <1>4, <2>1, <2>2, <2>3, <2>4, SentValued
<1>12. Mirrored'
  BY <1>2, <1>3, <1>8, <1>9, <1>10, <1>11 DEF Mirrored
<1> QED BY <1>5, <1>12

LEMMA ReplyMirrored ==
  ASSUME CoherentInv, AgentReply
  PROVE  Tree' /\ Mirrored'
<1> DEFINE n == Head(cmds)[1]
           t == Head(cmds)[2]
           v == Truth(n, t)
           m == [kind |-> "reply", node |-> n, type |-> t, val |-> v]
<1>1. /\ cmds # <<>> /\ inbox' = Append(inbox, m)
      /\ UNCHANGED <<alive, used, running, announced, ctxs>>
  BY DEF AgentReply, agentVars
<1>2. /\ Channel /\ Tree /\ Mirrored /\ inbox \in Seq(Messages) /\ alive \subseteq Ctx
      /\ cmds \in Seq(Node \X Types)
  BY DEF CoherentInv, Channel
<1>3. n \in Node /\ t \in Types
  <2> DEFINE R == Node \X Types
  <2>1. cmds \in Seq(R) /\ cmds # <<>>
    BY <1>1, <1>2
  <2> HIDE DEF R
  <2>2. Head(cmds) \in R
    BY <2>1
  <2> QED BY <2>2 DEF R
<1>4. v \in Values
  BY <1>2, <1>3, TruthValue
<1> HIDE DEF v, n, t
<1>5. /\ m \in Messages /\ IsReply(m) /\ ~IsAdded(m) /\ m.kind = "reply"
      /\ m.node = n /\ m.type = t /\ m.val = v
  BY <1>3, <1>4 DEF Messages, ReplyMessages, IsReply, IsAdded
<1> HIDE DEF m
<1>6. /\ DOMAIN inbox' = DOMAIN inbox \cup {Len(inbox) + 1}
      /\ \A i \in DOMAIN inbox : inbox'[i] = inbox[i]
      /\ inbox'[Len(inbox) + 1] = m
  BY <1>1, <1>2, <1>5, Sending
<1>7. Tree'
  BY <1>1, <1>2, <1>5, <1>6 DEF Tree, IsAdded
<1>8. t = "children" =>
        v = IF n \in alive \cup {Root} THEN List({c \in alive : Parent[c] = n}) ELSE Error
  BY <1>2, <1>3, TruthChildren DEF v
<1>9. ASSUME t = "children"
      PROVE  /\ Listed(v) \subseteq {c \in alive : Parent[c] = n}
             /\ n \in alive \cup {Root} => IsList(v) /\ Listed(v) = {c \in alive : Parent[c] = n}
  <2> DEFINE S == {c \in alive : Parent[c] = n}
  <2>1. v = IF n \in alive \cup {Root} THEN List(S) ELSE Error
    BY <1>8, <1>9
  <2> HIDE DEF S
  <2>2. ~IsList(Error) /\ IsList(List(S)) /\ List(S)[2] = S
    BY ListsAre
  <2> QED BY <2>1, <2>2 DEF Listed, S
<1>10. Replied(alive, m) /\ m.kind # "containerResumed"
  BY <1>5, <1>9 DEF Replied
<1>11. \A c : ~Adds(m, c) /\ ~Removes(m, c)
  BY <1>5 DEF Adds, Removes
<1>12. ASSUME NEW c \in Ctx
       PROVE  (Links(m, c) => c \in alive) /\ (Omits(m, c) => c \notin alive)
  <2>1. Links(m, c) => c \in alive
    BY <1>5, <1>9, <1>11 DEF Links, Answers
  <2>2. ASSUME Omits(m, c), c \in alive PROVE FALSE
    <3>1. t = "children" /\ n = Parent[c] /\ c \notin Listed(v)
      BY <1>5, <2>2 DEF Omits, Answers
    <3>2. n \in alive \cup {Root}
      BY <1>2, <2>2, <3>1 DEF Tree
    <3> QED BY <1>9, <2>2, <3>1, <3>2
  <2> QED BY <2>1, <2>2
<1>13. ASSUME NEW c \in Ctx
       PROVE  /\ Gone(c, alive, ctxs, Append(inbox, m)) /\ Omitted(c, ctxs, Append(inbox, m))
              /\ Awaited(c, alive, ctxs, Append(inbox, m))
  <2>1. Gone(c, alive, ctxs, inbox) /\ Omitted(c, ctxs, inbox) /\ Awaited(c, alive, ctxs, inbox)
    BY <1>2 DEF Mirrored
  <2>2. c \notin alive \ alive
    OBVIOUS
  <2>3. Gone(c, alive, ctxs, Append(inbox, m))
    BY <1>2, <1>5, <1>12, <2>1, <2>2, SentGone
  <2>4. Omitted(c, ctxs, Append(inbox, m))
    BY <1>2, <1>5, <1>12, <2>1, SentOmitted
  <2>5. Awaited(c, alive, ctxs, Append(inbox, m))
    BY <1>2, <1>5, <1>12, <2>1, <2>2, SentAwaited
  <2> QED BY <2>3, <2>4, <2>5
<1>14. ASSUME NEW o \in alive \cup {Root}, NEW s \in Plain
       PROVE  Valued(o, s, running, ctxs, Append(inbox, m))
  <2>1. o \in Node /\ Valued(o, s, running, ctxs, inbox)
    BY <1>2, TypesAre DEF Mirrored
  <2>2. \A w \in Values : Gives(m, o, s, w) => w = Right(o, s, running)
    <3> SUFFICES ASSUME NEW w \in Values, Gives(m, o, s, w) PROVE w = Right(o, s, running)
      OBVIOUS
    <3>1. n = o /\ t = s /\ w = v
      BY <1>5, <1>11 DEF Gives, Answers
    <3> QED BY <1>2, <3>1, TruthPlain DEF v
  <2> QED BY <1>2, <1>5, <2>1, <2>2, SentValued
<1>15. \A i \in DOMAIN inbox' : Replied(alive', inbox'[i]) /\ inbox'[i].kind # "containerResumed"
  BY <1>1, <1>2, <1>6, <1>10 DEF Mirrored
<1>16. Mirrored'
  BY <1>1, <1>2, <1>13, <1>14, <1>15 DEF Mirrored
<1> QED BY <1>7, <1>16

LEMMA DeliverEffects ==
  ASSUME CoherentInv, Deliver
  PROVE  Effects(Head(inbox), ctxs, ctxs')
<1> DEFINE m == Head(inbox)
<1>1. /\ inbox # <<>> /\ inbox \in Seq(Messages) /\ Kept(ctxs)
      /\ IF IsReply(m) THEN HandleReply(m) ELSE HandleEvent(m)
  BY DEF Deliver, IsReply, CoherentInv, Channel, Mirrored
<1>2. 1 \in DOMAIN inbox /\ inbox[1] = m /\ m \in Messages
  BY <1>1, Taking
<1> HIDE DEF m
<1>3. Replied(alive, m) /\ m.kind # "containerResumed"
  BY <1>2 DEF CoherentInv, Mirrored
<1>4. CASE IsReply(m)
  <2>1. m \in ReplyMessages
    BY <1>2, <1>4, MessageKinds
  <2>2. ASSUME NEW c \in ctxs.linked PROVE ~Omits(m, c)
    <3>1. c \in Ctx
      BY <1>1 DEF Kept
    <3>2. Cleared(inbox, RemovesOf(c), OmitsOf(c))
      BY <3>1 DEF CoherentInv, Mirrored, Omitted
    <3>3. m \notin OmitsOf(c)
      BY <1>1, <3>2, TakingCleared DEF m
    <3> QED BY <1>2, <3>3 DEF OmitsOf
  <2> QED BY <1>1, <1>3, <1>4, <2>1, <2>2, ReplyEffects DEF Replied, m
<1>5. CASE ~IsReply(m)
  <2>1. m \in EventMessages
    BY <1>2, <1>5, MessageKinds
  <2>2. ASSUME IsAdded(m) PROVE m.ids[1] \notin ctxs.entry
    <3>1. m.ids[1] \in used \ announced
      BY <1>2, <2>2 DEF CoherentInv, Tree
    <3>2. m.ids[1] # Root
      BY <3>1, CtxAssumption DEF CoherentInv, Tree
    <3> QED BY <3>1, <3>2 DEF CoherentInv, Told, Known
  <2> QED BY <1>1, <1>3, <1>5, <2>1, <2>2, EventEffects DEF m
<1> QED BY <1>4, <1>5

LEMMA DeliverTree ==
  ASSUME CoherentInv, Deliver
  PROVE  Tree'
<1> DEFINE m == Head(inbox)
<1>1. /\ inbox # <<>> /\ inbox' = Tail(inbox) /\ inbox \in Seq(Messages) /\ Tree
      /\ UNCHANGED <<alive, used, running>>
      /\ IF IsReply(m) THEN HandleReply(m) ELSE HandleEvent(m)
  BY DEF Deliver, IsReply, agentVars, CoherentInv, Channel
<1>2. /\ 1 \in DOMAIN inbox /\ inbox[1] = m
      /\ \A i \in DOMAIN inbox' : i + 1 \in DOMAIN inbox /\ inbox'[i] = inbox[i + 1] /\ i \in Nat /\ i > 0
  BY <1>1, Taking
<1> HIDE DEF m
<1>3. announced' = announced \/ (IsAdded(m) /\ announced' \subseteq announced \cup {m.ids[1]})
  BY <1>1 DEF HandleReply, HandleEvent, NewContexts, IsAdded
<1>4. announced' \subseteq used'
  BY <1>1, <1>2, <1>3 DEF Tree
<1>5. ASSUME NEW i \in DOMAIN inbox', NEW j \in DOMAIN inbox', IsAdded(inbox'[i]), IsAdded(inbox'[j]),
             inbox'[i].ids[1] = inbox'[j].ids[1]
      PROVE  i = j
  <2>1. i + 1 = j + 1
    BY <1>1, <1>2, <1>5 DEF Tree
  <2> QED BY <1>2, <2>1
<1>6. ASSUME NEW i \in DOMAIN inbox', IsAdded(inbox'[i])
      PROVE  inbox'[i].ids[1] \in used' \ announced'
  <2>1. inbox'[i].ids[1] \in used \ announced
    BY <1>1, <1>2, <1>6 DEF Tree
  <2>2. IsAdded(m) => inbox'[i].ids[1] # m.ids[1]
    <3> SUFFICES ASSUME IsAdded(m), inbox'[i].ids[1] = m.ids[1] PROVE FALSE
      OBVIOUS
    <3>1. i + 1 = 1
      BY <1>1, <1>2, <1>6 DEF Tree
    <3> QED BY <1>2, <3>1
  <2> QED BY <1>1, <1>3, <2>1, <2>2
<1>7. alive' \subseteq used' /\ used' \subseteq Ctx /\ \A c \in alive' : Parent[c] \in alive' \cup {Root}
  BY <1>1 DEF Tree
<1> QED BY <1>4, <1>5, <1>6, <1>7 DEF Tree, IsAdded

LEMMA DeliverMirrored ==
  ASSUME CoherentInv, Deliver
  PROVE  Tree' /\ Mirrored'
<1> DEFINE m == Head(inbox)
<1>1. /\ inbox # <<>> /\ inbox' = Tail(inbox) /\ inbox \in Seq(Messages) /\ Mirrored
      /\ UNCHANGED <<alive, used, running>> /\ alive \subseteq Ctx
  BY DEF Deliver, agentVars, CoherentInv, Channel
<1>2. /\ m \in Messages /\ 1 \in DOMAIN inbox /\ inbox[1] = m
      /\ \A i \in DOMAIN inbox' : i + 1 \in DOMAIN inbox /\ inbox'[i] = inbox[i + 1]
  BY <1>1, Taking
<1>3. Effects(m, ctxs, ctxs')
  BY DeliverEffects
<1>4. Kept(ctxs') /\ Linking(m, ctxs, ctxs') /\ Listing(m, ctxs, ctxs') /\ Valuing(m, ctxs, ctxs')
  BY <1>3 DEF Effects
<1>5. \A i \in DOMAIN inbox' : Replied(alive', inbox'[i]) /\ inbox'[i].kind # "containerResumed"
  BY <1>1, <1>2 DEF Mirrored
<1>6. Lists(alive', ctxs')
  <2> SUFFICES ASSUME NEW n \in alive \cup {Root}
               PROVE  ctxs'.data[<<n, "children">>] = Invalid \/ IsList(ctxs'.data[<<n, "children">>])
    BY <1>1 DEF Lists
  <2>1. ctxs.data[<<n, "children">>] = Invalid \/ IsList(ctxs.data[<<n, "children">>])
    BY <1>1 DEF Mirrored, Lists
  <2>2. Replied(alive, m)
    BY <1>1, <1>2 DEF Mirrored
  <2>3. ~(Answers(m, n, "children") /\ ~IsList(m.val))
    BY <2>2 DEF Replied, Answers
  <2>4. n \in Node
    BY <1>1, TypesAre
  <2> QED BY <1>4, <2>1, <2>3, <2>4 DEF Listing
<1>7. ASSUME NEW c \in Ctx
      PROVE  /\ Gone(c, alive, ctxs', Tail(inbox)) /\ Omitted(c, ctxs', Tail(inbox))
             /\ Awaited(c, alive, ctxs', Tail(inbox))
  <2>1. Gone(c, alive, ctxs, inbox) /\ Omitted(c, ctxs, inbox) /\ Awaited(c, alive, ctxs, inbox)
    BY <1>1 DEF Mirrored
  <2>2. Gone(c, alive, ctxs', Tail(inbox))
    BY <1>1, <1>4, <2>1, TakenGone
  <2>3. Omitted(c, ctxs', Tail(inbox))
    BY <1>1, <1>4, <2>1, TakenOmitted
  <2>4. Awaited(c, alive, ctxs', Tail(inbox))
    BY <1>1, <1>4, <2>1, TakenAwaited
  <2> QED BY <2>2, <2>3, <2>4
<1>8. ASSUME NEW n \in alive \cup {Root}, NEW t \in Plain
      PROVE  Valued(n, t, running, ctxs', Tail(inbox))
  <2>1. n \in Node /\ Valued(n, t, running, ctxs, inbox)
    BY <1>1, TypesAre DEF Mirrored
  <2>2. ctxs'.data[<<n, t>>] \in Values
    BY <1>4, <2>1, TypesAre DEF Kept
  <2> QED BY <1>1, <1>4, <2>1, <2>2, TakenValued
<1>9. Mirrored'
  BY <1>1, <1>4, <1>5, <1>6, <1>7, <1>8 DEF Mirrored
<1> QED BY <1>9, DeliverTree

LEMMA StepMirrored ==
  ASSUME ~Readd, "containerResumed" \notin Kinds, CoherentInv, [Next]_vars
  PROVE  Tree' /\ Mirrored'
<1>1. CASE AgentEvent
  BY <1>1, EventMirrored
<1>2. CASE AgentReply
  BY <1>2, ReplyMirrored
<1>3. ASSUME NEW n \in Known, NEW t \in Reads, Get(n, t) PROVE Tree' /\ Mirrored'
  <2>1. UNCHANGED <<alive, used, running, inbox, ctxs, announced>>
    BY <1>3 DEF Get, agentVars
  <2> QED BY <2>1 DEF CoherentInv, Tree, Mirrored, IsAdded
<1>4. CASE Deliver
  BY <1>4, DeliverMirrored
<1>5. CASE UNCHANGED vars
  BY <1>5 DEF vars, agentVars, CoherentInv, Tree, Mirrored, IsAdded
<1> QED BY <1>1, <1>2, <1>3, <1>4, <1>5 DEF Next

\* Nothing is left on the way that would correct the cache.
LEMMA MirroredCoherent == CoherentInv => Coherent
<1> SUFFICES ASSUME CoherentInv, inbox = <<>>, NEW n \in alive \cup {Root}, NEW t \in RunControlTypes
             PROVE  ctxs.data[<<n, t>>] \in {Invalid, Truth(n, t)}
  BY DEF Coherent
<1>1. Channel /\ Tree /\ Mirrored /\ alive \subseteq Ctx /\ n \in Node
  BY TypesAre DEF CoherentInv, Channel
<1>2. \A Y : ~Some(inbox, Y)
  BY DEF Some
<1>3. CASE t \in Plain
  <2>1. ctxs.data[<<n, t>>] \in {Invalid, Right(n, t, running)}
    BY <1>1, <1>2, <1>3 DEF Mirrored, Valued
  <2> QED BY <1>1, <1>3, <2>1, TruthPlain
<1>4. CASE t = "children"
  <2> DEFINE v == ctxs.data[<<n, "children">>]
             S == {c \in alive : Parent[c] = n}
  <2>1. CASE v # Invalid
    <3>1. Kept(ctxs) /\ IsList(v) /\ v \in Values
      BY <1>1, <2>1, TypesAre DEF Mirrored, Lists, Kept
    <3>2. v = List(Listed(v)) /\ Listed(v) = v[2] /\ Listed(v) \subseteq Ctx
      BY <3>1, ListedChildren DEF Listed
    <3>3. \A c \in Listed(v) : c \in ctxs.linked /\ Parent[c] = n
      BY <1>1, <3>1 DEF Kept
    <3>4. \A c \in Listed(v) : c \in alive
      BY <1>1, <1>2, <3>2, <3>3 DEF Mirrored, Gone
    <3>5. \A c \in S : c \in Listed(v)
      BY <1>1, <1>2, <3>1, <3>2 DEF Mirrored, Awaited, Lacks
    <3>6. Listed(v) = S
      BY <3>3, <3>4, <3>5
    <3>7. Truth(n, "children") = List(S)
      BY <1>1, TruthChildren
    <3> HIDE DEF v, S
    <3>8. v = Truth(n, "children")
      BY <3>2, <3>6, <3>7
    <3> QED BY <1>4, <3>8 DEF v
  <2> QED BY <1>4, <2>1
<1> QED BY <1>3, <1>4 DEF Plain, RunControlTypes

\* When all that the agent has sent has been handled, the cache holds what the agent would
\* answer, for every tree, whatever reads, events and sweeps crossed.  Under the two
\* hypotheses no id is used again and no event fails in the middle.
THEOREM IsCoherent ==
  ASSUME ~Readd, "containerResumed" \notin Kinds
  PROVE  Spec => []Coherent
<1> DEFINE IInv == PendingInv /\ Shape(ctxs) /\ Told /\ Tree /\ Mirrored
<1>1. Init => IInv
  BY InitPending, InitTold, InitMirrored
<1>2. IInv /\ [Next]_vars => IInv'
  BY StepPending, StepTold, StepMirrored DEF ToldInv, PendingInv, CoherentInv
<1>3. IInv => Coherent
  BY MirroredCoherent DEF PendingInv, CoherentInv
<1> QED BY <1>1, <1>2, <1>3, PTL DEF Spec
=============================================================================
