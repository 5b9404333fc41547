---------------------------- MODULE TlmFifo_proofs ----------------------------
(***************************************************************************)
(* Proofs about TlmFifo, for all sizes and any number of processes: the    *)
(* types, the agreement of the counts, the absence of lost wakeups, and    *)
(* that the fifo implements a queue.                                       *)
(***************************************************************************)
EXTENDS TlmFifo, Operators_proofs

-----------------------------------------------------------------------------
(* The inductive invariant *)

\* Producers put and consumers get; who waits, or has waited, is in a call.
CallType == [ op : {"none", "put", "get", "peek"}, item : Items \cup {Hole},
              st : {"none", "waiting", "woken"} ]

CallOK(p, v) ==
  /\ p \in Producers => v.op \in {"none", "put"}
  /\ p \in Consumers => v.op \in {"none", "get", "peek"}
  /\ v.st # "none" => v.op # "none"
  /\ v.op = "put" => v.item \in Items

CallInv(c) == c \in [Processes -> CallType] /\ \A p \in Processes : CallOK(p, c[p])

IInv ==
  /\ FifoInv(fifo) /\ CallInv(call)
  /\ out \in Seq(Items) /\ widened \in BOOLEAN
  /\ NoLostWakeup

LEMMA NoCallOK ==
  ASSUME NEW p
  PROVE  NoCall \in CallType /\ CallOK(p, NoCall)
BY DEF NoCall, CallOK, CallType

\* What keeps wakeups from being lost: the reasons to wait are kept, and who starts
\* to wait has one.
LEMMA WakeupKept ==
  ASSUME NoLostWakeup,
         is_full(fifo) \/ ReadNotified(fifo) \/ widened
           => is_full(fifo') \/ ReadNotified(fifo') \/ widened',
         is_empty(fifo) \/ WriteNotified(fifo) => is_empty(fifo') \/ WriteNotified(fifo'),
         \A p \in Processes :
           \/ call'[p] = call[p]
           \/ call'[p].st # "waiting"
           \/ IF call'[p].op = "put" THEN is_full(fifo') ELSE is_empty(fifo')
  PROVE  NoLostWakeup'
<1> SUFFICES ASSUME NEW p \in Processes, call'[p].st = "waiting"
             PROVE  IF call'[p].op = "put" THEN is_full(fifo') \/ ReadNotified(fifo') \/ widened'
                                           ELSE is_empty(fifo') \/ WriteNotified(fifo')
  BY DEF NoLostWakeup
<1>1. CASE call'[p] = call[p]
  <2>1. IF call[p].op = "put" THEN is_full(fifo) \/ ReadNotified(fifo) \/ widened
                              ELSE is_empty(fifo) \/ WriteNotified(fifo)
    BY <1>1 DEF NoLostWakeup
  <2> QED BY <1>1, <2>1
<1>2. CASE call'[p] # call[p]
  BY <1>2
<1> QED BY <1>1, <1>2

LEMMA InitIInv == Init => IInv
<1> SUFFICES ASSUME Init PROVE IInv
  OBVIOUS
<1>1. FifoInv(fifo)
  <2>1. PICK n \in Sizes : fifo = NewFifo(n)
    BY DEF Init
  <2>2. n \in Int
    BY FifoAssumption
  <2> QED BY <2>1, <2>2, NewFifoInv
<1>2. \A p \in Processes : call[p] = NoCall
  BY DEF Init
<1>3. CallInv(call)
  BY <1>2, NoCallOK DEF Init, CallInv
<1>4. NoLostWakeup
  BY <1>2 DEF NoLostWakeup, NoCall
<1>5. out \in Seq(Items) /\ widened \in BOOLEAN
  <2>1. out = <<>> /\ widened = FALSE
    BY DEF Init
  <2>2. <<>> \in Seq(Items)
    OBVIOUS
  <2> QED BY <2>1, <2>2
<1> QED BY <1>1, <1>3, <1>4, <1>5 DEF IInv

LEMMA PutOrWaitIInv ==
  ASSUME IInv, NEW p \in Producers, NEW t \in Items, PutOrWait(p, t)
  PROVE  IInv'
<1>1. p \in Processes /\ FifoInv(fifo) /\ CallInv(call) /\ NoLostWakeup
  BY DEF Processes, IInv
<1>2. CASE is_full(fifo)
  <2> DEFINE v == [op |-> "put", item |-> t, st |-> "waiting"]
  <2>1. call' = [call EXCEPT ![p] = v] /\ fifo' = fifo /\ out' = out /\ widened' = widened
    BY <1>2 DEF PutOrWait
  <2>3. v.op = "put" /\ v \in CallType /\ CallOK(p, v)
    BY FifoAssumption DEF CallType, CallOK
  <2> HIDE DEF v
  <2>2. CallInv(call') /\ \A q \in Processes : call'[q] = IF q = p THEN v ELSE call[q]
    <3>1. \A q \in Processes : call'[q] = IF q = p THEN v ELSE call[q]
      BY <1>1, <2>1 DEF CallInv
    <3>2. call' \in [Processes -> CallType]
      BY <1>1, <2>1, <2>3 DEF CallInv
    <3> QED BY <3>1, <3>2, <1>1, <2>3 DEF CallInv
  <2>4. NoLostWakeup'
    BY <1>1, <1>2, <2>1, <2>2, <2>3, WakeupKept
  <2> QED BY <1>1, <2>1, <2>2, <2>4 DEF IInv
<1>3. CASE ~ is_full(fifo)
  <2>1. /\ call' = [call EXCEPT ![p] = NoCall] /\ fifo' = Stored(fifo, t)
        /\ out' = out /\ widened' = widened
    BY <1>3 DEF PutOrWait
  <2>2. CallInv(call') /\ \A q \in Processes : call'[q] = IF q = p THEN NoCall ELSE call[q]
    <3>1. \A q \in Processes : call'[q] = IF q = p THEN NoCall ELSE call[q]
      BY <1>1, <2>1 DEF CallInv
    <3>2. call' \in [Processes -> CallType]
      BY <1>1, <2>1, NoCallOK DEF CallInv
    <3> QED BY <3>1, <3>2, <1>1, NoCallOK DEF CallInv
  <2>3. FifoInv(fifo') /\ WriteNotified(fifo') /\ (ReadNotified(fifo) <=> ReadNotified(fifo'))
    BY <1>1, <2>1, StoredInv DEF WriteNotified, ReadNotified
  <2>4. NoCall.st # "waiting"
    BY DEF NoCall
  <2>5. NoLostWakeup'
    BY <1>1, <1>3, <2>1, <2>2, <2>3, <2>4, WakeupKept
  <2> QED BY <2>1, <2>2, <2>3, <2>5 DEF IInv
<1> QED BY <1>2, <1>3

\* What a get that does not wait does to the fifo and to who waits for it.
LEMMA TakenIInv ==
  ASSUME IInv, ~is_empty(fifo), fifo' = Taken(fifo),
         out' = <<read_data(fifo.buffer)>>, widened' = widened, CallInv(call'),
         \A q \in Processes : call'[q] = call[q] \/ call'[q].st # "waiting"
  PROVE  IInv'
<1>1. FifoInv(fifo) /\ NoLostWakeup
  BY DEF IInv
<1>2. FifoInv(fifo') /\ ReadNotified(fifo') /\ (WriteNotified(fifo) <=> WriteNotified(fifo'))
  BY <1>1, TakenInv DEF ReadNotified, WriteNotified
<1>3. read_data(fifo.buffer) \in Items
  BY <1>1, TakenInv, ReadInv DEF FifoInv, FifoCounts
<1>4. NoLostWakeup'
  BY <1>1, <1>2, WakeupKept
<1>5. out' \in Seq(Items)
  BY <1>3
<1> QED BY <1>2, <1>4, <1>5 DEF IInv

LEMMA GetOrWaitIInv ==
  ASSUME IInv, NEW p \in Consumers, NEW op \in {"get", "peek"}, GetOrWait(p, op)
  PROVE  IInv'
<1>1. p \in Processes /\ FifoInv(fifo) /\ CallInv(call) /\ NoLostWakeup
  BY DEF Processes, IInv
<1>2. CASE is_empty(fifo)
  <2> DEFINE v == [op |-> op, item |-> Hole, st |-> "waiting"]
  <2>1. call' = [call EXCEPT ![p] = v] /\ fifo' = fifo /\ out' = out /\ widened' = widened
    BY <1>2 DEF GetOrWait
  <2>3. v.op # "put" /\ v \in CallType /\ CallOK(p, v)
    BY FifoAssumption DEF CallType, CallOK
  <2> HIDE DEF v
  <2>2. CallInv(call') /\ \A q \in Processes : call'[q] = IF q = p THEN v ELSE call[q]
    <3>1. \A q \in Processes : call'[q] = IF q = p THEN v ELSE call[q]
      BY <1>1, <2>1 DEF CallInv
    <3>2. call' \in [Processes -> CallType]
      BY <1>1, <2>1, <2>3 DEF CallInv
    <3> QED BY <3>1, <3>2, <1>1, <2>3 DEF CallInv
  <2>4. NoLostWakeup'
    BY <1>1, <1>2, <2>1, <2>2, <2>3, WakeupKept
  <2> QED BY <1>1, <2>1, <2>2, <2>4 DEF IInv
<1>3. CASE ~ is_empty(fifo)
  <2>1. call' = [call EXCEPT ![p] = NoCall] /\ widened' = widened
    BY <1>3 DEF GetOrWait
  <2>2. CallInv(call') /\ \A q \in Processes : call'[q] = IF q = p THEN NoCall ELSE call[q]
    <3>1. \A q \in Processes : call'[q] = IF q = p THEN NoCall ELSE call[q]
      BY <1>1, <2>1 DEF CallInv
    <3>2. call' \in [Processes -> CallType]
      BY <1>1, <2>1, NoCallOK DEF CallInv
    <3> QED BY <3>1, <3>2, <1>1, NoCallOK DEF CallInv
  <2>3. NoCall.st # "waiting"
    BY DEF NoCall
  <2>4. CASE op = "get"
    <3>1. fifo' = Taken(fifo) /\ out' = <<read_data(fifo.buffer)>>
      BY <1>3, <2>4 DEF GetOrWait
    <3> QED BY <1>3, <2>1, <2>2, <2>3, <3>1, TakenIInv
  <2>5. CASE op # "get"
    <3>1. fifo' = fifo /\ out' = out
      BY <1>3, <2>5 DEF GetOrWait
    <3>2. NoLostWakeup'
      BY <1>1, <2>1, <2>2, <2>3, <3>1, WakeupKept
    <3> QED BY <1>1, <2>1, <2>2, <3>1, <3>2 DEF IInv
  <2> QED BY <2>4, <2>5
<1> QED BY <1>2, <1>3

LEMMA DeltaIInv ==
  ASSUME IInv, Delta
  PROVE  IInv'
<1>1. FifoInv(fifo) /\ CallInv(call) /\ NoLostWakeup /\ widened \in BOOLEAN
  BY DEF IInv
<1>2. /\ fifo' = Updated(fifo) /\ out' = out
      /\ call' = [p \in Processes |->
                   IF call[p].st = "waiting" /\ Wakes(p) THEN [call[p] EXCEPT !.st = "woken"]
                                                         ELSE call[p]]
      /\ widened' = (widened /\ ~ReadNotified(fifo))
  BY DEF Delta
<1>3. FifoInv(fifo') /\ widened' \in BOOLEAN
  BY <1>1, <1>2, UpdatedInv
<1>4. ASSUME NEW p \in Processes
      PROVE  /\ call'[p] \in CallType
             /\ call'[p].op = call[p].op /\ call'[p].item = call[p].item
             /\ call'[p].st # "none" => call[p].st # "none"
             /\ call'[p].st = "waiting" => call[p].st = "waiting" /\ ~Wakes(p)
  <2>1. call[p] \in CallType
    BY <1>1 DEF CallInv
  <2>2. call'[p] = IF call[p].st = "waiting" /\ Wakes(p) THEN [call[p] EXCEPT !.st = "woken"]
                                                         ELSE call[p]
    BY <1>2
  <2>3. CASE call[p].st = "waiting" /\ Wakes(p)
    BY <2>1, <2>2, <2>3 DEF CallType
  <2>4. CASE ~(call[p].st = "waiting" /\ Wakes(p))
    BY <2>1, <2>2, <2>4 DEF CallType
  <2> QED BY <2>3, <2>4
<1>5. CallInv(call')
  <2>1. call' \in [Processes -> CallType]
    BY <1>2, <1>4
  <2> QED BY <2>1, <1>1, <1>4 DEF CallInv, CallOK
<1>6. ASSUME NEW p \in Processes, call'[p].st = "waiting"
      PROVE  IF call'[p].op = "put" THEN is_full(fifo') \/ widened' ELSE is_empty(fifo')
  <2>1. call[p].st = "waiting" /\ ~Wakes(p) /\ call'[p].op = call[p].op
    BY <1>4, <1>6
  <2>2. CASE call[p].op = "put"
    <3>1. p \in Producers
      <4>1. p \in Consumers => call[p].op \in {"none", "get", "peek"}
        BY <1>1 DEF CallInv, CallOK
      <4> QED BY <4>1, <2>2 DEF Processes
    <3>2. ~ReadNotified(fifo)
      BY <2>1, <3>1 DEF Wakes
    <3>3. is_full(fifo) \/ widened
      BY <1>1, <2>1, <2>2, <3>2 DEF NoLostWakeup
    <3>4. fifo.read = 0
      BY <3>2, <1>1 DEF ReadNotified, FifoInv, FifoCounts
    <3>5. is_full(fifo) => is_full(fifo')
      BY <3>4, <1>1, <1>2, UpdatedInv
    <3> QED BY <2>1, <2>2, <3>2, <3>3, <3>5, <1>2
  <2>3. CASE call[p].op # "put"
    <3>1. p \in Consumers
      <4>1. /\ p \in Producers => call[p].op \in {"none", "put"}
            /\ call[p].st # "none" => call[p].op # "none"
        BY <1>1 DEF CallInv, CallOK
      <4> QED BY <4>1, <2>1, <2>3 DEF Processes
    <3>2. ~WriteNotified(fifo)
      BY <2>1, <3>1 DEF Wakes
    <3>3. is_empty(fifo)
      BY <1>1, <2>1, <2>3, <3>2 DEF NoLostWakeup
    <3>4. fifo.written = 0
      BY <3>2, <1>1 DEF WriteNotified, FifoInv, FifoCounts
    <3>5. is_empty(fifo')
      BY <3>3, <3>4, <1>1, <1>2, UpdatedInv
    <3> QED BY <2>1, <2>3, <3>5
  <2> QED BY <2>2, <2>3
<1>7. NoLostWakeup'
  BY <1>6 DEF NoLostWakeup
<1> QED BY <1>2, <1>3, <1>5, <1>7 DEF IInv

LEMMA NextIInv == IInv /\ [Next]_vars => IInv'
<1> SUFFICES ASSUME IInv, [Next]_vars PROVE IInv'
  OBVIOUS
<1>1. FifoInv(fifo) /\ CallInv(call) /\ NoLostWakeup /\ out \in Seq(Items) /\ widened \in BOOLEAN
  BY DEF IInv
<1>2. ASSUME NEW p \in Producers, Put(p) PROVE IInv'
  BY <1>2, PutOrWaitIInv DEF Put
<1>3. ASSUME NEW p \in Producers, PutAgain(p) PROVE IInv'
  <2>1. call[p].item \in Items
    BY <1>1, <1>3 DEF PutAgain, CallInv, CallOK, Processes
  <2> QED BY <2>1, <1>3, PutOrWaitIInv DEF PutAgain
<1>4. ASSUME NEW p \in Consumers, Get(p) PROVE IInv'
  BY <1>4, GetOrWaitIInv DEF Get
<1>5. ASSUME NEW p \in Consumers, GetAgain(p) PROVE IInv'
  <2>1. call[p].op \in {"get", "peek"} /\ GetOrWait(p, call[p].op)
    BY <1>5 DEF GetAgain
  <2> QED BY <2>1, GetOrWaitIInv
<1>6. CASE NbPut
  <2>1. PICK t \in Items : fifo' = Stored(fifo, t)
    BY <1>6 DEF NbPut
  <2>2. call' = call /\ out' = out /\ widened' = widened /\ ~is_full(fifo)
    BY <1>6 DEF NbPut
  <2>3. FifoInv(fifo') /\ WriteNotified(fifo') /\ (ReadNotified(fifo) <=> ReadNotified(fifo'))
    BY <1>1, <2>1, StoredInv DEF WriteNotified, ReadNotified
  <2>4. NoLostWakeup'
    BY <1>1, <2>2, <2>3, WakeupKept
  <2> QED BY <1>1, <2>2, <2>3, <2>4 DEF IInv
<1>7. CASE NbGet
  BY <1>1, <1>7, TakenIInv DEF NbGet
<1>8. CASE NbPoke
  <2>1. PICK t \in Items, n \in 0 .. (used(fifo) - 1) : fifo' = Poked(fifo, n, t)
    BY <1>8 DEF NbPoke
  <2>2. call' = call /\ out' = out /\ widened' = widened
    BY <1>8 DEF NbPoke
  <2>3. n \in Nat
    BY <1>1 DEF FifoInv, FifoCounts, used
  <2>4. /\ FifoInv(fifo') /\ fifo'.size = fifo.size /\ fifo'.readable = fifo.readable
        /\ fifo'.read = fifo.read /\ fifo'.written = fifo.written /\ fifo'.expand = fifo.expand
    BY <1>1, <2>1, <2>3, PokedInv
  <2>5. NoLostWakeup'
    BY <1>1, <2>2, <2>4, WakeupKept DEF is_full, is_empty, used, ReadNotified, WriteNotified
  <2> QED BY <1>1, <2>2, <2>4, <2>5 DEF IInv
<1>9. CASE NbExpand
  <2>1. PICK n \in Steps : fifo' = Expanded(fifo, n)
    BY <1>9 DEF NbExpand
  <2>2. call' = call /\ out' = out /\ widened' = widened /\ n \in Nat
    BY <1>9, FifoAssumption DEF NbExpand
  <2>3. /\ FifoInv(fifo') /\ (fifo' = fifo \/ fifo'.expand) /\ fifo'.readable = fifo.readable
        /\ fifo'.read = fifo.read /\ fifo'.written = fifo.written
    BY <1>1, <2>1, <2>2, ExpandedInv
  <2>4. NoLostWakeup'
    BY <1>1, <2>2, <2>3, WakeupKept DEF is_empty, used, ReadNotified, WriteNotified
  <2> QED BY <1>1, <2>2, <2>3, <2>4 DEF IInv
<1>10. CASE NbUnbound
  <2>1. PICK n \in Steps : fifo' = Unbounded(fifo, n)
    BY <1>10 DEF NbUnbound
  <2>2. call' = call /\ out' = out /\ widened' = widened /\ n \in Nat \ {0}
    BY <1>10, FifoAssumption DEF NbUnbound
  <2>3. /\ FifoInv(fifo') /\ fifo'.expand /\ fifo'.readable = fifo.readable
        /\ fifo'.read = fifo.read /\ fifo'.written = fifo.written
    BY <1>1, <2>1, <2>2, UnboundedInv
  <2>4. NoLostWakeup'
    BY <1>1, <2>2, <2>3, WakeupKept DEF is_empty, used, ReadNotified, WriteNotified
  <2> QED BY <1>1, <2>2, <2>3, <2>4 DEF IInv
<1>11. CASE NbReduce
  <2>1. PICK n \in Steps : fifo' = Reduced(fifo, n)
    BY <1>11 DEF NbReduce
  <2>2. call' = call /\ out' = out /\ widened' = widened /\ n \in Nat
    BY <1>11, FifoAssumption DEF NbReduce
  <2>3. /\ FifoInv(fifo') /\ fifo'.readable = fifo.readable /\ fifo'.read = fifo.read
        /\ fifo'.written = fifo.written /\ fifo'.expand = fifo.expand
        /\ is_full(fifo) => is_full(fifo')
    BY <1>1, <2>1, <2>2, ReducedInv
  <2>4. NoLostWakeup'
    BY <1>1, <2>2, <2>3, WakeupKept DEF is_empty, used, ReadNotified, WriteNotified
  <2> QED BY <1>1, <2>2, <2>3, <2>4 DEF IInv
<1>12. CASE NbBound
  <2>1. PICK n \in Steps : fifo' = Bounded(fifo, n)
    BY <1>12 DEF NbBound
  <2>2. /\ call' = call /\ out' = out /\ n \in Int
        /\ widened' = (widened \/ (is_full(fifo) /\ ~is_full(fifo')))
    BY <1>12, FifoAssumption DEF NbBound
  <2>3. /\ FifoInv(fifo') /\ fifo'.readable = fifo.readable /\ fifo'.read = fifo.read
        /\ fifo'.written = fifo.written /\ fifo'.expand = fifo.expand
    BY <1>1, <2>1, <2>2, BoundedInv
  <2>4. (ReadNotified(fifo) <=> ReadNotified(fifo')) /\ (WriteNotified(fifo) <=> WriteNotified(fifo'))
        /\ (is_empty(fifo) <=> is_empty(fifo'))
    BY <2>3 DEF is_empty, used, ReadNotified, WriteNotified
  <2>5. NoLostWakeup'
    BY <1>1, <2>2, <2>4, WakeupKept
  <2> QED BY <1>1, <2>2, <2>3, <2>5 DEF IInv
<1>13. CASE Delta
  BY <1>13, DeltaIInv
<1>14. CASE UNCHANGED vars
  BY <1>1, <1>14 DEF vars, IInv, NoLostWakeup
<1> QED BY <1>2, <1>3, <1>4, <1>5, <1>6, <1>7, <1>8, <1>9, <1>10, <1>11, <1>12, <1>13, <1>14
        DEF Next

-----------------------------------------------------------------------------
(* The theorems *)

THEOREM Invariance == Spec => []IInv
BY InitIInv, NextIInv, PTL DEF Spec

\* Type correctness, for all sizes and any number of processes.
THEOREM TypeCorrect == Spec => []TypeOK
<1>1. IInv => TypeOK
  <2> SUFFICES ASSUME IInv PROVE TypeOK
    OBVIOUS
  <2>1. FifoInv(fifo) /\ CallInv(call) /\ out \in Seq(Items) /\ widened \in BOOLEAN
    BY DEF IInv
  <2> QED BY <2>1 DEF TypeOK, FifoInv, FifoCounts, FifoFlags, BufferInv, CallInv, CallType
<1> QED BY <1>1, Invariance, PTL

\* The counts of the fifo and those of its ring always agree: no call, in whatever order
\* within a delta cycle, loses, repeats or overwrites an element.
THEOREM CountsCorrect == Spec => []CountsAgree
<1>1. IInv => CountsAgree
  BY DEF IInv, FifoInv, FifoCounts, FifoFlags, BufferInv, CountsAgree
<1> QED BY <1>1, Invariance, PTL

\* No process waits for an event that has no reason left to come.
THEOREM WakeupsCorrect == Spec => []NoLostWakeup
<1>1. IInv => NoLostWakeup
  BY DEF IInv
<1> QED BY <1>1, Invariance, PTL

\* Every step of the fifo is a step of the queue of its contents, or none.
THEOREM Refinement == Spec => ImplementsQueue
<1>1. Init => Queue!Init
  <2> SUFFICES ASSUME Init PROVE Queue!Init
    OBVIOUS
  <2>1. PICK n \in Sizes : fifo = NewFifo(n)
    BY DEF Init
  <2>2. n \in Int
    BY FifoAssumption
  <2>3. Contents(fifo.buffer) = <<>>
    BY <2>1, <2>2, NewFifoInv
  <2> QED BY <2>3 DEF Init, Queue!Init
<1>2. IInv /\ [Next]_vars => [Queue!Next]_<<Contents(fifo.buffer), out>>
  <2> SUFFICES ASSUME IInv, [Next]_vars
               PROVE  Queue!Next \/ UNCHANGED <<Contents(fifo.buffer), out>>
    OBVIOUS
  <2>1. FifoInv(fifo) /\ CallInv(call) /\ BufferInv(fifo.buffer)
    BY DEF IInv, FifoInv, FifoCounts
  <2>2. ASSUME NEW t \in Items, fifo' = Stored(fifo, t), out' = out PROVE Queue!Next
    BY <2>1, <2>2, StoredInv DEF Queue!Next, Queue!Put
  <2>3. ASSUME fifo' = Taken(fifo), ~is_empty(fifo), out' = <<read_data(fifo.buffer)>>
        PROVE  Queue!Next
    <3>1. fifo.buffer.used > 0 /\ fifo'.buffer = read(fifo.buffer)
      BY <2>1, <2>3, TakenInv DEF Taken, FifoInv, FifoCounts, Members
    <3> QED BY <3>1, <2>1, <2>3, ContentsRead DEF Queue!Next, Queue!Get
  <2>4. ASSUME NEW p \in Producers, NEW t \in Items, PutOrWait(p, t)
        PROVE  Queue!Next \/ UNCHANGED <<Contents(fifo.buffer), out>>
    BY <2>2, <2>4 DEF PutOrWait
  <2>5. ASSUME NEW p \in Consumers, NEW op \in {"get", "peek"}, GetOrWait(p, op)
        PROVE  Queue!Next \/ UNCHANGED <<Contents(fifo.buffer), out>>
    BY <2>3, <2>5 DEF GetOrWait
  <2>6. ASSUME NEW p \in Producers, Put(p) \/ PutAgain(p)
        PROVE  Queue!Next \/ UNCHANGED <<Contents(fifo.buffer), out>>
    <3>1. CASE Put(p)
      BY <3>1, <2>4 DEF Put
    <3>2. CASE PutAgain(p)
      <4>1. call[p].item \in Items
        BY <2>1, <3>2 DEF PutAgain, CallInv, CallOK, Processes
      <4> QED BY <4>1, <3>2, <2>4 DEF PutAgain
    <3> QED BY <2>6, <3>1, <3>2
  <2>7. ASSUME NEW p \in Consumers, Get(p) \/ GetAgain(p)
        PROVE  Queue!Next \/ UNCHANGED <<Contents(fifo.buffer), out>>
    <3>1. PICK op \in {"get", "peek"} : GetOrWait(p, op)
      BY <2>7 DEF Get, GetAgain
    <3> QED BY <3>1, <2>5
  <2>8. ASSUME NbPut PROVE Queue!Next
    BY <2>2, <2>8 DEF NbPut
  <2>9. ASSUME NbGet PROVE Queue!Next
    BY <2>3, <2>9 DEF NbGet
  <2>10. ASSUME NbPoke PROVE Queue!Next \/ UNCHANGED <<Contents(fifo.buffer), out>>
    <3>1. PICK t \in Items, n \in 0 .. (used(fifo) - 1) : fifo' = Poked(fifo, n, t)
      BY <2>10 DEF NbPoke
    <3>2. n \in Nat
      BY <2>1 DEF FifoInv, FifoCounts, used
    <3>3. fifo'.buffer = poke(fifo.buffer, n, t) /\ out' = out
      BY <2>1, <2>10, <3>1, <3>2, PokedInv DEF NbPoke
    <3>4. \/ Contents(fifo'.buffer) = Contents(fifo.buffer)
          \/ \E i \in DOMAIN Contents(fifo.buffer) :
               Contents(fifo'.buffer) = [Contents(fifo.buffer) EXCEPT ![i] = t]
      BY <2>1, <3>2, <3>3, ContentsPoke
    <3> QED BY <3>3, <3>4 DEF Queue!Next, Queue!Poke
  <2>11. ASSUME NbExpand \/ NbUnbound \/ NbReduce \/ NbBound \/ Delta
         PROVE  UNCHANGED <<Contents(fifo.buffer), out>>
    <3>1. CASE NbExpand
      BY <3>1, <2>1, ExpandedInv, FifoAssumption DEF NbExpand
    <3>2. CASE NbUnbound
      BY <3>2, <2>1, UnboundedInv, FifoAssumption DEF NbUnbound
    <3>3. CASE NbReduce
      BY <3>3, <2>1, ReducedInv, FifoAssumption DEF NbReduce
    <3>4. CASE NbBound
      BY <3>4, <2>1, BoundedInv, FifoAssumption DEF NbBound
    <3>5. CASE Delta
      BY <3>5, <2>1, UpdatedInv DEF Delta
    <3> QED BY <2>11, <3>1, <3>2, <3>3, <3>4, <3>5
  <2>12. CASE UNCHANGED vars
    BY <2>12 DEF vars
  <2> QED BY <2>6, <2>7, <2>8, <2>9, <2>10, <2>11, <2>12 DEF Next
<1> QED BY <1>1, <1>2, Invariance, PTL DEF Spec, ImplementsQueue, Queue!Spec
=============================================================================
