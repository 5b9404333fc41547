-------------------------------- MODULE TlmFifo --------------------------------
(***************************************************************************)
(* A tlm_fifo among the processes that use it.  The processes run one at a *)
(* time, each up to its next wait (the evaluation phase).  When none is    *)
(* left to run, the update of the fifo and the events it has notified      *)
(* begin the next delta cycle (the scheduler of SystemC, external).        *)
(***************************************************************************)
EXTENDS TlmFifoOps, Sequences

CONSTANTS
  Producers,     \* processes that call put
  Consumers,     \* processes that call get and peek
  Sizes,         \* the sizes with which the fifo is constructed
  Steps,         \* the numbers with which the resize interface is called
  MaxItems,      \* bound: elements in the fifo at a call of put or nb_put
  MaxSize        \* bound: the size a fifo grows to

ASSUME FifoAssumption ==
  /\ Hole \notin Items
  /\ Producers \cap Consumers = {}
  /\ Sizes \subseteq Int /\ Steps \subseteq Nat \ {0}
  /\ MaxItems \in Nat /\ MaxSize \in Nat

VARIABLES
  fifo,          \* the members of the fifo
  call,          \* call[p]: what process p is in: [op, item, st], where st is "none",
                 \*   "waiting" for an event or "woken" by it
  out,           \* the element that came out last
  widened        \* nb_bound has made room that no waiting producer was told of

vars == <<fifo, call, out, widened>>

NoCall == [op |-> "none", item |-> Hole, st |-> "none"]
Processes == Producers \cup Consumers

-----------------------------------------------------------------------------
Init ==
  /\ \E n \in Sizes : fifo = NewFifo(n)
  /\ call = [p \in Processes |-> NoCall]
  /\ out = <<>>
  /\ widened = FALSE

\* The loop of put by process p: it puts t, or waits (again) for a read.
PutOrWait(p, t) ==
  /\ IF is_full(fifo)
     THEN call' = [call EXCEPT ![p] = [op |-> "put", item |-> t, st |-> "waiting"]] /\ UNCHANGED fifo
     ELSE fifo' = Stored(fifo, t) /\ call' = [call EXCEPT ![p] = NoCall]
  /\ UNCHANGED <<out, widened>>

Put(p) ==
  /\ call[p] = NoCall /\ fifo.buffer.used < MaxItems
  /\ \E t \in Items : PutOrWait(p, t)

PutAgain(p) == call[p].op = "put" /\ call[p].st = "woken" /\ PutOrWait(p, call[p].item)

\* The loops of get and peek: get takes the element, peek only looks at it.
GetOrWait(p, op) ==
  /\ IF is_empty(fifo)
     THEN /\ call' = [call EXCEPT ![p] = [op |-> op, item |-> Hole, st |-> "waiting"]]
          /\ UNCHANGED <<fifo, out>>
     ELSE /\ call' = [call EXCEPT ![p] = NoCall]
          /\ IF op = "get" THEN fifo' = Taken(fifo) /\ out' = <<read_data(fifo.buffer)>>
             ELSE UNCHANGED <<fifo, out>>
  /\ UNCHANGED widened

Get(p) == call[p] = NoCall /\ \E op \in {"get", "peek"} : GetOrWait(p, op)

GetAgain(p) == call[p].op \in {"get", "peek"} /\ call[p].st = "woken" /\ GetOrWait(p, call[p].op)

\* The calls that do not wait, by a process that is in no other.
NbPut ==
  /\ ~is_full(fifo) /\ fifo.buffer.used < MaxItems
  /\ \E t \in Items : fifo' = Stored(fifo, t)
  /\ UNCHANGED <<call, out, widened>>

NbGet ==
  /\ ~is_empty(fifo)
  /\ fifo' = Taken(fifo)
  /\ out' = <<read_data(fifo.buffer)>>
  /\ UNCHANGED <<call, widened>>

NbPoke ==
  /\ \E t \in Items, n \in 0 .. (used(fifo) - 1) : fifo' = Poked(fifo, n, t)
  /\ UNCHANGED <<call, out, widened>>

NbExpand ==
  /\ \E n \in Steps : fifo.size + n <= MaxSize /\ fifo' = Expanded(fifo, n)
  /\ UNCHANGED <<call, out, widened>>

NbUnbound ==
  /\ \E n \in Steps : n <= MaxSize /\ fifo' = Unbounded(fifo, n)
  /\ UNCHANGED <<call, out, widened>>

NbReduce ==
  /\ \E n \in Steps : fifo' = Reduced(fifo, n)
  /\ UNCHANGED <<call, out, widened>>

NbBound ==
  /\ \E n \in Steps : n <= MaxSize /\ fifo' = Bounded(fifo, n)
  /\ widened' = (widened \/ (is_full(fifo) /\ ~is_full(fifo')))
  /\ UNCHANGED <<call, out>>

\* Faulty Wakes: a read wakes no producer, only a longer fifo does.
WakesExpanded(p) ==
  \/ p \in Producers /\ fifo.expand
  \/ p \in Consumers /\ WriteNotified(fifo)

\* The event that process p waits for is notified.
Wakes(p) ==
  \/ p \in Producers /\ ReadNotified(fifo)
  \/ p \in Consumers /\ WriteNotified(fifo)

\* The end of a delta cycle: the update, then the notifications, before any process runs.
Delta ==
  /\ fifo.requested
  /\ \A p \in Processes : call[p].st # "woken"
  /\ fifo' = Updated(fifo)
  /\ call' = [p \in Processes |->
               IF call[p].st = "waiting" /\ Wakes(p) THEN [call[p] EXCEPT !.st = "woken"]
                                                     ELSE call[p]]
  /\ widened' = (widened /\ ~ReadNotified(fifo))
  /\ UNCHANGED out

Next ==
  \/ \E p \in Producers : Put(p) \/ PutAgain(p)
  \/ \E p \in Consumers : Get(p) \/ GetAgain(p)
  \/ NbPut \/ NbGet \/ NbPoke
  \/ NbExpand \/ NbUnbound \/ NbReduce \/ NbBound
  \/ Delta

Spec == Init /\ [][Next]_vars

-----------------------------------------------------------------------------
(***************************************************************************)
(* Properties                                                              *)
(***************************************************************************)

\* The types of the variables.
TypeOK ==
  /\ BufferOK(fifo.buffer)
  /\ fifo.size \in Int
  /\ fifo.readable \in Nat /\ fifo.read \in Nat /\ fifo.written \in Nat
  /\ fifo.expand \in BOOLEAN /\ fifo.requested \in BOOLEAN
  /\ call \in [Processes -> [op : {"none", "put", "get", "peek"}, item : Items \cup {Hole},
                             st : {"none", "waiting", "woken"}]]
  /\ out \in Seq(Items) /\ widened \in BOOLEAN

\* The counts of the fifo and of its buffer agree, however the calls of a delta cycle
\* and the resize interface mix: what is read and written is what the buffer holds,
\* no more is read than was readable, and the next update is requested while
\* anything is left to account for.  The write position is behind the last
\* element, and no element is read after it was destroyed.
CountsAgree ==
  /\ fifo.buffer.used = used(fifo) + fifo.written
  /\ fifo.read <= fifo.readable
  /\ fifo.read > 0 \/ fifo.written > 0 \/ fifo.expand => fifo.requested
  /\ fifo.buffer.wi = Wrap(fifo.buffer.ri + fifo.buffer.used, fifo.buffer.size)
  /\ \A i \in 0 .. (fifo.buffer.used - 1) : peek_data(fifo.buffer, i) \in Items

\* No wakeup is lost: a producer waits only while the fifo is full, or the update that
\* wakes it is due, unless it was nb_bound that made the room; a consumer waits
\* only while nothing is readable, or the update that wakes it is due.
NoLostWakeup ==
  \A p \in Processes :
    call[p].st = "waiting" =>
      IF call[p].op = "put" THEN is_full(fifo) \/ ReadNotified(fifo) \/ widened
                            ELSE is_empty(fifo) \/ WriteNotified(fifo)

\* The fifo is a queue, whatever its sizes and however its ring has been resized.
Queue == INSTANCE FifoQueue WITH queue <- Contents(fifo.buffer)
ImplementsQueue == Queue!Spec
=============================================================================
