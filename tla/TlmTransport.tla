------------------------------ MODULE TlmTransport ------------------------------
(***************************************************************************)
(* A tlm_transport_channel (tlm_req_rsp_channels.h): clients call          *)
(* transport, which puts a request into one fifo and gets the response     *)
(* from another, both of size 1; a slave gets the requests and puts the    *)
(* responses.  The processes do not preempt each other: one runs until it  *)
(* waits (the scheduler and the mutex of SystemC, both external).  A       *)
(* request is the pair of its client and the number of its call, and so is *)
(* the response to it.                                                     *)
(***************************************************************************)
EXTENDS TlmFifoOps, Sequences

CONSTANTS
  Clients,      \* the processes that call transport
  Slave,        \* the process that answers
  NoOne,        \* no process
  MaxCalls      \* bound: calls by a client

ASSUME TransportAssumption ==
  /\ Items = Clients \X (1 .. MaxCalls)
  /\ Slave \notin Clients /\ NoOne \notin Clients \cup {Slave}
  /\ Hole \notin Items /\ MaxCalls \in Nat

VARIABLES
  request_fifo, response_fifo,
  in_use,       \* the mutex is locked
  rsp,          \* the member of the adapter
  pc,           \* pc[p]: the call in which process p is
  waiting,      \* waiting[p]: process p waits for the event of that call
  running,      \* the process that runs, if one does
  calls,        \* calls[c]: how often client c has called
  result,       \* result[c]: what transport has returned to client c last
  taken         \* the request that the slave works on

vars == <<request_fifo, response_fifo, in_use, rsp, pc, waiting, running, calls, result, taken>>

Processes == Clients \cup {Slave}

Init ==
  /\ request_fifo = NewFifo(1) /\ response_fifo = NewFifo(1)
  /\ in_use = FALSE /\ rsp = Hole
  /\ pc = [p \in Processes |-> IF p = Slave THEN "get" ELSE "idle"]
  /\ waiting = [p \in Processes |-> FALSE]
  /\ running = NoOne
  /\ calls = [c \in Clients |-> 0] /\ result = [c \in Clients |-> Hole]
  /\ taken = Hole

-----------------------------------------------------------------------------
\* Process p has the processor, or can be given it, in the call s.
Turn(p, s) == pc[p] = s /\ ~waiting[p] /\ running \in {p, NoOne}

\* It goes on with the call s, or waits.
GoOn(p, s) == pc' = [pc EXCEPT ![p] = s] /\ running' = p /\ UNCHANGED waiting
Wait(p) == waiting' = [waiting EXCEPT ![p] = TRUE] /\ running' = NoOne /\ UNCHANGED pc

Call(c) ==
  /\ Turn(c, "idle") /\ calls[c] < MaxCalls
  /\ calls' = [calls EXCEPT ![c] = calls[c] + 1]
  /\ GoOn(c, "lock")
  /\ UNCHANGED <<request_fifo, response_fifo, in_use, rsp, result, taken>>

\* Faulty Lock: transport does not lock.
LockNot(c) ==
  /\ Turn(c, "lock") /\ GoOn(c, "put")
  /\ UNCHANGED <<request_fifo, response_fifo, in_use, rsp, calls, result, taken>>

Lock(c) ==
  /\ Turn(c, "lock")
  /\ IF in_use THEN Wait(c) /\ UNCHANGED in_use ELSE GoOn(c, "put") /\ in_use' = TRUE
  /\ UNCHANGED <<request_fifo, response_fifo, rsp, calls, result, taken>>

PutRequest(c) ==
  /\ Turn(c, "put")
  /\ IF is_full(request_fifo)
     THEN Wait(c) /\ UNCHANGED request_fifo
     ELSE GoOn(c, "get") /\ request_fifo' = Stored(request_fifo, <<c, calls[c]>>)
  /\ UNCHANGED <<response_fifo, in_use, rsp, calls, result, taken>>

GetResponse(c) ==
  /\ Turn(c, "get")
  /\ IF is_empty(response_fifo)
     THEN Wait(c) /\ UNCHANGED <<response_fifo, rsp>>
     ELSE /\ GoOn(c, "unlock")
          /\ response_fifo' = Taken(response_fifo)
          /\ rsp' = read_data(response_fifo.buffer)
  /\ UNCHANGED <<request_fifo, in_use, calls, result, taken>>

\* Faulty Unlock: transport keeps the mutex.
UnlockForgotten(c) ==
  /\ Turn(c, "unlock") /\ GoOn(c, "return")
  /\ UNCHANGED <<request_fifo, response_fifo, in_use, rsp, calls, result, taken>>

\* The processes that wait for the mutex can run as soon as this one waits.
Unlock(c) ==
  /\ Turn(c, "unlock")
  /\ in_use' = FALSE
  /\ waiting' = [p \in Processes |-> waiting[p] /\ pc[p] # "lock"]
  /\ pc' = [pc EXCEPT ![c] = "return"] /\ running' = c
  /\ UNCHANGED <<request_fifo, response_fifo, rsp, calls, result, taken>>

\* The client has the response; it may call again before it waits.
Return(c) ==
  /\ Turn(c, "return")
  /\ result' = [result EXCEPT ![c] = rsp]
  /\ pc' = [pc EXCEPT ![c] = "idle"]
  /\ running' \in IF calls[c] < MaxCalls THEN {c, NoOne} ELSE {NoOne}
  /\ UNCHANGED <<request_fifo, response_fifo, in_use, rsp, waiting, calls, taken>>

\* The slave may work on the request at once or let others run meanwhile.
SlaveGet ==
  /\ Turn(Slave, "get")
  /\ IF is_empty(request_fifo)
     THEN Wait(Slave) /\ UNCHANGED <<request_fifo, taken>>
     ELSE /\ request_fifo' = Taken(request_fifo)
          /\ taken' = read_data(request_fifo.buffer)
          /\ pc' = [pc EXCEPT ![Slave] = "put"] /\ running' \in {Slave, NoOne}
          /\ UNCHANGED waiting
  /\ UNCHANGED <<response_fifo, in_use, rsp, calls, result>>

SlavePut ==
  /\ Turn(Slave, "put")
  /\ IF is_full(response_fifo)
     THEN Wait(Slave) /\ UNCHANGED <<response_fifo, taken>>
     ELSE /\ response_fifo' = Stored(response_fifo, taken)
          /\ taken' = Hole
          /\ GoOn(Slave, "get")
  /\ UNCHANGED <<request_fifo, in_use, rsp, calls, result>>

\* The event for which process p waits is notified with the update.
Wakes(p) ==
  \/ p = Slave /\ pc[p] = "get" /\ WriteNotified(request_fifo)
  \/ p = Slave /\ pc[p] = "put" /\ ReadNotified(response_fifo)
  \/ p \in Clients /\ pc[p] = "put" /\ ReadNotified(request_fifo)
  \/ p \in Clients /\ pc[p] = "get" /\ WriteNotified(response_fifo)

\* The end of a delta cycle: whoever can run has run, but for a slave that takes its time.
Delta ==
  /\ running = NoOne /\ (request_fifo.requested \/ response_fifo.requested)
  /\ \A c \in Clients : waiting[c] \/ pc[c] = "idle"
  /\ waiting[Slave] \/ pc[Slave] = "put"
  /\ request_fifo' = IF request_fifo.requested THEN Updated(request_fifo) ELSE request_fifo
  /\ response_fifo' = IF response_fifo.requested THEN Updated(response_fifo) ELSE response_fifo
  /\ waiting' = [p \in Processes |-> waiting[p] /\ ~Wakes(p)]
  /\ UNCHANGED <<in_use, rsp, pc, running, calls, result, taken>>

InTransport(c) == Lock(c) \/ PutRequest(c) \/ GetResponse(c) \/ Unlock(c) \/ Return(c)

Next ==
  \/ \E c \in Clients : Call(c) \/ InTransport(c)
  \/ SlaveGet \/ SlavePut
  \/ Delta

\* The scheduler runs every process that can run, and the slave answers.
Fairness ==
  /\ \A c \in Clients : WF_vars(InTransport(c)) /\ WF_vars(running = c /\ Call(c))
  /\ WF_vars(SlaveGet) /\ WF_vars(SlavePut) /\ WF_vars(Delta)

Spec == Init /\ [][Next]_vars /\ Fairness

-----------------------------------------------------------------------------
(***************************************************************************)
(* Properties                                                              *)
(***************************************************************************)

\* The types of the variables.
TypeOK ==
  /\ \A f \in {request_fifo, response_fifo} :
       /\ f.buffer.used \in 0 .. f.buffer.size /\ f.readable \in Nat /\ used(f) \in Nat
       /\ f.buffer.slot \in [0 .. (f.buffer.size - 1) -> Items \cup {Hole}]
  /\ in_use \in BOOLEAN /\ rsp \in Items \cup {Hole} /\ taken \in Items \cup {Hole}
  /\ pc \in [Processes -> {"idle", "lock", "put", "get", "unlock", "return"}]
  /\ waiting \in [Processes -> BOOLEAN] /\ running \in Processes \cup {NoOne}
  /\ calls \in [Clients -> 0 .. MaxCalls] /\ result \in [Clients -> Items \cup {Hole}]

\* A client is given the response to its own request, although all of them pass through
\* one member of the adapter and two fifos.
RightResponse ==
  \A c \in Clients :
    pc[c] = "idle" /\ calls[c] > 0 => result[c] = <<c, calls[c]>>

\* While a client is between its put and its get, its request or the response to it is in
\* one place only, and no one else's is anywhere: the fifos of size 1 are never full
\* for who puts into them.
OneInFlight ==
  LET inside == request_fifo.buffer.used + response_fifo.buffer.used
                + (IF taken = Hole THEN 0 ELSE 1)
  IN /\ inside = IF \E c \in Clients : pc[c] = "get" THEN 1 ELSE 0
     /\ \A p \in Processes : pc[p] = "put" => ~waiting[p]

\* Every call returns.  (A client that calls for ever may keep another from the mutex,
\* which is given to whoever asks first: the calls are bounded.)
Answered == \A c \in Clients : pc[c] # "idle" ~> pc[c] = "idle"
=============================================================================
