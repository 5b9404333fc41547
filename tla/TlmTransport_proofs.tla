-------------------------- MODULE TlmTransport_proofs --------------------------
(***************************************************************************)
(* Proofs about TlmTransport, for any number of clients and calls: every   *)
(* client gets the response to its own request, and no one who puts into a *)
(* fifo of the channel finds it full.                                      *)
(***************************************************************************)
EXTENDS TlmTransport, Operators_proofs

-----------------------------------------------------------------------------
(* A fifo of size 1 in the course of one element *)

Single(f, i, j, k) ==
  /\ FifoInv(f) /\ f.size = 1
  /\ f.readable = i /\ f.read = j /\ f.written = k

\* Nothing inside; an element that is readable after the update; one that is readable; and
\* the fifo from which it was taken, until the update.
Empty(f) == Single(f, 0, 0, 0)
Fresh(f, x) == Single(f, 0, 0, 1) /\ Contents(f.buffer) = <<x>>
Ready(f, x) == Single(f, 1, 0, 0) /\ Contents(f.buffer) = <<x>>
Spent(f) == Single(f, 1, 1, 0)

\* What happens to a fifo at the end of a delta cycle.
AtDelta(f) == IF f.requested THEN Updated(f) ELSE f

LEMMA NewEmpty == Empty(NewFifo(1))
<1>1. FifoInv(NewFifo(1))
  BY NewFifoInv
<1> QED BY <1>1 DEF Empty, Single, NewFifo

LEMMA SingleUsed ==
  ASSUME NEW f, NEW i \in Nat, NEW j \in Nat, NEW k \in Nat, Single(f, i, j, k)
  PROVE  f.buffer.used = i - j + k
BY DEF Single, FifoInv, FifoCounts, used

LEMMA EmptyStored ==
  ASSUME NEW f, Empty(f), NEW x \in Items
  PROVE  ~is_full(f) /\ is_empty(f) /\ Fresh(Stored(f, x), x)
<1>1. FifoInv(f) /\ f.size = 1 /\ f.readable = 0 /\ f.read = 0 /\ f.written = 0
  BY DEF Empty, Single
<1>2. f.buffer.used = 0 /\ BufferInv(f.buffer)
  <2>1. f.buffer.used = 0
    BY SingleUsed DEF Empty, Single
  <2> QED BY <2>1, <1>1 DEF FifoInv, FifoCounts
<1>3. Contents(f.buffer) = <<>>
  <2>1. Len(Contents(f.buffer)) = 0 /\ Contents(f.buffer) \in Seq(Items)
    BY <1>2, ContentsShape
  <2> QED BY <2>1
<1>4. FifoInv(Stored(f, x)) /\ Contents(Stored(f, x).buffer) = <<x>>
  <2>1. Append(<<>>, x) = <<x>>
    OBVIOUS
  <2> QED BY <2>1, <1>1, <1>3, StoredInv
<1>5. /\ Stored(f, x).size = f.size /\ Stored(f, x).readable = f.readable
      /\ Stored(f, x).read = f.read /\ Stored(f, x).written = f.written + 1
  BY <1>1 DEF Stored, FifoInv, FifoCounts, Members
<1> QED BY <1>1, <1>4, <1>5 DEF Fresh, Single, is_full, is_empty, used

LEMMA FreshDelta ==
  ASSUME NEW f, NEW x, Fresh(f, x)
  PROVE  is_empty(f) /\ Ready(AtDelta(f), x)
<1>1. /\ FifoInv(f) /\ f.size = 1 /\ f.readable = 0 /\ f.read = 0 /\ f.written = 1
      /\ Contents(f.buffer) = <<x>> /\ f.buffer.used = 1
  BY SingleUsed DEF Fresh, Single
<1>2. f.requested
  BY <1>1 DEF FifoInv, FifoFlags
<1>3. FifoInv(Updated(f)) /\ Updated(f).buffer = f.buffer
  BY <1>1, UpdatedInv
<1>4. /\ Updated(f).size = f.size /\ Updated(f).readable = f.buffer.used
      /\ Updated(f).read = 0 /\ Updated(f).written = 0
  BY <1>1 DEF Updated, FifoInv, FifoCounts, Members
<1> QED BY <1>1, <1>2, <1>3, <1>4 DEF Ready, Single, AtDelta, is_empty, used

LEMMA ReadyTaken ==
  ASSUME NEW f, NEW x, Ready(f, x)
  PROVE  ~is_empty(f) /\ read_data(f.buffer) = x /\ Spent(Taken(f))
<1>1. /\ FifoInv(f) /\ f.size = 1 /\ f.readable = 1 /\ f.read = 0 /\ f.written = 0
      /\ Contents(f.buffer) = <<x>> /\ f.buffer.used = 1 /\ BufferInv(f.buffer)
  BY SingleUsed DEF Ready, Single, FifoInv, FifoCounts
<1>2. ~is_empty(f)
  BY <1>1 DEF is_empty, used
<1>3. read_data(f.buffer) = x
  <2>1. Head(Contents(f.buffer)) = read_data(f.buffer)
    BY <1>1, ContentsRead
  <2>2. Head(<<x>>) = x
    OBVIOUS
  <2> QED BY <1>1, <2>1, <2>2
<1>4. FifoInv(Taken(f))
  BY <1>1, <1>2, TakenInv
<1>5. /\ Taken(f).size = f.size /\ Taken(f).readable = f.readable
      /\ Taken(f).read = f.read + 1 /\ Taken(f).written = f.written
  BY <1>1 DEF Taken, FifoInv, FifoCounts, Members
<1> QED BY <1>1, <1>2, <1>3, <1>4, <1>5 DEF Spent, Single

LEMMA ReadyDelta ==
  ASSUME NEW f, NEW x, Ready(f, x)
  PROVE  Ready(AtDelta(f), x)
<1>1. /\ FifoInv(f) /\ f.size = 1 /\ f.readable = 1 /\ f.read = 0 /\ f.written = 0
      /\ Contents(f.buffer) = <<x>> /\ f.buffer.used = 1
  BY SingleUsed DEF Ready, Single
<1>2. FifoInv(Updated(f)) /\ Updated(f).buffer = f.buffer
  BY <1>1, UpdatedInv
<1>3. /\ Updated(f).size = f.size /\ Updated(f).readable = f.buffer.used
      /\ Updated(f).read = 0 /\ Updated(f).written = 0
  BY <1>1 DEF Updated, FifoInv, FifoCounts, Members
<1> QED BY <1>1, <1>2, <1>3 DEF Ready, Single, AtDelta

\* After the update nothing is left of what was taken.
LEMMA SpentDelta ==
  ASSUME NEW f, Empty(f) \/ Spent(f)
  PROVE  is_empty(f) /\ Empty(AtDelta(f))
<1>1. /\ FifoInv(f) /\ f.size = 1 /\ f.readable = f.read /\ f.written = 0
      /\ f.buffer.used = 0 /\ f.readable \in Nat
  BY SingleUsed DEF Empty, Spent, Single
<1>2. FifoInv(Updated(f)) /\ Updated(f).buffer = f.buffer
  BY <1>1, UpdatedInv
<1>3. /\ Updated(f).size = f.size /\ Updated(f).readable = f.buffer.used
      /\ Updated(f).read = 0 /\ Updated(f).written = 0
  BY <1>1 DEF Updated, FifoInv, FifoCounts, Members
<1>4. Empty(Updated(f)) /\ is_empty(f)
  BY <1>1, <1>2, <1>3 DEF Empty, Single, is_empty, used
<1>5. ~f.requested => Empty(f)
  BY <1>1 DEF Empty, Spent, Single, FifoInv, FifoFlags
<1> QED BY <1>4, <1>5 DEF AtDelta

-----------------------------------------------------------------------------
(* The inductive invariant *)

Quiet(f) == Empty(f) \/ Spent(f)

\* No request and no response is anywhere.
Resting == Empty(request_fifo) /\ taken = Hole /\ Quiet(response_fifo)

\* Request x, or the response to it, is in one place, and nothing else is anywhere.
InFlight(x) ==
  \/ Fresh(request_fifo, x) /\ taken = Hole /\ Quiet(response_fifo)
  \/ Ready(request_fifo, x) /\ taken = Hole /\ Empty(response_fifo)
  \/ Quiet(request_fifo) /\ taken = x /\ Empty(response_fifo)
  \/ Quiet(request_fifo) /\ taken = Hole /\ Fresh(response_fifo, x)
  \/ Empty(request_fifo) /\ taken = Hole /\ Ready(response_fifo, x)

States == {"idle", "lock", "put", "get", "unlock", "return"}
Types ==
  /\ pc \in [Processes -> States] /\ waiting \in [Processes -> BOOLEAN]
  /\ calls \in [Clients -> 0 .. MaxCalls] /\ DOMAIN result = Clients
  /\ pc[Slave] \in {"get", "put"}
  /\ \A c \in Clients : pc[c] # "idle" => calls[c] >= 1

\* The mutex has one owner.
Owner(c) == pc[c] \in {"put", "get", "unlock"}
Owned ==
  /\ \A c \in Clients : Owner(c) => in_use
  /\ \A c, d \in Clients : Owner(c) /\ Owner(d) => c = d

\* What is inside is what the client that waits for its response has put there.
Tokens ==
  /\ pc[Slave] = "put" <=> taken # Hole
  /\ \A c \in Clients : pc[c] = "get" => InFlight(<<c, calls[c]>>)
  /\ (\A c \in Clients : pc[c] # "get") => Resting

\* The member rsp keeps the response for the client that runs until it returns.
Responses ==
  /\ \A c \in Clients : pc[c] \in {"unlock", "return"} => rsp = <<c, calls[c]>>
  /\ \A c \in Clients : pc[c] = "return" => running = c
  /\ RightResponse

NoWait == \A p \in Processes : pc[p] = "put" => ~waiting[p]

IInv == Types /\ Owned /\ Tokens /\ Responses /\ NoWait

LEMMA RequestType ==
  ASSUME Types, NEW c \in Clients, pc[c] # "idle"
  PROVE  <<c, calls[c]>> \in Items
<1>1. calls[c] \in 1 .. MaxCalls
  BY TransportAssumption DEF Types
<1> QED BY <1>1, TransportAssumption

\* The state of one process changes.
LEMMA PcChange ==
  ASSUME Types, NEW p \in Processes, NEW s \in States, pc' = [pc EXCEPT ![p] = s]
  PROVE  /\ pc' \in [Processes -> States]
         /\ \A q \in Processes : pc'[q] = IF q = p THEN s ELSE pc[q]
BY DEF Types

LEMMA InitIInv == Init => IInv
<1> SUFFICES ASSUME Init PROVE IInv
  OBVIOUS
<1>1. \A c \in Clients : c # Slave /\ c \in Processes
  BY TransportAssumption DEF Processes
<1>2. pc \in [Processes -> States] /\ pc[Slave] = "get" /\ \A c \in Clients : pc[c] = "idle"
  BY <1>1 DEF Init, Processes, States
<1>3. Types
  BY <1>2, TransportAssumption DEF Init, Types
<1>4. Owned
  BY <1>2 DEF Owned, Owner
<1>5. Tokens
  BY <1>2, NewEmpty DEF Init, Tokens, Resting, Quiet
<1>6. Responses
  BY <1>2 DEF Init, Responses, RightResponse
<1>7. NoWait
  BY DEF Init, NoWait
<1> QED BY <1>3, <1>4, <1>5, <1>6, <1>7 DEF IInv

-----------------------------------------------------------------------------
(* The steps that leave the fifos alone *)

LEMMA Apart == Slave \notin Clients /\ \A p \in Processes : p # NoOne
BY TransportAssumption DEF Processes

\* Client c moves on to s, while it has the processor: no other one is returning.
LEMMA ClientMoves ==
  ASSUME IInv, NEW c \in Clients, NEW s \in States, NEW t, Turn(c, t),
         pc' = [pc EXCEPT ![c] = s], calls' \in [Clients -> 0 .. MaxCalls],
         DOMAIN result' = Clients, waiting' \in [Processes -> BOOLEAN],
         s # "idle" => calls'[c] >= 1,
         \A d \in Clients : d # c => calls'[d] = calls[d]
  PROVE  /\ Types' /\ pc[c] = t /\ pc'[c] = s /\ pc'[Slave] = pc[Slave]
         /\ \A q \in Processes : q # c => pc'[q] = pc[q]
         /\ \A d \in Clients : d # c => pc[d] # "return"
<1>1. c \in Processes /\ Slave \in Processes /\ Clients \subseteq Processes
  BY DEF Processes
<1>2. /\ pc' \in [Processes -> States]
      /\ \A q \in Processes : pc'[q] = IF q = c THEN s ELSE pc[q]
  BY <1>1, PcChange DEF IInv
<1>3. c # Slave
  BY Apart
<1>4. \A d \in Clients : d # c => pc[d] # "return"
  BY <1>1, Apart DEF Turn, IInv, Responses
<1>5. Types'
  BY <1>1, <1>2, <1>3 DEF Types, IInv
<1> QED BY <1>1, <1>2, <1>3, <1>4, <1>5 DEF Turn

LEMMA SameTokens ==
  ASSUME NEW x, UNCHANGED <<request_fifo, response_fifo, taken>>
  PROVE  (InFlight(x))' = InFlight(x) /\ Resting' = Resting
BY DEF InFlight, Resting

LEMMA CallKeeps ==
  ASSUME IInv, NEW c \in Clients, Call(c)
  PROVE  IInv'
<1>1. /\ Turn(c, "idle") /\ pc' = [pc EXCEPT ![c] = "lock"] /\ running' = c
      /\ calls' = [calls EXCEPT ![c] = calls[c] + 1] /\ calls[c] < MaxCalls
      /\ UNCHANGED <<request_fifo, response_fifo, in_use, rsp, result, taken, waiting>>
  BY DEF Call, GoOn
<1>2. /\ calls \in [Clients -> 0 .. MaxCalls] /\ DOMAIN result = Clients
      /\ waiting \in [Processes -> BOOLEAN]
  BY DEF IInv, Types
<1>3. /\ calls' \in [Clients -> 0 .. MaxCalls] /\ calls'[c] >= 1
      /\ \A d \in Clients : d # c => calls'[d] = calls[d]
  BY <1>1, <1>2, TransportAssumption
<1>4. /\ Types' /\ pc[c] = "idle" /\ pc'[c] = "lock" /\ pc'[Slave] = pc[Slave]
      /\ \A q \in Processes : q # c => pc'[q] = pc[q]
      /\ \A d \in Clients : d # c => pc[d] # "return"
  BY <1>1, <1>2, <1>3, ClientMoves DEF States
<1>5. \A d \in Clients : d \in Processes
  BY DEF Processes
<1>6. Owned'
  BY <1>1, <1>4, <1>5 DEF IInv, Owned, Owner
<1>7. Tokens'
  <2>1. \A d \in Clients : pc'[d] = "get" <=> pc[d] = "get"
    BY <1>4, <1>5
  <2>2. \A d \in Clients : pc'[d] = "get" => calls'[d] = calls[d]
    BY <1>3, <1>4
  <2> QED BY <1>1, <1>4, <2>1, <2>2, SameTokens DEF IInv, Tokens
<1>8. Responses'
  BY <1>1, <1>3, <1>4, <1>5 DEF IInv, Responses, RightResponse
<1>9. NoWait'
  BY <1>1, <1>4 DEF IInv, NoWait
<1> QED BY <1>4, <1>6, <1>7, <1>8, <1>9 DEF IInv

\* A process waits: no one was returning.
LEMMA WaitKeeps ==
  ASSUME IInv, NEW p \in Processes, NEW s, Turn(p, s), s # "put", s # "return", Wait(p),
         UNCHANGED <<request_fifo, response_fifo, in_use, rsp, calls, result, taken>>
  PROVE  IInv'
<1>1. /\ waiting' = [waiting EXCEPT ![p] = TRUE] /\ UNCHANGED pc /\ pc[p] = s
      /\ waiting \in [Processes -> BOOLEAN]
  BY DEF Wait, Turn, IInv, Types
<1>2. Types'
  BY <1>1 DEF IInv, Types
<1>3. Owned' /\ Tokens'
  BY <1>1, SameTokens DEF IInv, Owned, Owner, Tokens
<1>4. \A d \in Clients : pc[d] # "return"
  BY <1>1, Apart DEF IInv, Responses, Turn, Processes
<1>5. Responses'
  BY <1>1, <1>4 DEF IInv, Responses, RightResponse
<1>6. NoWait'
  BY <1>1 DEF IInv, NoWait
<1> QED BY <1>2, <1>3, <1>5, <1>6 DEF IInv

LEMMA LockKeeps ==
  ASSUME IInv, NEW c \in Clients, Lock(c)
  PROVE  IInv'
<1>1. Turn(c, "lock") /\ UNCHANGED <<request_fifo, response_fifo, rsp, calls, result, taken>>
  BY DEF Lock
<1>2. \A d \in Clients : d \in Processes
  BY DEF Processes
<1>3. CASE in_use
  BY <1>1, <1>2, <1>3, WaitKeeps DEF Lock
<1>4. CASE ~in_use
  <2>1. /\ pc' = [pc EXCEPT ![c] = "put"] /\ running' = c /\ UNCHANGED waiting /\ in_use'
    BY <1>4 DEF Lock, GoOn
  <2>2. /\ Types' /\ pc[c] = "lock" /\ pc'[c] = "put" /\ pc'[Slave] = pc[Slave]
        /\ \A q \in Processes : q # c => pc'[q] = pc[q]
        /\ \A d \in Clients : d # c => pc[d] # "return"
    <3>1. /\ calls \in [Clients -> 0 .. MaxCalls] /\ DOMAIN result = Clients
          /\ waiting \in [Processes -> BOOLEAN] /\ calls[c] >= 1
      BY <1>1, <1>2 DEF IInv, Types, Turn
    <3> QED BY <1>1, <2>1, <3>1, ClientMoves DEF States
  <2>3. Owned'
    BY <1>2, <1>4, <2>1, <2>2 DEF IInv, Owned, Owner
  <2>4. Tokens'
    <3>1. \A d \in Clients : pc'[d] = "get" <=> pc[d] = "get"
      BY <1>2, <2>2
    <3> QED BY <1>1, <2>2, <3>1, SameTokens DEF IInv, Tokens
  <2>5. Responses'
    BY <1>1, <1>2, <2>1, <2>2 DEF IInv, Responses, RightResponse
  <2>6. NoWait'
    BY <1>1, <2>1, <2>2 DEF IInv, NoWait, Turn
  <2> QED BY <2>2, <2>3, <2>4, <2>5, <2>6 DEF IInv
<1> QED BY <1>3, <1>4

LEMMA UnlockKeeps ==
  ASSUME IInv, NEW c \in Clients, Unlock(c)
  PROVE  IInv'
<1>1. /\ Turn(c, "unlock") /\ pc' = [pc EXCEPT ![c] = "return"] /\ running' = c
      /\ waiting' = [p \in Processes |-> waiting[p] /\ pc[p] # "lock"]
      /\ UNCHANGED <<request_fifo, response_fifo, rsp, calls, result, taken>>
  BY DEF Unlock
<1>2. \A d \in Clients : d \in Processes
  BY DEF Processes
<1>3. /\ calls \in [Clients -> 0 .. MaxCalls] /\ DOMAIN result = Clients
      /\ waiting \in [Processes -> BOOLEAN] /\ calls[c] >= 1
  BY <1>1, <1>2 DEF IInv, Types, Turn
<1>4. waiting' \in [Processes -> BOOLEAN] /\ \A p \in Processes : waiting'[p] => waiting[p]
  BY <1>1, <1>3, ZenonT(20)
<1>5. /\ Types' /\ pc[c] = "unlock" /\ pc'[c] = "return" /\ pc'[Slave] = pc[Slave]
      /\ \A q \in Processes : q # c => pc'[q] = pc[q]
      /\ \A d \in Clients : d # c => pc[d] # "return"
  BY <1>1, <1>3, <1>4, ClientMoves DEF States
<1>6. Owned'
  BY <1>2, <1>5 DEF IInv, Owned, Owner
<1>7. Tokens'
  <2>1. \A d \in Clients : pc'[d] = "get" <=> pc[d] = "get"
    BY <1>2, <1>5
  <2> QED BY <1>1, <1>5, <2>1, SameTokens DEF IInv, Tokens
<1>8. Responses'
  BY <1>1, <1>2, <1>5 DEF IInv, Responses, RightResponse
<1>9. NoWait'
  BY <1>4, <1>5 DEF IInv, NoWait
<1> QED BY <1>5, <1>6, <1>7, <1>8, <1>9 DEF IInv

LEMMA ReturnKeeps ==
  ASSUME IInv, NEW c \in Clients, Return(c)
  PROVE  IInv'
<1>1. /\ Turn(c, "return") /\ pc' = [pc EXCEPT ![c] = "idle"]
      /\ result' = [result EXCEPT ![c] = rsp]
      /\ UNCHANGED <<request_fifo, response_fifo, in_use, rsp, waiting, calls, taken>>
  BY DEF Return
<1>2. \A d \in Clients : d \in Processes
  BY DEF Processes
<1>3. /\ calls \in [Clients -> 0 .. MaxCalls] /\ DOMAIN result = Clients
      /\ waiting \in [Processes -> BOOLEAN] /\ DOMAIN result' = Clients
  BY <1>1 DEF IInv, Types
<1>4. /\ Types' /\ pc[c] = "return" /\ pc'[c] = "idle" /\ pc'[Slave] = pc[Slave]
      /\ \A q \in Processes : q # c => pc'[q] = pc[q]
      /\ \A d \in Clients : d # c => pc[d] # "return"
  BY <1>1, <1>3, ClientMoves DEF States
<1>5. Owned'
  BY <1>1, <1>2, <1>4 DEF IInv, Owned, Owner
<1>6. Tokens'
  <2>1. \A d \in Clients : pc'[d] = "get" <=> pc[d] = "get"
    BY <1>2, <1>4
  <2> QED BY <1>1, <1>4, <2>1, SameTokens DEF IInv, Tokens
<1>7. Responses'
  <2>1. rsp = <<c, calls[c]>> /\ result'[c] = rsp /\ \A d \in Clients : d # c => result'[d] = result[d]
    BY <1>1, <1>3, <1>4 DEF IInv, Responses
  <2> QED BY <1>1, <1>2, <1>4, <2>1 DEF IInv, Responses, RightResponse
<1>8. NoWait'
  BY <1>1, <1>4 DEF IInv, NoWait
<1> QED BY <1>4, <1>5, <1>6, <1>7, <1>8 DEF IInv

-----------------------------------------------------------------------------
(* The steps that pass an element on *)

\* Of the clients that are between their put and their get there is one.
LEMMA OneAsks ==
  ASSUME Owned, NEW c \in Clients, Owner(c)
  PROVE  \A d \in Clients : d # c => pc[d] \notin {"put", "get", "unlock"}
BY DEF Owned, Owner

LEMMA PutRequestKeeps ==
  ASSUME IInv, NEW c \in Clients, PutRequest(c)
  PROVE  IInv'
<1>1. Turn(c, "put") /\ UNCHANGED <<response_fifo, in_use, rsp, calls, result, taken>>
  BY DEF PutRequest
<1>2. \A d \in Clients : d \in Processes
  BY DEF Processes
<1>3. pc[c] = "put" /\ \A d \in Clients : d # c => pc[d] \notin {"put", "get", "unlock"}
  BY <1>1, OneAsks DEF IInv, Turn, Owner
<1>4. Resting
  BY <1>3 DEF IInv, Tokens
<1> DEFINE x == <<c, calls[c]>>
<1>5. x \in Items
  BY <1>3, RequestType DEF IInv
<1>6. ~is_full(request_fifo) /\ Fresh(Stored(request_fifo, x), x)
  BY <1>4, <1>5, EmptyStored DEF Resting
<1>7. /\ pc' = [pc EXCEPT ![c] = "get"] /\ running' = c /\ UNCHANGED waiting
      /\ request_fifo' = Stored(request_fifo, x)
  BY <1>6 DEF PutRequest, GoOn
<1>8. /\ Types' /\ pc'[c] = "get" /\ pc'[Slave] = pc[Slave]
      /\ \A q \in Processes : q # c => pc'[q] = pc[q]
      /\ \A d \in Clients : d # c => pc[d] # "return"
  <2>1. /\ calls \in [Clients -> 0 .. MaxCalls] /\ DOMAIN result = Clients
        /\ waiting \in [Processes -> BOOLEAN] /\ calls[c] >= 1
    BY <1>3 DEF IInv, Types
  <2> QED BY <1>1, <1>7, <2>1, ClientMoves DEF States
<1>9. Owned'
  BY <1>1, <1>2, <1>3, <1>8 DEF IInv, Owned, Owner
<1>10. Tokens'
  <2>1. (InFlight(x))'
    BY <1>1, <1>4, <1>6, <1>7 DEF Resting, InFlight, Quiet
  <2>2. \A d \in Clients : pc'[d] = "get" => d = c
    BY <1>2, <1>3, <1>8
  <2> QED BY <1>1, <1>8, <2>1, <2>2 DEF IInv, Tokens
<1>11. Responses'
  BY <1>1, <1>2, <1>3, <1>7, <1>8 DEF IInv, Responses, RightResponse
<1>12. NoWait'
  BY <1>7, <1>8 DEF IInv, NoWait
<1> QED BY <1>8, <1>9, <1>10, <1>11, <1>12 DEF IInv

LEMMA GetResponseKeeps ==
  ASSUME IInv, NEW c \in Clients, GetResponse(c)
  PROVE  IInv'
<1>1. Turn(c, "get") /\ UNCHANGED <<request_fifo, in_use, calls, result, taken>>
  BY DEF GetResponse
<1>2. \A d \in Clients : d \in Processes
  BY DEF Processes
<1>3. CASE is_empty(response_fifo)
  BY <1>1, <1>2, <1>3, WaitKeeps DEF GetResponse
<1>4. CASE ~is_empty(response_fifo)
  <2>1. /\ pc' = [pc EXCEPT ![c] = "unlock"] /\ running' = c /\ UNCHANGED waiting
        /\ response_fifo' = Taken(response_fifo) /\ rsp' = read_data(response_fifo.buffer)
    BY <1>4 DEF GetResponse, GoOn
  <2>2. pc[c] = "get" /\ \A d \in Clients : d # c => pc[d] \notin {"put", "get", "unlock"}
    BY <1>1, OneAsks DEF IInv, Turn, Owner
  <2> DEFINE x == <<c, calls[c]>>
  <2>3. Empty(request_fifo) /\ taken = Hole /\ Ready(response_fifo, x)
    <3>1. InFlight(x)
      BY <2>2 DEF IInv, Tokens
    <3>2. ~Quiet(response_fifo) /\ ~Empty(response_fifo) /\ ~Fresh(response_fifo, x)
      BY <1>4, SpentDelta, FreshDelta DEF Quiet
    <3> QED BY <3>1, <3>2 DEF InFlight
  <2>4. Spent(response_fifo') /\ rsp' = x
    BY <2>1, <2>3, ReadyTaken
  <2>5. /\ Types' /\ pc'[c] = "unlock" /\ pc'[Slave] = pc[Slave]
        /\ \A q \in Processes : q # c => pc'[q] = pc[q]
        /\ \A d \in Clients : d # c => pc[d] # "return"
    <3>1. /\ calls \in [Clients -> 0 .. MaxCalls] /\ DOMAIN result = Clients
          /\ waiting \in [Processes -> BOOLEAN] /\ calls[c] >= 1
      BY <2>2 DEF IInv, Types
    <3> QED BY <1>1, <2>1, <3>1, ClientMoves DEF States
  <2>6. Owned'
    BY <1>1, <1>2, <2>2, <2>5 DEF IInv, Owned, Owner
  <2>7. Tokens'
    <3>1. Resting'
      BY <1>1, <2>3, <2>4 DEF Resting, Quiet
    <3>2. \A d \in Clients : pc'[d] # "get"
      BY <1>2, <2>2, <2>5
    <3> QED BY <1>1, <2>5, <3>1, <3>2 DEF IInv, Tokens
  <2>8. Responses'
    BY <1>1, <1>2, <2>1, <2>2, <2>4, <2>5 DEF IInv, Responses, RightResponse
  <2>9. NoWait'
    BY <2>1, <2>5 DEF IInv, NoWait
  <2> QED BY <2>5, <2>6, <2>7, <2>8, <2>9 DEF IInv
<1> QED BY <1>3, <1>4

\* What a step of the slave leaves.
LEMMA SlaveMoves ==
  ASSUME IInv, NEW s \in {"get", "put"}, NEW t, Turn(Slave, t), pc' = [pc EXCEPT ![Slave] = s],
         UNCHANGED <<waiting, in_use, rsp, calls, result>>
  PROVE  /\ Types' /\ Owned' /\ Responses' /\ NoWait' /\ pc'[Slave] = s /\ pc[Slave] = t
         /\ \A c \in Clients : pc'[c] = pc[c]
<1>1. Slave \in Processes /\ Clients \subseteq Processes /\ Slave \notin Clients
  BY Apart DEF Processes
<1>2. /\ pc' \in [Processes -> States]
      /\ \A q \in Processes : pc'[q] = IF q = Slave THEN s ELSE pc[q]
  BY <1>1, PcChange DEF IInv, States
<1>3. \A c \in Clients : pc'[c] = pc[c]
  BY <1>1, <1>2
<1>4. \A c \in Clients : pc[c] # "return"
  BY <1>1, Apart DEF Turn, IInv, Responses
<1>5. Types'
  BY <1>1, <1>2, <1>3 DEF IInv, Types
<1>6. Owned'
  BY <1>3 DEF IInv, Owned, Owner
<1>7. Responses'
  BY <1>3, <1>4 DEF IInv, Responses, RightResponse
<1>8. NoWait'
  BY <1>1, <1>2 DEF IInv, NoWait, Turn
<1> QED BY <1>1, <1>2, <1>3, <1>5, <1>6, <1>7, <1>8 DEF Turn

LEMMA SlaveGetKeeps ==
  ASSUME IInv, SlaveGet
  PROVE  IInv'
<1>1. Turn(Slave, "get") /\ UNCHANGED <<response_fifo, in_use, rsp, calls, result>>
  BY DEF SlaveGet
<1>2. CASE is_empty(request_fifo)
  <2>1. Slave \in Processes
    BY DEF Processes
  <2> QED BY <1>1, <1>2, <2>1, WaitKeeps DEF SlaveGet
<1>3. CASE ~is_empty(request_fifo)
  <2>1. /\ request_fifo' = Taken(request_fifo) /\ taken' = read_data(request_fifo.buffer)
        /\ pc' = [pc EXCEPT ![Slave] = "put"] /\ UNCHANGED waiting
    BY <1>3 DEF SlaveGet
  <2>2. /\ Types' /\ Owned' /\ Responses' /\ NoWait' /\ pc'[Slave] = "put" /\ pc[Slave] = "get"
        /\ \A c \in Clients : pc'[c] = pc[c]
    BY <1>1, <2>1, SlaveMoves
  <2>3. ~Quiet(request_fifo) /\ \A x : ~Fresh(request_fifo, x)
    BY <1>3, SpentDelta, FreshDelta DEF Quiet
  <2>4. PICK c \in Clients : pc[c] = "get"
    BY <2>3 DEF IInv, Tokens, Resting, Quiet
  <2> DEFINE x == <<c, calls[c]>>
  <2>5. Ready(request_fifo, x) /\ taken = Hole /\ Empty(response_fifo)
    <3>1. InFlight(x)
      BY <2>4 DEF IInv, Tokens
    <3> QED BY <2>3, <3>1 DEF InFlight, Quiet
  <2>6. Spent(request_fifo') /\ taken' = x
    BY <2>1, <2>5, ReadyTaken
  <2>7. (InFlight(x))'
    BY <1>1, <2>5, <2>6 DEF InFlight, Quiet
  <2>8. taken' # Hole
    BY <2>4, <2>6, RequestType, TransportAssumption DEF IInv
  <2>9. Tokens'
    <3>1. \A d \in Clients : pc[d] = "get" => d = c
      BY <2>4 DEF IInv, Owned, Owner
    <3> QED BY <1>1, <2>2, <2>4, <2>7, <2>8, <3>1 DEF Tokens
  <2> QED BY <2>2, <2>9 DEF IInv
<1> QED BY <1>2, <1>3

LEMMA SlavePutKeeps ==
  ASSUME IInv, SlavePut
  PROVE  IInv'
<1>1. Turn(Slave, "put") /\ UNCHANGED <<request_fifo, in_use, rsp, calls, result>>
  BY DEF SlavePut
<1>2. taken # Hole
  BY <1>1 DEF IInv, Tokens, Turn
<1>3. PICK c \in Clients : pc[c] = "get"
  BY <1>2 DEF IInv, Tokens, Resting
<1> DEFINE x == <<c, calls[c]>>
<1>4. Quiet(request_fifo) /\ taken = x /\ Empty(response_fifo)
  BY <1>2, <1>3 DEF IInv, Tokens, InFlight
<1>5. ~is_full(response_fifo) /\ Fresh(Stored(response_fifo, x), x)
  <2>1. x \in Items
    BY <1>3, RequestType DEF IInv
  <2> QED BY <1>4, <2>1, EmptyStored
<1>6. /\ response_fifo' = Stored(response_fifo, x) /\ taken' = Hole
      /\ pc' = [pc EXCEPT ![Slave] = "get"] /\ UNCHANGED waiting
  BY <1>4, <1>5 DEF SlavePut, GoOn
<1>7. /\ Types' /\ Owned' /\ Responses' /\ NoWait' /\ pc'[Slave] = "get"
      /\ \A d \in Clients : pc'[d] = pc[d]
  BY <1>1, <1>6, SlaveMoves
<1>8. (InFlight(x))'
  BY <1>1, <1>4, <1>5, <1>6 DEF InFlight
<1>9. Tokens'
  <2>1. \A d \in Clients : pc[d] = "get" => d = c
    BY <1>3 DEF IInv, Owned, Owner
  <2> QED BY <1>1, <1>3, <1>6, <1>7, <1>8, <2>1 DEF Tokens
<1> QED BY <1>7, <1>9 DEF IInv

LEMMA DeltaKeeps ==
  ASSUME IInv, Delta
  PROVE  IInv'
<1>1. /\ request_fifo' = AtDelta(request_fifo) /\ response_fifo' = AtDelta(response_fifo)
      /\ waiting' = [p \in Processes |-> waiting[p] /\ ~Wakes(p)]
      /\ UNCHANGED <<in_use, rsp, pc, running, calls, result, taken>>
  BY DEF Delta, AtDelta
<1>2. waiting' \in [Processes -> BOOLEAN] /\ \A p \in Processes : waiting'[p] => waiting[p]
  <2> HIDE DEF Wakes
  <2>1. \A p \in Processes : waiting'[p] = (waiting[p] /\ ~Wakes(p))
    BY <1>1
  <2>2. DOMAIN waiting' = Processes /\ \A p \in Processes : waiting'[p] \in BOOLEAN
    BY <1>1, <2>1
  <2>3. \A p \in Processes : waiting'[p] => waiting[p]
    BY <2>1
  <2>4. waiting' = [p \in Processes |-> waiting'[p]]
    BY <1>1
  <2> QED BY <2>2, <2>3, <2>4
<1>3. Types' /\ Owned' /\ Responses'
  BY <1>1, <1>2 DEF IInv, Types, Owned, Owner, Responses, RightResponse
<1>4. NoWait'
  BY <1>1, <1>2 DEF IInv, NoWait
<1>5. Resting => Resting'
  BY <1>1, SpentDelta DEF Resting, Quiet
<1>6. ASSUME NEW x, InFlight(x) PROVE (InFlight(x))'
  <2>1. \A f : Quiet(f) => Empty(AtDelta(f))
    BY SpentDelta DEF Quiet
  <2>2. \A f : Fresh(f, x) \/ Ready(f, x) => Ready(AtDelta(f), x)
    BY FreshDelta, ReadyDelta
  <2> QED BY <1>1, <1>6, <2>1, <2>2 DEF InFlight, Quiet
<1>7. Tokens'
  BY <1>1, <1>5, <1>6 DEF IInv, Tokens
<1> QED BY <1>3, <1>4, <1>7 DEF IInv

LEMMA StutterKeeps == IInv /\ UNCHANGED vars => IInv'
<1> SUFFICES ASSUME IInv, UNCHANGED vars PROVE IInv'
  OBVIOUS
<1>1. UNCHANGED <<request_fifo, response_fifo, in_use, rsp, pc, waiting, running, calls, result, taken>>
  BY DEF vars
<1>2. Tokens'
  BY <1>1, SameTokens DEF IInv, Tokens
<1> QED BY <1>1, <1>2 DEF IInv, Types, Owned, Owner, Responses, RightResponse, NoWait

-----------------------------------------------------------------------------
(* The properties *)

LEMMA Invariance == Spec => []IInv
<1>1. ASSUME IInv, [Next]_vars PROVE IInv'
  <2>1. ASSUME NEW c \in Clients, Call(c) \/ InTransport(c) PROVE IInv'
    BY <1>1, <2>1, CallKeeps, LockKeeps, PutRequestKeeps, GetResponseKeeps, UnlockKeeps,
       ReturnKeeps DEF InTransport
  <2> QED BY <1>1, <2>1, SlaveGetKeeps, SlavePutKeeps, DeltaKeeps, StutterKeeps DEF Next
<1> QED BY <1>1, InitIInv, PTL DEF Spec

\* Every client gets the response to its own request (tlm_transport_to_master::transport),
\* however many clients call, and whenever they do.
THEOREM GivesRightResponse == Spec => []RightResponse
<1>1. IInv => RightResponse
  BY DEF IInv, Responses
<1> QED BY <1>1, Invariance, PTL

LEMMA QuietUsed == \A f : Quiet(f) => f.buffer.used = 0
BY SingleUsed DEF Quiet, Empty, Spent, Single

LEMMA FullUsed == \A f, x : Fresh(f, x) \/ Ready(f, x) => f.buffer.used = 1
BY SingleUsed DEF Fresh, Ready, Single

\* Between the put and the get of a client there is its request, or the response to it,
\* in one place, at other times nothing; who puts never waits.
THEOREM KeepsOneInFlight == Spec => []OneInFlight
<1>1. ASSUME IInv PROVE OneInFlight
  <2>1. CASE \E c \in Clients : pc[c] = "get"
    <3>1. PICK c \in Clients : pc[c] = "get"
      BY <2>1
    <3> DEFINE x == <<c, calls[c]>>
    <3>2. InFlight(x) /\ x # Hole
      BY <1>1, <3>1, RequestType, TransportAssumption DEF IInv, Tokens
    <3> QED BY <1>1, <2>1, <3>2, QuietUsed, FullUsed DEF IInv, NoWait, InFlight, Quiet, OneInFlight
  <2>2. CASE \A c \in Clients : pc[c] # "get"
    BY <1>1, <2>2, QuietUsed DEF IInv, Tokens, NoWait, Resting, Quiet, OneInFlight
  <2> QED BY <2>1, <2>2
<1> QED BY <1>1, Invariance, PTL
=============================================================================
