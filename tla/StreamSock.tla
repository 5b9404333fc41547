------------------------------ MODULE StreamSock ------------------------------
(***************************************************************************)
(* The JTAG terminal: streamsock.tcl joins a TCP server socket, to which   *)
(* one terminal program at a time connects, with the two streams of a UART *)
(* of the agent.                                                           *)
(*                                                                         *)
(* What is typed goes from the socket into Streams write commands, at most *)
(* WriteLimit unanswered; what the UART prints comes from Streams read     *)
(* commands, one at a time, through the list sock_bufs to the socket.  All *)
(* runs in the event thread, in the callbacks of file events and replies.  *)
(* The agent does the writes in order while a read waits for output.       *)
(*                                                                         *)
(* A buffer is a model of up to 4096 bytes: <<client, number>> on the way  *)
(* to the UART, a number on the way back.                                  *)
(***************************************************************************)
EXTENDS Integers, Sequences, SequencesExt

CONSTANTS
  WriteLimit,    \* unanswered writes at which the socket is no longer read (4)
  Clients,       \* bound: terminals that connect, one after another or at once
  Typed,         \* bound: buffers that each terminal sends
  Printed        \* bound: buffers that the UART prints

ASSUME StreamAssumption ==
  /\ WriteLimit \in Nat \ {0}
  /\ Clients \in Nat /\ Typed \in Nat /\ Printed \in Nat

VARIABLES
  exists,        \* the instance is in the table of instances
  listening,     \* its server socket is open (sockid)
  client,        \* the connected terminal (connectionid), 0 for none
  eofSeen,       \* a read of the socket has met its end
  readable,      \* the file event of readable data is set
  writable,      \* the file event of a writable socket is set
  readCount,     \* stream_read_count
  writeCount,    \* stream_write_count
  sockBufs,      \* sock_bufs
  eos,           \* the end of the output has been read
  failed,        \* the error of the instance is set
  came,          \* terminals that have connected so far
  typed,         \* buffers that the current terminal has sent so far
  sockIn,        \* those that are in the socket
  peer,          \* the current terminal's end of the connection: "up", "closed" in order,
                 \*   "reset", or "aborted", a reset that a read has met
  got,           \* what each terminal has received
  failing,       \* the agent is one that may answer with an error, or end the output
  link,          \* the streams at the agent: "up"; "half", that of the output being
                 \*   disconnected, "stopped", both; or "lost" with the channel
  writes,        \* the Streams write commands the agent has not done
  reading,       \* a Streams read command is waiting at the agent
  uartIn,        \* what the UART has received
  uartOut,       \* what the UART has printed and nobody has read
  printed,       \* buffers it has printed so far
  replies        \* replies on the way to the debugger

instance == <<exists, listening, client, eofSeen, readable, writable, readCount, writeCount,
              sockBufs, eos, failed>>
terminal == <<came, typed, sockIn, peer, got>>
agent == <<failing, link, writes, reading, uartIn, uartOut, printed, replies>>
vars == <<instance, terminal, agent>>

\* A reply is "ok", an "error" of the agent's (the format e of tcf::read raises it), or
\* "lost" with the channel.  A read without data reports the end of the stream.
NoData == 0
WriteReply(st) == [op |-> "write", st |-> st, buf |-> NoData]
ReadReply(st, buf) == [op |-> "read", st |-> st, buf |-> buf]
-----------------------------------------------------------------------------
\* create: the server socket waits for a terminal.
Init ==
  /\ exists = TRUE /\ listening = TRUE /\ client = 0 /\ eofSeen = FALSE
  /\ readable = FALSE /\ writable = FALSE
  /\ readCount = 0 /\ writeCount = 0 /\ sockBufs = <<>> /\ eos = FALSE /\ failed = FALSE
  /\ came = 0 /\ typed = 0 /\ sockIn = <<>> /\ peer = "up"
  /\ got = [k \in 1 .. Clients |-> <<>>]
  /\ failing \in BOOLEAN
  /\ link = "up" /\ writes = <<>> /\ reading = FALSE
  /\ uartIn = <<>> /\ uartOut = <<>> /\ printed = 0 /\ replies = <<>>

-----------------------------------------------------------------------------
(***************************************************************************)
(* The handlers.                                                           *)
(***************************************************************************)

\* client_close: the socket and its file events are gone.
ClientClose ==
  /\ client' = 0 /\ eofSeen' = FALSE /\ readable' = FALSE /\ writable' = FALSE
  /\ sockIn' = <<>>

\* set_error: only the first one closes the sockets.
SetError ==
  IF failed THEN UNCHANGED <<failed, listening, client, eofSeen, readable, writable, sockIn>>
  ELSE failed' = TRUE /\ listening' = FALSE /\ ClientClose

MoreWrites(n) == n < WriteLimit

\* sock_reader of a connected terminal, when n writes are unanswered: the buffer at the
\* head of the socket is sent, the file event set or cleared.  The end of the
\* socket, met by one read, closes it at the next call.
SockReader(n) ==
  \/ /\ eofSeen
     /\ ClientClose
     /\ writeCount' = n
     /\ UNCHANGED writes
  \/ /\ ~eofSeen
     /\ sockIn # <<>> \/ peer # "reset"
     /\ IF sockIn = <<>> THEN writeCount' = n /\ UNCHANGED <<writes, sockIn>>
        ELSE /\ writes' = Append(writes, Head(sockIn))
             /\ sockIn' = Tail(sockIn)
             /\ writeCount' = n + 1
     /\ eofSeen' \in IF peer \in {"closed", "aborted"} /\ Len(sockIn) <= 1
                    THEN {TRUE, sockIn = <<>>} ELSE {FALSE}
     /\ readable' = MoreWrites(writeCount')
     /\ UNCHANGED <<client, writable>>

\* sock_reader with a connection that was reset: the read raises, and the terminal stays
\* connected.  The system tells it once; later reads meet the end.
ReadRaises(n) ==
  /\ ~eofSeen /\ peer = "reset"
  /\ peer' = "aborted" /\ sockIn' = <<>>
  /\ writeCount' = n
  /\ UNCHANGED <<client, eofSeen, writable, writes>>

\* stream_reader: one read at a time, and none after the end.
StreamReader ==
  IF ~eos /\ readCount < 1 THEN reading' = TRUE /\ readCount' = readCount + 1
  ELSE UNCHANGED <<reading, readCount>>

\* accept: a second terminal is turned away.
Accept ==
  /\ exists /\ listening /\ came < Clients
  /\ came' = came + 1
  /\ IF client # 0 THEN UNCHANGED <<instance, typed, sockIn, peer, agent>>
     ELSE /\ client' = came + 1
          /\ typed' = 0 /\ peer' = "up"
          /\ readable' = MoreWrites(writeCount)
          /\ StreamReader
          /\ UNCHANGED <<exists, listening, eofSeen, writable, writeCount, sockBufs, failed,
                         eos, sockIn, failing, link, writes, uartIn, uartOut, printed, replies>>
  /\ UNCHANGED got

\* The file event of readable data.  Tcl takes an event whose script has raised an error
\* away.
SockReadable ==
  /\ client # 0 /\ readable
  /\ sockIn # <<>> \/ peer # "up"
  /\ \/ SockReader(writeCount) /\ UNCHANGED peer
     \/ ReadRaises(writeCount) /\ readable' = FALSE
  /\ UNCHANGED <<exists, listening, readCount, sockBufs, eos, failed, came, typed, got,
                 failing, link, reading, uartIn, uartOut, printed, replies>>


\* Nothing more to write after this buffer.
StopWriting == Len(sockBufs) = 1

\* Faulty NextBuf: the last buffer is written.
NextBufLast == Last(sockBufs)

NextBuf == Head(sockBufs)

\* sock_writer.  When the terminal has gone puts may raise: the buffer is off the list, and
\* the event is taken away although more may be left.
SockWritable ==
  /\ client # 0 /\ writable /\ sockBufs # <<>>
  /\ sockBufs' = Tail(sockBufs)
  /\ \/ /\ writable' = ~StopWriting
        /\ got' = [got EXCEPT ![client] = Append(@, NextBuf)]
     \/ /\ peer # "up"
        /\ writable' = FALSE /\ UNCHANGED got
  /\ UNCHANGED <<exists, listening, client, eofSeen, readable, readCount, writeCount, eos,
                 failed, came, typed, sockIn, peer, agent>>

\* Faulty ReadOn: what was typed meanwhile waits for the next event.
ReadOnByEvent(n) ==
  /\ writeCount' = n
  /\ UNCHANGED <<writes, sockIn, client, eofSeen, readable, writable, peer>>

\* Faulty ReadOn: the answered write is not taken off the count.
ReadOnUncounted(n) == SockReader(n + 1) /\ UNCHANGED peer

\* After an answer the socket is read again.  If that raises the event stays as it was.
ReadOn(n) ==
  \/ SockReader(n) /\ UNCHANGED peer
  \/ ReadRaises(n) /\ UNCHANGED readable

\* stream_write_done.  An error of the agent's is only printed.  With no terminal left
\* sock_reader fails at the missing connectionid, which changes nothing.
WriteDone(m) ==
  /\ UNCHANGED <<readCount, sockBufs, eos, reading>>
  /\ IF m.st = "lost" THEN SetError /\ writeCount' = writeCount - 1 /\ UNCHANGED <<writes, peer>>
     ELSE /\ UNCHANGED <<listening, failed>>
          /\ IF m.st = "error" \/ client = 0
             THEN /\ writeCount' = writeCount - 1
                  /\ UNCHANGED <<client, eofSeen, readable, writable, sockIn, writes, peer>>
             ELSE ReadOn(writeCount - 1)

\* The read that was answered is followed by another one.
ReadAgain == reading' = TRUE /\ UNCHANGED readCount

\* stream_read_done.  After an error of the agent's, and after the end, nothing more is
\* read.  With no terminal left it fails when it sets the file event, if there is
\* something to write and nothing was: the buffer is lost and reading ends,
\* until the next terminal.
ReadDone(m) ==
  /\ UNCHANGED <<writeCount, writes, peer>>
  /\ \/ m.st = "lost" /\ SetError /\ readCount' = readCount - 1 /\ UNCHANGED <<sockBufs, eos, reading>>
     \/ /\ m.st = "error" \/ (m.st = "ok" /\ (m.buf = NoData \/ (client = 0 /\ sockBufs = <<>>)))
        /\ readCount' = readCount - 1
        /\ eos' = (eos \/ (m.st = "ok" /\ m.buf = NoData))
        /\ UNCHANGED <<listening, failed, client, eofSeen, readable, writable, sockIn, sockBufs, reading>>
     \/ /\ m.st = "ok" /\ m.buf # NoData /\ ~(client = 0 /\ sockBufs = <<>>)
        /\ sockBufs' = Append(sockBufs, m.buf)
        /\ writable' = (writable \/ sockBufs = <<>>)
        /\ ReadAgain
        /\ UNCHANGED <<listening, eos, failed, client, eofSeen, readable, sockIn>>

\* The callback of the next reply; those of a deleted instance do nothing.
Reply ==
  /\ replies # <<>>
  /\ replies' = Tail(replies)
  /\ LET m == Head(replies)
     IN IF ~exists THEN UNCHANGED <<instance, sockIn, peer, writes, reading>>
        ELSE /\ IF m.op = "write" THEN WriteDone(m) ELSE ReadDone(m)
             /\ UNCHANGED exists
  /\ UNCHANGED <<came, typed, got, failing, link, uartIn, uartOut, printed>>

\* The commands of the kinds ops that wait at the agent are answered with st.
AnswerAll(ops, st) ==
  /\ writes' = IF "write" \in ops THEN <<>> ELSE writes
  /\ reading' = (reading /\ "read" \notin ops)
  /\ replies' = replies
         \o (IF "write" \in ops THEN [i \in DOMAIN writes |-> WriteReply(st)] ELSE <<>>)
         \o (IF reading /\ "read" \in ops THEN <<ReadReply(st, NoData)>> ELSE <<>>)
  /\ UNCHANGED <<instance, terminal, failing, uartIn, uartOut, printed>>

\* jtagterminal -stop disconnects the stream of the output, then that of the input.
Disconnect ==
  /\ exists
  /\ \/ link = "up" /\ link' = "half" /\ AnswerAll({"read"}, "error")
     \/ link = "half" /\ link' = "stopped" /\ AnswerAll({"write"}, "error")

\* Then the instance is deleted.
Delete ==
  /\ exists /\ link = "stopped"
  /\ exists' = FALSE /\ listening' = FALSE
  /\ ClientClose
  /\ UNCHANGED <<readCount, writeCount, sockBufs, eos, failed, came, typed, peer, got, agent>>

-----------------------------------------------------------------------------
(***************************************************************************)
(* The terminal and the agent (external).                                  *)
(***************************************************************************)
TerminalTypes ==
  /\ client # 0 /\ peer = "up" /\ typed < Typed
  /\ typed' = typed + 1
  /\ sockIn' = Append(sockIn, <<client, typed + 1>>)
  /\ UNCHANGED <<instance, came, peer, got, agent>>

TerminalCloses ==
  /\ client # 0 /\ peer = "up"
  /\ peer' = "closed"
  /\ UNCHANGED <<instance, came, typed, sockIn, got, agent>>

\* A terminal breaks off, or has closed while output was still on its way; data that was not
\* read may be dropped.
TerminalResets ==
  /\ client # 0 /\ peer \in {"up", "closed"} /\ ~eofSeen
  /\ peer' = "reset" /\ sockIn' \in {sockIn, <<>>}
  /\ UNCHANGED <<instance, came, typed, got, agent>>

UartPrints ==
  /\ printed < Printed
  /\ printed' = printed + 1
  /\ uartOut' = Append(uartOut, printed + 1)
  /\ UNCHANGED <<instance, terminal, failing, link, writes, reading, uartIn, replies>>

\* The errors that a command may meet when its stream is connected or not.
FailedWith(connected) ==
  IF link = "lost" THEN {"lost"}
  ELSE IF connected /\ ~failing THEN {} ELSE {"error"}

WritesConnected == link \in {"up", "half"}
ReadsConnected == link = "up"

AgentWrites ==
  /\ writes # <<>>
  /\ writes' = Tail(writes)
  /\ \/ /\ WritesConnected
        /\ uartIn' = Append(uartIn, Head(writes))
        /\ replies' = Append(replies, WriteReply("ok"))
     \/ /\ \E st \in FailedWith(WritesConnected) : replies' = Append(replies, WriteReply(st))
        /\ UNCHANGED uartIn
  /\ UNCHANGED <<instance, terminal, failing, link, reading, uartOut, printed>>

AgentReads ==
  /\ reading
  /\ \/ /\ ReadsConnected /\ uartOut # <<>>
        /\ replies' = Append(replies, ReadReply("ok", Head(uartOut)))
        /\ uartOut' = Tail(uartOut)
     \/ /\ failing /\ ReadsConnected /\ uartOut = <<>>
        /\ replies' = Append(replies, ReadReply("ok", NoData))
        /\ UNCHANGED uartOut
     \/ /\ \E st \in FailedWith(ReadsConnected) : replies' = Append(replies, ReadReply(st, NoData))
        /\ UNCHANGED uartOut
  /\ reading' = FALSE
  /\ UNCHANGED <<instance, terminal, failing, link, writes, uartIn, printed>>

ChannelLost == link \in {"up", "half"} /\ link' = "lost" /\ AnswerAll({"write", "read"}, "lost")

-----------------------------------------------------------------------------
Handlers == SockReadable \/ SockWritable \/ Reply
Agent == AgentWrites \/ AgentReads

Next ==
  \/ Accept \/ Handlers \/ Disconnect \/ Delete
  \/ TerminalTypes \/ TerminalCloses \/ TerminalResets \/ UartPrints \/ Agent \/ ChannelLost

Spec == Init /\ [][Next]_vars

\* The event loop serves every socket and reply (update_poll), the agent goes on.
FairSpec ==
  /\ Spec
  /\ WF_vars(SockReadable) /\ WF_vars(SockWritable) /\ WF_vars(Reply)
  /\ WF_vars(AgentWrites) /\ WF_vars(AgentReads)

-----------------------------------------------------------------------------
(***************************************************************************)
(* Properties                                                              *)
(***************************************************************************)
Buffers == (1 .. Clients) \X (1 .. Typed)

\* The types of the variables.
TypeOK ==
  /\ exists \in BOOLEAN /\ listening \in BOOLEAN /\ client \in 0 .. Clients
  /\ eofSeen \in BOOLEAN /\ readable \in BOOLEAN /\ writable \in BOOLEAN
  /\ readCount \in 0 .. 1 /\ writeCount \in 0 .. WriteLimit
  /\ sockBufs \in Seq(1 .. Printed) /\ eos \in BOOLEAN /\ failed \in BOOLEAN
  /\ came \in 0 .. Clients /\ typed \in 0 .. Typed
  /\ sockIn \in Seq(Buffers) /\ peer \in {"up", "closed", "reset", "aborted"}
  /\ got \in [1 .. Clients -> Seq(1 .. Printed)]
  /\ failing \in BOOLEAN /\ link \in {"up", "half", "stopped", "lost"} /\ reading \in BOOLEAN
  /\ writes \in Seq(Buffers) /\ uartIn \in Seq(Buffers)
  /\ uartOut \in Seq(1 .. Printed) /\ printed \in 0 .. Printed

\* The counts are those of the unanswered commands, and stay within their limits, however
\* terminals come and go and the streams are disconnected.
Unanswered(op) == Cardinality({i \in DOMAIN replies : replies[i].op = op})

CountsExact ==
  exists => /\ writeCount = Len(writes) + Unanswered("write")
            /\ readCount = (IF reading THEN 1 ELSE 0) + Unanswered("read")
            /\ writeCount <= WriteLimit /\ readCount <= 1

\* What is printed comes out of the sockets in the order in which it was printed.
OutputInOrder ==
  \A k \in 1 .. Clients : \A i, j \in DOMAIN got[k] : i < j => got[k][i] < got[k][j]

\* What a terminal has typed reaches the UART, unless the terminal breaks off or is stopped;
\* so does everything that waits behind unanswered writes.  After an error of the
\* agent's stream_write_done does not go on reading (line 45).
TypedArrives == (client # 0 /\ sockIn # <<>> /\ ~failing) ~> (sockIn = <<>> \/ link # "up")


\* A terminal that closes in order makes room for the next one, whatever waits to be sent or
\* to be written.  One that has been reset may keep the only connection for good,
\* when the error has taken the event of its socket away.
TerminalReleased ==
  \A k \in 1 .. Clients :
    (client = k /\ peer = "closed" /\ ~failing) ~> (client # k \/ peer # "closed" \/ link # "up")
=============================================================================
