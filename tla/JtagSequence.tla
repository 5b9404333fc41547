----------------------------- MODULE JtagSequence -----------------------------
(***************************************************************************)
(* JTAG sequence objects (jtag_sequence.tcl and the "jtag sequence"        *)
(* commands of jtag.tcl): the user appends commands, and "run" turns them  *)
(* into one Jtag sequence command of the agent.                            *)
(*                                                                         *)
(* A sequence keeps its commands and one buffer, inbuf, with the data of   *)
(* all shifts.  Before it is sent, fmt_cmds_data replaces the one byte that*)
(* stands for a register name by the register's code, whose length is only *)
(* known then, and inserts the compare values and masks; it finds the      *)
(* places by adding up the lengths of the commands before.  The result is  *)
(* one buffer too, and is cut into one value per captured shift and pin.   *)
(*                                                                         *)
(* A byte is modelled as <<command index, what it is of, its number>>.     *)
(***************************************************************************)
EXTENDS Integers, Sequences, SequencesExt

CONSTANTS
  MaxCmds,       \* bound: commands of a sequence
  ShiftBytes,    \* the lengths of shifts, in bytes
  IrBytes,       \* the length of the instruction register, in bytes
  Shifts,        \* the ways data is given: "data", "value", "register"; or "rejected"
  Pins           \* whether pins are read

ASSUME SequenceAssumption ==
  /\ MaxCmds \in Nat /\ ShiftBytes \subseteq Nat \ {0} /\ IrBytes \in Nat \ {0}
  /\ Shifts \subseteq {"data", "value", "register", "rejected"} /\ Pins \in BOOLEAN

VARIABLES
  cmds,          \* the commands of the sequence object
  inbuf,         \* their data
  sent,          \* the commands and the data sent, if the last operation was a run
  values         \* what that run returned: [st |-> "none", "ok" or "error", list],
                 \*   "none" also when the agent has answered with an error

sequenceVars == <<cmds, inbuf, sent, values>>

Bytes(i, of, n) == [k \in 1 .. n |-> <<i, of, k>>]

NothingSent == [cmds |-> <<>>, data |-> <<>>]
NoValues == [st |-> "none", list |-> <<>>]

\* A command: only shifts have a length, a register, a comparison and a captured value.
Other == [op |-> "other", bytes |-> 0, from |-> "none", capture |-> FALSE, compare |-> FALSE]
GetPin == [Other EXCEPT !.op = "getPin"]
Shift(from, n, capture, compare) ==
  [op |-> "shift", bytes |-> n, from |-> from, capture |-> capture, compare |-> compare]
-----------------------------------------------------------------------------
SequenceInit == cmds = <<>> /\ inbuf = <<>> /\ sent = NothingSent /\ values = NoValues

AddCommand(cmd, data) ==
  /\ Len(cmds) < MaxCmds
  /\ cmds' = Append(cmds, cmd)
  /\ inbuf' = inbuf \o data
  /\ sent' = NothingSent /\ values' = NoValues

\* state, delay, set_pin, atomic and progress: no data and no result.
AddOther == AddCommand(Other, <<>>)

AddGetPin == Pins /\ AddCommand(GetPin, <<>>)

\* irshift and drshift.  With -tdi the value is a property of the command; without, the
\* data is appended: for -register one byte, the length of the shift being 1 bit.
\* Data that has not the length of the shift is rejected with an error, but only
\* after the command was appended, and dict with stores what was: the command
\* stays, and its data is missing.  The program does not tell it from one of "data".
AddShift ==
  \E from \in Shifts, n \in ShiftBytes, capture, compare \in BOOLEAN :
    LET i == Len(cmds) + 1
        length == IF from = "register" THEN 1 ELSE n
    IN AddCommand(Shift(from, length, capture, compare),
                  CASE from \in {"value", "rejected"} -> <<>>
                    [] from = "data"                 -> Bytes(i, "tdi", n)
                    [] from = "register"             -> Bytes(i, "hole", 1))

Clear == cmds' = <<>> /\ inbuf' = <<>> /\ sent' = NothingSent /\ values' = NoValues

\* The command that is sent: the length of a register shift is that of the register.
Resolved(cmd) == IF cmd.from = "register" THEN [cmd EXCEPT !.bytes = IrBytes] ELSE cmd

\* Tcl's string replace of the byte at offset o, and the insertion at o; an offset behind
\* the end replaces nothing and appends.
Replace(s, o, v) ==
  IF o < Len(s) THEN SubSeq(s, 1, o) \o v \o SubSeq(s, o + 2, Len(s)) ELSE s

Insert(s, o, v) ==
  LET p == IF o < Len(s) THEN o ELSE Len(s)
  IN SubSeq(s, 1, p) \o v \o SubSeq(s, p + 1, Len(s))

\* Faulty Length: that of a register shift is not looked up.
LengthUnresolved(cmd) == cmd.bytes

Length(cmd) == Resolved(cmd).bytes

\* One turn of the loop of fmt_cmds_data: the offset o and the buffer after command i.
\* A shift's length is added whether or not its data is in the buffer, and a pin
\* counts for a byte.
Step(i, cmd, e) ==
  LET n == Resolved(cmd).bytes
      filled == IF cmd.from = "register" THEN Replace(e.buf, e.o, Bytes(i, "ir", n)) ELSE e.buf
      end == e.o + Length(cmd)
  IN CASE cmd.op = "shift" /\ cmd.compare ->
            [o |-> end + 2 * n, buf |-> Insert(filled, end, Bytes(i, "cmp", n) \o Bytes(i, "mask", n))]
       [] cmd.op = "shift" /\ ~cmd.compare -> [o |-> end, buf |-> filled]
       [] cmd.op = "getPin"                -> [e EXCEPT !.o = @ + 1]
       [] OTHER                            -> e

Encoded ==
  LET e[i \in 0 .. Len(cmds)] ==
        IF i = 0 THEN [o |-> 0, buf |-> inbuf] ELSE Step(i, cmds[i], e[i - 1])
  IN e[Len(cmds)].buf

\* What the agent returns (external): the captured bits and the pins, in order.
ResultOf(i, cmd) ==
  CASE cmd.op = "shift" /\ cmd.capture -> Bytes(i, "tdo", cmd.bytes)
    [] cmd.op = "getPin"               -> Bytes(i, "pin", 1)
    [] OTHER                           -> <<>>

Result(cs) == FlattenSeq([i \in DOMAIN cs |-> ResultOf(i, cs[i])])

\* Faulty CutBytes: a pin has no value.
TakenByShift(cmd) == IF cmd.op = "shift" /\ cmd.capture THEN cmd.bytes ELSE 0

\* The bytes of the result that belong to a command.
CutBytes(cmd) == IF cmd.op = "getPin" THEN 1 ELSE IF cmd.capture THEN cmd.bytes ELSE 0

\* The result is cut into one value per captured shift and pin.
Cut(result, cs) ==
  LET c[i \in 0 .. Len(cs)] ==
        IF i = 0 THEN [o |-> 0, list |-> <<>>]
        ELSE LET n == CutBytes(cs[i])
                 v == SubSeq(result, c[i - 1].o + 1, c[i - 1].o + n)
             IN IF n = 0 THEN c[i - 1]
                ELSE [o |-> c[i - 1].o + n, list |-> Append(c[i - 1].list, v)]
      end == c[Len(cs)]
  IN IF end.o = Len(result) THEN [st |-> "ok", list |-> end.list]
     ELSE [st |-> "error", list |-> <<>>]

\* run: the sequence itself is not changed, and may be run again.  The agent may answer with
\* an error, as it has to when data is missing.
Run ==
  /\ sent' = [cmds |-> [i \in DOMAIN cmds |-> Resolved(cmds[i])], data |-> Encoded]
  /\ values' \in {NoValues, Cut(Result(sent'.cmds), sent'.cmds)}
  /\ UNCHANGED <<cmds, inbuf>>

SequenceNext == AddOther \/ AddGetPin \/ AddShift \/ Clear \/ Run

SequenceSpec == SequenceInit /\ [][SequenceNext]_sequenceVars
-----------------------------------------------------------------------------
(***************************************************************************)
(* Properties                                                              *)
(***************************************************************************)

\* The data that command i needs: what is shifted in, then the value and the mask it is
\* compared with.
DataOf(i, cmd) ==
  (CASE cmd.from \in {"data", "rejected"} -> Bytes(i, "tdi", cmd.bytes)
     [] cmd.from = "register"           -> Bytes(i, "ir", cmd.bytes)
     [] OTHER                           -> <<>>)
  \o (IF cmd.compare THEN Bytes(i, "cmp", cmd.bytes) \o Bytes(i, "mask", cmd.bytes) ELSE <<>>)

\* "Return format, commands and data for sequence" (line 107): the data sent is that of the
\* commands, one after the other, so that every shift gets the bits meant for it.
DataMatchesCommands ==
  sent.data = FlattenSeq([i \in DOMAIN sent.cmds |-> DataOf(i, sent.cmds[i])])

\* No pin, and no shift whose value is not in the data, comes before anything that is
\* put in.
OffsetsCount ==
  \A i, k \in DOMAIN sent.cmds :
    k <= i /\ (sent.cmds[i].from = "register" \/ sent.cmds[i].compare)
      => sent.cmds[k].op # "getPin" /\ sent.cmds[k].from # "value"

\* No shift of the sequence was rejected.
NoneRejected == \A k \in DOMAIN sent.cmds : sent.cmds[k].from # "rejected"

\* In a sequence of which no shift was rejected, where the offsets count the data, register
\* codes of any length, values and masks are put in their places, however often
\* the sequence was run, cleared and extended.  With a rejected shift, whose data
\* is missing, what comes behind it is shifted in too early.
DataInPlace == NoneRejected /\ OffsetsCount => DataMatchesCommands

\* The value that a command has in the list.
ValueOf(i, cmd) == IF ResultOf(i, cmd) = <<>> THEN <<>> ELSE <<ResultOf(i, cmd)>>

\* "The return value is a list with one entry for every shift with -capture and every
\* get_pin" (jtag.tcl 547-548), and each entry is the value of its command: what the
\* agent returns is used up exactly, whatever the sequence.
OneValuePerCapture ==
  values.st # "none" =>
    values = [st |-> "ok", list |-> FlattenSeq([i \in DOMAIN sent.cmds |-> ValueOf(i, sent.cmds[i])])]
=============================================================================
