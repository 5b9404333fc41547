------------------------------ MODULE EndianConv ------------------------------
(***************************************************************************)
(* The conversion of a generic payload between the byte order of an        *)
(* initiator and that of the host (tlm_endian_conv.h): the four pairs of   *)
(* functions to_hostendian (before the transaction) and from_hostendian    *)
(* (after it).                                                             *)
(*                                                                         *)
(* A payload is [read, addr, data, be, width]: data and be are sequences   *)
(* (byte i of the source is element i + 1), be is empty for a null pointer *)
(* to byte enables, and width is the streaming width.  D is the size of a  *)
(* data word, bus that of a bus word, both powers of 2.                    *)
(***************************************************************************)
EXTENDS Integers, Sequences, SequencesExt

\* Names the place of an address in one of the repetitions of a streamed payload.
CONSTANT Place(_, _)

\* Words and payloads.
PowerOf2(n) == \E m \in 0 .. n : n = 2 ^ m
Payload == [ read : BOOLEAN, addr : Nat, data : Seq(Nat) \ {<<>>}, be : Seq(BOOLEAN), width : Nat \ {0} ]

Junk == 0      \* what a new buffer holds where nothing is copied

\* An address with its offset in the bus word counted from the other end: addr ^ (bus - 1).
Flip(addr, bus) == addr + bus - 1 - 2 * (addr % bus)
Aligned(addr, bus) == addr - (addr % bus)
Offsets(n) == 0 .. (n - 1)

\* Where byte i of a payload lies that is in the order of its addresses.
PlaceIn(txn, i) == Place(txn.addr + (i % txn.width), i \div txn.width)

\* Byte i of data; whether it is enabled, for enables that repeat after their length.
Enabled(be, i) == be = <<>> \/ be[(i % Len(be)) + 1]

\* The new buffers of n bytes, from the pairs <<from, to>> of bytes that are copied.
NewData(n, pairs, data) ==
  [k \in 1 .. n |-> IF \E p \in pairs : p[2] = k - 1
                    THEN data[(CHOOSE p \in pairs : p[2] = k - 1)[1] + 1] ELSE Junk]
NewEnables(n, pairs, be) == [k \in 1 .. n |-> \E p \in pairs : p[2] = k - 1 /\ Enabled(be, p[1])]

-----------------------------------------------------------------------------
(* Function set 0: generic, byte by byte *)

StreamWidth(txn) == IF txn.width >= Len(txn.data) THEN Len(txn.data) ELSE txn.width

\* The stream word in whole bus words.
NewStreamWidth(txn, bus) ==
  Aligned(txn.addr + StreamWidth(txn) - 1, bus) - Aligned(txn.addr, bus) + bus

\* Faulty GenericPairs: the bytes of a data word keep their order.
GenericPairsInOrder(txn, D, bus) ==
  LET width == StreamWidth(txn)
      heIndex(i) == Flip(txn.addr + (i % width), bus)
                    - Aligned(txn.addr, bus) + (i \div width) * NewStreamWidth(txn, bus)
  IN {<<i, heIndex(i)>> : i \in Offsets(Len(txn.data))}

\* loop_generic0: the bytes of a data word from the last to the first have ascending
\* addresses, which are flipped in the bus word.
GenericPairs(txn, D, bus) ==
  LET width == StreamWidth(txn)
      ieAddr(i) == txn.addr + ((i % width) \div D) * D + D - 1 - (i % D)
      heIndex(i) == Flip(ieAddr(i), bus)
                    - Aligned(txn.addr, bus) + (i \div width) * NewStreamWidth(txn, bus)
  IN {<<i, heIndex(i)>> : i \in Offsets(Len(txn.data))}

to_generic(txn, D, bus) ==
  LET n == NewStreamWidth(txn, bus) * (Len(txn.data) \div StreamWidth(txn))
      pairs == GenericPairs(txn, D, bus)
  IN [ read |-> txn.read, addr |-> Aligned(txn.addr, bus), width |-> NewStreamWidth(txn, bus),
       data |-> NewData(n, IF txn.read THEN {} ELSE pairs, txn.data),
       be |-> NewEnables(n, pairs, txn.be) ]

\* The data of the initiator after the response he.
from_generic(txn, he, D, bus) ==
  LET source(i) == (CHOOSE p \in GenericPairs(txn, D, bus) : p[1] = i)[2] + 1
  IN [k \in DOMAIN txn.data |-> IF txn.read /\ he.be[source(k - 1)] THEN he.data[source(k - 1)]
                                                                   ELSE txn.data[k]]

-----------------------------------------------------------------------------
(* Function set 1: word by word, for every alignment *)

\* One fragment of n bytes at src, copied if src is in the original buffer.  The
\* enable of a copied word is the one of its first byte.
Fragment(s, n, len, move) ==
  IF s.done THEN s
  ELSE IF s.src \in Offsets(len)
  THEN [ src |-> s.src + move, dest |-> s.dest + n, left |-> s.left - n, done |-> s.left <= n,
         pairs |-> s.pairs \cup {<<s.src + i, s.dest + i, IF move < 0 THEN s.src ELSE s.src + i>>
                                  : i \in Offsets(n)} ]
  ELSE [s EXCEPT !.src = @ + move, !.dest = @ + n]

Skip(s, n) == [s EXCEPT !.src = @ + n]

\* The data words of a bus word, in descending order.
WholeWords(s, len, D, bus) ==
  FoldLeft(LAMBDA t, i : Fragment(t, D, len, -D), s, [i \in 1 .. ((bus \div D) - 1) |-> i])

\* A bus word: the tail of a data word, the data words that lie in it and the head of one.
BusWord(s, len, len0, D, bus) ==
  LET tail == Skip(Fragment(s, len0, len, len0), -2 * D)
  IN Skip(Fragment(WholeWords(tail, len, D, bus), D - len0, len, D - len0), 2 * bus)

\* loop_word1: bus word by bus word until all bytes are copied.
WordLoop(txn, D, bus) ==
  LET len == Len(txn.data)
      offset == txn.addr % bus
      len0 == (bus - offset) % D
  IN FoldLeft(LAMBDA s, k : BusWord(s, len, len0, D, bus),
              [ src |-> (bus - offset) - len0 + (D - len0), dest |-> 0, left |-> len,
                done |-> FALSE, pairs |-> {} ],
              [k \in 1 .. (len \div bus) + 2 |-> k])

to_word(txn, D, bus) ==
  LET loop == WordLoop(txn, D, bus)
  IN [ read |-> txn.read, addr |-> Aligned(txn.addr, bus), width |-> loop.dest,
       data |-> NewData(loop.dest, IF txn.read THEN {} ELSE loop.pairs, txn.data),
       be |-> NewEnables(loop.dest, loop.pairs, txn.be) ]

\* Faulty from_word: bytes that are not enabled are copied too.
from_wordAll(txn, he, D, bus) ==
  LET pairs == WordLoop(txn, D, bus).pairs
  IN [k \in DOMAIN txn.data |->
       IF txn.read /\ \E p \in pairs : p[1] = k - 1
       THEN he.data[(CHOOSE p \in pairs : p[1] = k - 1)[2] + 1] ELSE txn.data[k]]

from_word(txn, he, D, bus) ==
  LET pairs == {p \in WordLoop(txn, D, bus).pairs : Enabled(txn.be, p[3])}
  IN [k \in DOMAIN txn.data |->
       IF txn.read /\ \E p \in pairs : p[1] = k - 1
       THEN he.data[(CHOOSE p \in pairs : p[1] = k - 1)[2] + 1] ELSE txn.data[k]]

-----------------------------------------------------------------------------
(* Function set 2: aligned, the data words of each bus word in reverse *)

\* loop_aligned2 over the bytes of n words of D bytes.
AlignedPairs(n, D, bus) ==
  {<<Aligned(i, bus) + bus - D - Aligned(i % bus, D) + (i % D), i>> : i \in Offsets(n)}

to_aligned(txn, D, bus) ==
  LET n == Len(txn.data)
      pairs == AlignedPairs(n, D, bus)
  IN IF bus = D THEN txn
     ELSE [txn EXCEPT !.data = NewData(n, IF txn.read THEN {} ELSE pairs, txn.data),
                      !.be = IF txn.be = <<>> THEN <<>> ELSE NewEnables(n, pairs, txn.be)]

\* The first byte of a word of the response's enables decides for the word.
from_aligned(txn, he, D, bus) ==
  LET source(i) == (CHOOSE p \in AlignedPairs(Len(txn.data), D, bus) : p[2] = i)[1]
  IN IF bus = D THEN he.data
     ELSE [k \in DOMAIN txn.data |->
            IF txn.read /\ Enabled(he.be, Aligned(source(k - 1), D))
            THEN he.data[source(k - 1) + 1] ELSE txn.data[k]]

-----------------------------------------------------------------------------
(* Function set 3: a single word, by its address only *)

to_single(txn, D, bus) ==
  [txn EXCEPT !.addr = Aligned(@, bus) + bus - (@ % bus) - D]

from_single(txn, he, D, bus) == he.data

-----------------------------------------------------------------------------
(* The entry points *)

to_hostendian(function, txn, D, bus) ==
  CASE function = "generic" -> to_generic(txn, D, bus)
    [] function = "word"    -> to_word(txn, D, bus)
    [] function = "aligned" -> to_aligned(txn, D, bus)
    [] function = "single"  -> to_single(txn, D, bus)

from_hostendian(function, txn, he, D, bus) ==
  CASE function = "generic" -> from_generic(txn, he, D, bus)
    [] function = "word"    -> from_word(txn, he, D, bus)
    [] function = "aligned" -> from_aligned(txn, he, D, bus)
    [] function = "single"  -> from_single(txn, he, D, bus)

\* The limits of the functions in the header (lines 88-133): enables no finer than data
\* words and as long as the data, no streaming, whole or single bus words.
InLimits(function, txn, D, bus) ==
  LET len == Len(txn.data)
      plain == /\ D <= bus
               /\ txn.width >= len
               /\ txn.be # <<>> => /\ Len(txn.be) = len
                                   /\ \A k \in DOMAIN txn.be :
                                        txn.be[k] = txn.be[Aligned(k - 1, D) + 1]
  IN /\ len % D = 0
     /\ CASE function = "generic" -> StreamWidth(txn) % D = 0 /\ len % StreamWidth(txn) = 0
          [] function = "word"    -> plain
          [] function = "aligned" -> plain /\ txn.addr % bus = 0 /\ len % bus = 0
          [] function = "single"  -> plain /\ len = D /\ (txn.addr % bus) + D <= bus
=============================================================================
