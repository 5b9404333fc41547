------------------------------ MODULE Algorithms ------------------------------
(***************************************************************************)
(* The pure algorithms against their definitions, for the inputs that are  *)
(* given: the plan of a download, the arithmetic of multiple words, the    *)
(* digit vectors and the conversion of byte orders.                        *)
(***************************************************************************)
EXTENDS ElfPlan, ApWords, ScDigits, EndianConv, FiniteSets

CONSTANTS
  Files,       \* [phlist, clear, profile, entry]: program headers and how they are loaded
  Operands,    \* [x, y]: pairs of numbers
  Ranges,      \* [x, mark1, mark2]: numbers and ranges of their bits
  Copies,      \* [v, w, nb]: pairs of digit vectors, and a width for the first
  Payloads     \* [f, D, bus, txn]: payloads and how they are converted

Header == [type : Nat, offset : Nat, filesz : Nat, memsz : Nat, paddr : Nat]
Number == Seq(0 .. (Word - 1)) \ {<<>>}
Vector == [sgn : {Neg, Zero, Pos}, nb : Nat \ {0}, digit : Seq(0 .. (DigitRadix - 1)) \ {<<>>}]

\* The number that places stand for, the least significant first.
Positional(radix, places) == FoldRight(LAMBDA place, sum : place + radix * sum, places, 0)

DigitsValue(d) == Positional(DigitRadix, d)
HeldValue(v) == v.sgn * DigitsValue(v.digit)

\* A number as it is kept: in the digits of its width, in the range of its width, and with
\* the sign of 0 just when it is 0.
Kept(v) ==
  /\ Len(v.digit) = DivCeil(v.nb)
  /\ HeldValue(v) \in (-(2 ^ (v.nb - 1))) .. (2 ^ (v.nb - 1) - 1)
  /\ v.sgn = Zero <=> DigitsValue(v.digit) = 0

ASSUME InputsAssumption ==
  /\ Files \subseteq [phlist : Seq(Header), clear : BOOLEAN, profile : Nat, entry : BOOLEAN]
  /\ Operands \subseteq [x : Number, y : Number]
  /\ Ranges \subseteq [x : Number, mark1 : Nat, mark2 : Nat]
  /\ \A range \in Ranges : range.mark2 <= range.mark1
  /\ Copies \subseteq [v : Vector, w : Vector, nb : Nat \ {0}]
  /\ \A copy \in Copies : Kept(copy.v)

ASSUME PayloadsAssumption ==
  /\ Payloads \subseteq [ f : {"generic", "word", "aligned", "single"}, D : Nat, bus : Nat, txn : Payload ]
  /\ \A p \in Payloads :
       PowerOf2(p.D) /\ PowerOf2(p.bus) /\ InLimits(p.f, p.txn, p.D, p.bus)

VARIABLE input    \* what an algorithm is applied to, and its name in input.of

\* An input is chosen in two steps, the first of which fixes the algorithm.
AlgorithmNames == {"plan", "words", "range", "digits", "payload"}
ToChoose(algorithm) == [of |-> "none", next |-> algorithm]

-----------------------------------------------------------------------------
ToInput == \E algorithm \in AlgorithmNames : input = ToChoose(algorithm)

PlanInput ==
  /\ input = ToChoose("plan")
  /\ \E file \in Files : input' = [of |-> "plan", file |-> file]

WordsInput ==
  /\ input = ToChoose("words")
  /\ \E pair \in Operands : input' = [of |-> "words", x |-> pair.x, y |-> pair.y]

RangeInput ==
  /\ input = ToChoose("range")
  /\ \E range \in Ranges :
       input' = [of |-> "range", x |-> range.x, mark1 |-> range.mark1, mark2 |-> range.mark2]

DigitsInput ==
  /\ input = ToChoose("digits")
  /\ \E copy \in Copies : input' = [of |-> "digits", v |-> copy.v, w |-> copy.w, nb |-> copy.nb]

PayloadInput ==
  /\ input = ToChoose("payload")
  /\ \E payload \in Payloads :
       input' = [ of |-> "payload", f |-> payload.f, D |-> payload.D, bus |-> payload.bus,
                  txn |-> payload.txn ]

Choose == PlanInput \/ WordsInput \/ RangeInput \/ DigitsInput \/ PayloadInput

InputSpec == ToInput /\ [][Choose]_input

-----------------------------------------------------------------------------
(* The plan of a download *)

PlanOf(file) == ElfActions(file.phlist, file.clear, file.profile, file.entry)

Loaded(phlist) == {i \in DOMAIN phlist : phlist[i].type = PTLoad}

\* The bytes of a segment: its address and what it is, one of the file's or a zero.
FileBytes(ph) == {<<ph.paddr + b, "file", ph.offset + b>> : b \in 0 .. (ph.filesz - 1)}
ZeroBytes(ph) == {<<ph.paddr + b, "zero", 0>> : b \in ph.filesz .. (ph.memsz - 1)}
SegmentImage(ph, bss) == FileBytes(ph) \cup IF bss THEN ZeroBytes(ph) ELSE {}

\* The image: without -clear the bytes that are not in the file are left as they are.
Image(phlist, bss) == UNION {SegmentImage(phlist[i], bss) : i \in Loaded(phlist)}

Occupied(ph) ==
  ph.paddr .. (ph.paddr + (IF ph.filesz < ph.memsz THEN ph.memsz ELSE ph.filesz) - 1)

Apart(phlist) ==
  \A i, k \in Loaded(phlist) : i # k => Occupied(phlist[i]) \cap Occupied(phlist[k]) = {}

Written(a) ==
  CASE a.op = "copy"  -> {<<a.addr + b, "file", a.off + b>> : b \in 0 .. (a.size - 1)}
    [] a.op = "clear" -> {<<a.addr + b, "zero", 0>> : b \in 0 .. (a.size - 1)}
    [] OTHER          -> {}

Cover(actions) == UNION {Written(actions[k]) : k \in DOMAIN actions}

\* The actions that "open" appends write exactly the image that the headers describe
\* (xsdb.tcl 470-484): filesz bytes of the file, zeroes up to memsz, and nothing for
\* a segment that is not PT_LOAD; and total_bytes, which the progress display and
\* the division at line 275 use, is the number of bytes of the image, if no byte has
\* two segments.
PlanExact ==
  input.of = "plan" =>
    LET file == input.file
    IN /\ Cover(PlanOf(file)) = Image(file.phlist, file.clear)
       /\ Apart(file.phlist) => TotalBytes(PlanOf(file)) = Cardinality(Image(file.phlist, file.clear))

-----------------------------------------------------------------------------
(* The arithmetic of words *)

WordsValue(x) == Positional(Word, x)
Extended(x, n, signed) == [k \in 1 .. n |-> WordAt(x, k, signed)]
Longer(m, n) == IF m < n THEN n ELSE m

\* A sum and a difference are right, with the carry or the borrow as one more word
\* behind dest, whatever chains of carries run through the words; numbers of
\* different lengths are subtracted by their extensions.  (add of different lengths
\* loses a carry: see AddSpills.)
SumsExact ==
  input.of = "words" =>
    LET x == input.x
        y == input.y
        plus1 == add_1(x, y[1])
        minus1 == sub_1(x, y[1])
    IN /\ WordsValue(Append(plus1.dest, plus1.carry)) = WordsValue(x) + y[1]
       /\ WordsValue(Append(minus1.dest, -minus1.carry)) = WordsValue(x) - y[1]
       /\ Len(x) = Len(y) =>
            LET sum == add(x, y, Len(x), FALSE, FALSE)
            IN WordsValue(Append(sum.dest, sum.carry)) = WordsValue(x) + WordsValue(y)
       /\ \A destlen \in 1 .. Longer(Len(x), Len(y)), signed \in BOOLEAN :
            LET difference == sub(x, y, destlen, signed, signed)
                part(z) == WordsValue(Extended(z, destlen, signed))
            IN WordsValue(Append(difference.dest, -difference.carry)) = part(x) - part(y)

\* "This function adds the integer array x to the integer array Y and places the result
\* in dest" (APUtils.h 555-556), also when one of them is longer.
AddSpills ==
  input.of = "words" =>
    LET x == input.x
        y == input.y
        sum == add(x, y, Longer(Len(x), Len(y)), FALSE, FALSE)
    IN WordsValue(Append(sum.dest, sum.carry)) = WordsValue(x) + WordsValue(y)

\* Words of x and y for which the middle digits of their product may wrap to more than 0,
\* which hasCarry does not count.
Overrun(xword, yword) ==
  /\ Hi(xword) = Base - 1 /\ Lo(xword) < Base - 1
  /\ Lo(yword) = Base - 1 /\ Hi(yword) < Base - 1
  /\ Lo(xword) + Hi(yword) >= Base
Overruns(x, y) == \E j \in DOMAIN x, i \in DOMAIN y : Overrun(x[j], y[i])

\* The product of two numbers is complete when dest is as long as both (lines 664-667),
\* whatever dest held before and however the carries of the digits run into each
\* other, and mul_add adds it to dest, as long as no middle sum of digits wraps to
\* more than 0 (see ProductExact).
MulExact ==
  input.of = "words" /\ ~Overruns(input.x, input.y) =>
    LET x == input.x
        y == input.y
        product == WordsValue(x) * WordsValue(y)
    IN /\ WordsValue(mul(y \o x, x, y)) = product
       /\ WordsValue(mul_add(y \o x, x, y, FALSE))
            = (WordsValue(y \o x) + product) % 2 ^ (WordBits * (Len(x) + Len(y)))

\* "Multiplies an integer array, x by a uint64_t integer and places the result into
\* dest. @returns the carry out of the multiplication." (APUtils.h 625-627)
ProductExact ==
  input.of = "words" =>
    LET row == mul_1(input.x, input.y[1])
    IN WordsValue(Append(row.dest, row.carry)) = WordsValue(input.x) * input.y[1]

Divisible == WordsValue(input.y) # 0 /\ WordsValue(input.y) <= WordsValue(input.x)
Quotient == divide(input.x, input.y)

\* Quotient and remainder are those of the division, with trial digits that are too big
\* by one or two and borrows that run through the dividend, as long as no digit
\* has to be added back (see DivisionExact).
DivExact ==
  input.of = "words" /\ Divisible =>
    \/ Quotient.back
    \/ /\ WordsValue(Quotient.quotient) = WordsValue(input.x) \div WordsValue(input.y)
       /\ WordsValue(Quotient.remainder) = WordsValue(input.x) % WordsValue(input.y)

\* "Now q[...] is the desired quotient, and the desired remainder may be obtained by
\* dividing u[...] by d" (APUtils.h 860-861), after step D6 too: "Make sure that test
\* data accounts for this possibility" (843-844).
DivisionExact ==
  input.of = "words" /\ Divisible =>
    /\ WordsValue(Quotient.quotient) = WordsValue(input.x) \div WordsValue(input.y)
    /\ WordsValue(Quotient.remainder) = WordsValue(input.x) % WordsValue(input.y)

\* set and clear change the bits from mark2 to mark1, in one word or across several,
\* and no others.
RangesExact ==
  input.of = "range" =>
    \A index \in 0 .. (WordBits * Len(input.x) - 1) :
      LET inside == index \in input.mark2 .. input.mark1
      IN /\ get(set(input.x, input.mark1, input.mark2), index) = (inside \/ get(input.x, index))
         /\ get(clear(input.x, input.mark1, input.mark2), index) = (~inside /\ get(input.x, index))

-----------------------------------------------------------------------------
(* Digit vectors *)

\* A number that is copied into another width is the number modulo that width, in two's
\* complement for a signed one and without its highest bit for an unsigned one,
\* negative numbers and carries over several digits included; its sign is 0
\* only for 0.
CopyWraps ==
  input.of = "digits" =>
    LET v == input.v
        nb == input.nb
        range == 2 ^ nb
        signed == copy_digits_signed(nb, v)
        unsigned == copy_digits_unsigned(nb, v)
    IN /\ HeldValue(signed) = ((HeldValue(v) + range \div 2) % range) - range \div 2
       /\ HeldValue(unsigned) = HeldValue(v) % (range \div 2)
       /\ signed.sgn = Zero <=> DigitsValue(signed.digit) = 0
       /\ unsigned.sgn = Zero <=> DigitsValue(unsigned.digit) = 0

\* The comparison of magnitudes has the sign of their difference, for vectors of
\* different lengths too.
CompareMatches ==
  input.of = "digits" =>
    LET u == input.v.digit
        v == input.w.digit
        result == vec_skip_and_cmp(u, v)
    IN /\ result < 0 <=> DigitsValue(u) < DigitsValue(v)
       /\ result = 0 <=> DigitsValue(u) = DigitsValue(v)

-----------------------------------------------------------------------------
(* Byte orders *)

Converted == to_hostendian(input.f, input.txn, input.D, input.bus)

\* Where byte i of the initiator's payload lies in the host's memory: data words keep
\* their place in the bus, bytes their significance.
HostPlace(i) ==
  LET width == StreamWidth(input.txn)
      address == input.txn.addr + Aligned(i % width, input.D) + input.D - 1 - (i % input.D)
  IN Place(Flip(address, input.bus), i \div width)

\* A converted write sets the bytes of the host's memory that the initiator means, to
\* the values it means, and no others, for every alignment, length, enable
\* pattern and streaming width that the header allows (88-133).
WriteConverted ==
  input.of = "payload" /\ ~input.txn.read =>
    LET txn == input.txn
    IN {<<PlaceIn(Converted, i), Converted.data[i + 1]>> :
          i \in {j \in Offsets(Len(Converted.data)) : Enabled(Converted.be, j)}}
       = {<<HostPlace(i), txn.data[i + 1]>> : i \in {j \in Offsets(Len(txn.data)) : Enabled(txn.be, j)}}

\* The response to a converted read: every enabled byte holds what is at its place.
Response ==
  [Converted EXCEPT !.data = [k \in DOMAIN @ |->
     IF Enabled(Converted.be, k - 1) THEN PlaceIn(Converted, k - 1) ELSE @[k]]]

\* The data of a converted read come back to the bytes that the initiator has enabled,
\* and the others stay as they were.
ReadReturned ==
  input.of = "payload" /\ input.txn.read =>
    LET txn == input.txn
        data == from_hostendian(input.f, txn, Response, input.D, input.bus)
    IN \A k \in DOMAIN txn.data :
         data[k] = IF Enabled(txn.be, k - 1) THEN HostPlace(k - 1) ELSE txn.data[k]
=============================================================================
