-------------------------------- MODULE ApWords --------------------------------
(***************************************************************************)
(* The arithmetic of multiple words under the arbitrary precision integers *)
(* of HLS (hls::utilities in APUtils.h).  A number is a sequence of words, *)
(* the least significant first; a word (uint64_t) is two digits            *)
(* (uint32_t) of DigitBits bits each, and wraps.                           *)
(***************************************************************************)
EXTENDS Integers, Sequences, SequencesExt, FiniteSetsExt

CONSTANT DigitBits
ASSUME DigitBitsAssumption == DigitBits \in Nat \ {0}

Base == 2 ^ DigitBits          \* of a digit: b in KnuthDiv
Word == Base * Base            \* of a word

Lesser(a, b) == IF a <= b THEN a ELSE b
Bit(condition) == IF condition THEN 1 ELSE 0
Lo(word) == word % Base
Hi(word) == word \div Base
Loop(first, last) == [k \in 1 .. (IF last < first THEN 0 ELSE last - first + 1) |-> first + k - 1]

\* The two digits of each word, the lower one first, and back.
Digits(words) == [k \in 1 .. 2 * Len(words) |->
                   IF k % 2 = 1 THEN Lo(words[(k + 1) \div 2]) ELSE Hi(words[k \div 2])]
Words(digits) == [k \in 1 .. Len(digits) \div 2 |-> digits[2 * k - 1] + Base * digits[2 * k]]

\* The sign extension of a number that is read as signed or not.
Extension(x, signed) == IF signed /\ x[Len(x)] >= Word \div 2 THEN Word - 1 ELSE 0

-----------------------------------------------------------------------------
(* Addition and subtraction *)

\* The state of a loop over one number: its words, what is still to be taken or added,
\* and whether the loop is left early.
OneWordLoop(step(_, _), x, y) ==
  LET end == FoldLeft(step, [x |-> x, y |-> y, done |-> FALSE], Loop(1, Len(x)))
  IN [dest |-> end.x, carry |-> Bit(end.y # 0)]

\* sub_1: y is borrowed from word to word until none is needed.
Sub1Step(s, i) ==
  IF s.done THEN s
  ELSE [ x |-> [s.x EXCEPT ![i] = (@ - s.y + Word) % Word],
         y |-> Bit(s.y > s.x[i]), done |-> s.y <= s.x[i] ]
sub_1(x, y) == OneWordLoop(Sub1Step, x, y)

\* add_1, where dest is x.
Add1Step(s, i) ==
  LET sum == (s.y + s.x[i]) % Word
  IN IF s.done THEN s
     ELSE [x |-> [s.x EXCEPT ![i] = sum], y |-> Bit(sum < s.y), done |-> sum >= s.y]
add_1(x, y) == OneWordLoop(Add1Step, x, y)

\* Faulty AddStep: a carry that leaves the sum equal to a summand is lost.
AddStepOnce(s, a, b, same) ==
  LET sum == (a + b + s.carry) % Word
  IN [dest |-> Append(s.dest, sum), carry |-> Bit(sum < Lesser(a, b))]

\* One step of add: the sum wrapped, and the carry, found by comparing the sum with
\* the lesser summand, or after a carry with the word "same".
AddStep(s, a, b, same) ==
  LET sum == (a + b + s.carry) % Word
  IN [ dest |-> Append(s.dest, sum),
       carry |-> Bit(sum < Lesser(a, b) \/ (s.carry = 1 /\ sum = same)) ]

add(x, y, destlen, xsigned, ysigned) ==
  LET common == Lesser(Len(x), Len(y))
      both(s, i) == AddStep(s, x[i], y[i], Lesser(x[i], y[i]))
      xonly(s, i) == AddStep(s, x[i], Extension(y, ysigned), x[i])
      yonly(s, i) == AddStep(s, Extension(x, xsigned), y[i], y[i])
      sum == FoldLeft(both, [dest |-> <<>>, carry |-> 0], Loop(1, Lesser(common, destlen)))
  IN IF Len(x) > Len(y)
     THEN FoldLeft(xonly, sum, Loop(Len(y) + 1, Lesser(Len(x), destlen)))
     ELSE FoldLeft(yonly, sum, Loop(Len(x) + 1, Lesser(Len(y), destlen)))

\* One step of sub.
SubStep(s, a, b) ==
  LET tmp == IF s.carry = 1 THEN (a - 1 + Word) % Word ELSE a
  IN [ dest |-> Append(s.dest, (tmp - b + Word) % Word),
       carry |-> Bit(b > tmp \/ (s.carry = 1 /\ a = 0)) ]

\* A word of a number that is extended.
WordAt(num, i, signed) == IF i <= Len(num) THEN num[i] ELSE Extension(num, signed)

sub(x, y, destlen, xsigned, ysigned) ==
  LET step(s, i) == SubStep(s, WordAt(x, i, xsigned), WordAt(y, i, ysigned))
      longest == IF Len(x) > Len(y) THEN Len(x) ELSE Len(y)
  IN FoldLeft(step, [dest |-> <<>>, carry |-> 0], Loop(1, Lesser(longest, destlen)))

-----------------------------------------------------------------------------
(* Multiplication *)

\* Faulty MulStep: the carry out of the word is forgotten when the word becomes 0.
MulStepNoFlag(x, y, carry) ==
  LET low == (carry + Lo(x) * Lo(y)) % Word
      mid == (Hi(x) * Lo(y) + Hi(low) + IF low < carry THEN Base ELSE 0) % Word
      sum == (mid + Lo(Lo(x) * Hi(y))) % Word
  IN [ word |-> (Lo(sum) * Base) + Lo(low),
       carry |-> (Hi(sum) + Hi(Lo(x) * Hi(y)) + Hi(x) * Hi(y)) % Word ]

\* One word of a product by digits.  flag is hasCarry: 1 when the middle sum has
\* wrapped to 0, 2 when it is 0 without.
MulStep(x, y, carry) ==
  LET low == (carry + Lo(x) * Lo(y)) % Word
      mid == (Hi(x) * Lo(y) + Hi(low) + IF low < carry THEN Base ELSE 0) % Word
      flag == IF mid # 0 THEN 0 ELSE IF low < carry THEN 1 ELSE 2
      sum == (mid + Lo(Lo(x) * Hi(y))) % Word
      spill == IF (sum = 0 /\ flag # 2) \/ flag = 1 THEN Base ELSE 0
  IN [ word |-> (Lo(sum) * Base) + Lo(low),
       carry |-> (spill + Hi(sum) + Hi(Lo(x) * Hi(y)) + Hi(x) * Hi(y)) % Word ]

\* mul_1: the words of x times one word, and the carry.
Mul1Step(s, word, y) ==
  LET p == MulStep(word, y, s.carry) IN [dest |-> Append(s.dest, p.word), carry |-> p.carry]
mul_1(x, y) ==
  FoldLeft(LAMBDA s, i : Mul1Step(s, x[i], y), [dest |-> <<>>, carry |-> 0], Loop(1, Len(x)))

\* Words written at positions of dest; what lies behind it is not part of it.
Put(dest, k, word) == IF k \in DOMAIN dest THEN [dest EXCEPT ![k] = word] ELSE dest

\* The row of y[1] is stored only if dest has one word or more than x has.
FirstRow(dest, x, y) ==
  LET row1 == mul_1(x, y[1])
      words == row1.dest \o IF Len(x) < Len(dest) THEN <<row1.carry>> ELSE <<>>
  IN IF Len(dest) = 1 \/ Len(x) < Len(dest)
     THEN [k \in DOMAIN dest |-> IF k <= Len(words) THEN words[k] ELSE dest[k]]
     ELSE dest

\* One word of a row, times the word of y, is added to the word of dest at a position.
RowStep(s, word, y, at) ==
  LET p == MulStep(word, y, s.carry)
      sum == IF at <= Len(s.dest) THEN (s.dest[at] + p.word) % Word ELSE p.word
  IN [dest |-> Put(s.dest, at, sum), carry |-> (p.carry + Bit(sum < p.word)) % Word]
RowLoop(d, x, y, i) ==
  FoldLeft(LAMBDA s, j : RowStep(s, x[j], y[i], i + j - 1), [dest |-> d, carry |-> 0], Loop(1, Len(x)))
Row(d, x, y, i) == Put(RowLoop(d, x, y, i).dest, i + Len(x), RowLoop(d, x, y, i).carry)

mul(dest, x, y) == FoldLeft(LAMBDA d, i : Row(d, x, y, i), FirstRow(dest, x, y), Loop(2, Len(y)))

\* mul_add: dest + x * y.
mul_add(dest, x, y, signed) == add(mul(dest, x, y), dest, Len(dest), signed, signed).dest

-----------------------------------------------------------------------------
(* Ranges of bits, from mark2 up to mark1 *)

WordBits == 2 * DigitBits
Shl(word, n) == (word * 2 ^ n) % Word
Shr(word, n) == word \div 2 ^ n
BitAt(word, b) == Shr(word, b) % 2

\* Faulty RangeMask: the mask of two words is taken for one word too.
RangeMaskOpen(w, mark1, mark2) ==
  CASE w = mark1 \div WordBits -> Shr(Shl(Word - 1, WordBits - (mark1 % WordBits) - 1),
                                      WordBits - (mark1 % WordBits) - 1)
    [] w = mark2 \div WordBits -> Shl(Shr(Word - 1, mark2 % WordBits), mark2 % WordBits)
    [] w \in ((mark2 \div WordBits) + 1) .. ((mark1 \div WordBits) - 1) -> Word - 1
    [] OTHER -> 0

\* The mask of word w, counted from 0, that "set" and "clear" use.
RangeMask(w, mark1, mark2) ==
  LET msb == mark1 % WordBits
      lsb == mark2 % WordBits
      top == WordBits - msb - 1
  IN CASE w = mark1 \div WordBits /\ w = mark2 \div WordBits ->
            Shr(Shl(Shr(Word - 1, lsb), top + lsb), top)
       [] w = mark1 \div WordBits /\ w # mark2 \div WordBits -> Shr(Shl(Word - 1, top), top)
       [] w = mark2 \div WordBits /\ w # mark1 \div WordBits -> Shl(Shr(Word - 1, lsb), lsb)
       [] w \in ((mark2 \div WordBits) + 1) .. ((mark1 \div WordBits) - 1) -> Word - 1
       [] OTHER -> 0

\* The bits of a word that mask selects, all set or all cleared (|= and &= ~).
MaskedBit(word, mask, value, b) == IF BitAt(mask, b) = 1 THEN Bit(value) ELSE BitAt(word, b)
MaskedStep(sum, word, mask, value, b) == sum + 2 ^ b * MaskedBit(word, mask, value, b)
Masked(word, mask, value) ==
  FoldLeft(LAMBDA sum, b : MaskedStep(sum, word, mask, value, b), 0, Loop(0, WordBits - 1))

\* For widths of whole words: of others clearUnusedBits (1306, 1333) then clears what is
\* above the width.
set(a, mark1, mark2) == [k \in DOMAIN a |-> Masked(a[k], RangeMask(k - 1, mark1, mark2), TRUE)]
clear(a, mark1, mark2) == [k \in DOMAIN a |-> Masked(a[k], RangeMask(k - 1, mark1, mark2), FALSE)]
get(a, index) == BitAt(a[(index \div WordBits) + 1], index % WordBits) = 1

-----------------------------------------------------------------------------
(* Division *)

\* The number that digits stand for, and the first n digits of a number.
Value(digits) == FoldRight(LAMBDA d, sum : d + Base * sum, digits, 0)
BasePower(n) == 2 ^ (DigitBits * n)
DigitsOf(number, n) == [k \in 1 .. n |-> (number \div BasePower(k - 1)) % Base]

Window(digits, from, n) == [k \in 1 .. n |-> digits[from + k - 1]]

CountLeadingZeros(digit) == DigitBits - Cardinality({k \in 0 .. (DigitBits - 1) : digit >= 2 ^ k})

\* Step D3: the trial digit for the digits of u up to k, corrected at most twice.
TooBig(u, v, k, qp, rp) ==
  qp = Base \/ (qp * v[Len(v) - 1]) % Word > (Base * rp + u[k - 2]) % Word
TrialDigit(u, v, k) ==
  LET highest == v[Len(v)]
      q == (u[k] * Base + u[k - 1]) \div highest
      r == (u[k] * Base + u[k - 1]) % highest
  IN IF ~TooBig(u, v, k, q, r) THEN q
     ELSE IF r + highest < Base /\ TooBig(u, v, k, q - 1, r + highest) THEN q - 2 ELSE q - 1

\* Faulty Borrow: the borrow stops after one digit.
BorrowOnce(u, k, borrow) ==
  IF borrow /\ k <= Len(u) THEN [u |-> [u EXCEPT ![k] = (@ + Base - 1) % Base], borrow |-> FALSE]
  ELSE [u |-> u, borrow |-> borrow]

\* The loop of step D4 that takes a borrow to the left from digit k on.
BorrowStep(s, i) ==
  IF s.borrow THEN [u |-> [s.u EXCEPT ![i] = (@ + Base - 1) % Base], borrow |-> s.u[i] = 0]
  ELSE s
Borrow(u, k, borrow) == FoldLeft(BorrowStep, [u |-> u, borrow |-> borrow], Loop(k, Len(u)))

\* Step D4: q times v is taken from the digits of u from j on.
SubtractStep(s, at, subtrahend) ==
  LET tmp == s.u[at] + Base * s.u[at + 1]
      result == (tmp - subtrahend + Word) % Word
      done == Borrow([s.u EXCEPT ![at] = Lo(result), ![at + 1] = Hi(result)], at + 2, subtrahend > tmp)
  IN [u |-> done.u, neg |-> s.neg \/ done.borrow]
MultiplyAndSubtract(u, v, j, q) ==
  FoldLeft(LAMBDA s, i : SubtractStep(s, j + i - 1, (q * v[i]) % Word),
           [u |-> u, neg |-> FALSE], Loop(1, Len(v)))

\* Lines 828-834, after a negative step D4: u, which step D4 leaves as the b's complement,
\* is complemented once more.
Complement(u) == DigitsOf(BasePower(Len(u)) - Value(u), Len(u))

\* Step D6: v is added back to the digits of u from j on.
AddBack(u, v, j) ==
  LET n == Len(v)
      sum == DigitsOf(Value(Window(u, j, n + 1)) + Value(v), n + 1)
  IN [k \in DOMAIN u |-> IF k \in j .. (j + n) THEN sum[k - j + 1] ELSE u[k]]

\* The steps D3 to D6 for the digit of the quotient at j.  back: some digit needed step D6.
KnuthStep(s, v, j) ==
  LET q == TrialDigit(s.u, v, j + Len(v))
      d4 == MultiplyAndSubtract(s.u, v, j, q)
  IN IF d4.neg
     THEN [u |-> AddBack(Complement(d4.u), v, j), q |-> <<(q - 1) % Base>> \o s.q, back |-> TRUE]
     ELSE [u |-> d4.u, q |-> <<q % Base>> \o s.q, back |-> s.back]
KnuthLoop(u, v) ==
  FoldLeft(LAMBDA s, k : KnuthStep(s, v, Len(u) - Len(v) - k + 1),
           [u |-> u, q |-> <<>>, back |-> FALSE], Loop(1, Len(u) - Len(v)))

\* KnuthDiv for a divisor of at least two digits, its highest not 0; u has one digit
\* more than the dividend.
KnuthDiv(u, v) ==
  LET n == Len(v)
      shift == CountLeadingZeros(v[n])
      end == KnuthLoop(DigitsOf(Value(u) * 2 ^ shift, Len(u)), DigitsOf(Value(v) * 2 ^ shift, n))
  IN [ q |-> end.q, back |-> end.back,
       r |-> DigitsOf(Value(Window(end.u, 1, n)) \div 2 ^ shift, n) ]

\* The short division by a divisor of one digit.
ShortStep(s, digit, divisor) ==
  LET partial == s.r * Base + digit
  IN [q |-> <<partial \div divisor>> \o s.q, r |-> partial % divisor]
ShortDivision(u, divisor) ==
  LET end == FoldLeft(LAMBDA s, k : ShortStep(s, u[Len(u) - k + 1], divisor),
                      [q |-> <<>>, r |-> 0], Loop(1, Len(u)))
  IN [q |-> end.q, r |-> <<end.r>>, back |-> FALSE]

\* divide: the leading zero digits are dropped from both; rhs is not 0 and not
\* greater than lhs.
Trimmed(d) == SubSeq(d, 1, Max({k \in DOMAIN d : d[k] # 0} \cup {0}))
Padded(d, n) == [k \in 1 .. n |-> IF k <= Len(d) THEN d[k] ELSE 0]
divide(lhs, rhs) ==
  LET u == Trimmed(Digits(lhs))
      v == Trimmed(Digits(rhs))
      quotrem == IF Len(v) = 1 THEN ShortDivision(u, v[1]) ELSE KnuthDiv(u \o <<0>>, v)
  IN [ quotient |-> Words(Padded(quotrem.q, 2 * Len(lhs))),
       remainder |-> Words(Padded(quotrem.r, 2 * Len(rhs))),
       back |-> quotrem.back ]
=============================================================================
