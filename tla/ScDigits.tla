------------------------------- MODULE ScDigits -------------------------------
(***************************************************************************)
(* The digit vectors of sc_signed and sc_unsigned (sc_nbutils.h): a number *)
(* is a sign and a magnitude of digits, the least significant first, and   *)
(* is brought into its width through the two's complement.  An unsigned    *)
(* number of w bits has w + 1 bits, the highest of which is always 0.      *)
(***************************************************************************)
EXTENDS Integers, Sequences, SequencesExt

CONSTANT BitsPerDigit
ASSUME BitsPerDigitAssumption == BitsPerDigit \in Nat \ {0}

DigitRadix == 2 ^ BitsPerDigit

Neg == -1
Zero == 0
Pos == 1

\* The digits that nb bits take.
DivCeil(nb) == ((nb - 1) \div BitsPerDigit) + 1
bit_ord(i) == i % BitsPerDigit

vec_skip_leading_zeros(u) ==
  LET nonzero == {k \in DOMAIN u : u[k] # 0}
  IN IF nonzero = {} THEN 0 ELSE CHOOSE k \in nonzero : \A j \in nonzero : j <= k

check_for_zero(s, u) == IF vec_skip_leading_zeros(u) = 0 THEN Zero ELSE s

\* Faulty vec_skip_and_cmp: the lowest digit that differs decides.
vec_skip_and_cmp_low(u, v) ==
  LET ulen == vec_skip_leading_zeros(u)
      vlen == vec_skip_leading_zeros(v)
      differ == {k \in 1 .. ulen : u[k] # v[k]}
  IN IF ulen # vlen THEN ulen - vlen
     ELSE IF differ = {} THEN 0
     ELSE LET k == CHOOSE k \in differ : \A j \in differ : j >= k IN u[k] - v[k]

\* Negative, 0 or positive as u is less than, equal to or greater than v.
vec_skip_and_cmp(u, v) ==
  LET ulen == vec_skip_leading_zeros(u)
      vlen == vec_skip_leading_zeros(v)
      differ == {k \in 1 .. ulen : u[k] # v[k]}
  IN IF ulen # vlen THEN ulen - vlen
     ELSE IF differ = {} THEN 0
     ELSE LET k == CHOOSE k \in differ : \A j \in differ : j <= k IN u[k] - v[k]

\* v in a vector of n digits: copied up to n digits, the rest 0.
vec_copy_and_zero(n, v) == [k \in 1 .. n |-> IF k <= Len(v) THEN v[k] ELSE 0]

\* The two's complement of the digits, with the carry from digit to digit.
ComplementStep(s, digit) ==
  LET sum == s.carry + (DigitRadix - 1 - digit)
  IN [u |-> Append(s.u, sum % DigitRadix), carry |-> sum \div DigitRadix]

vec_complement(u) == FoldLeft(ComplementStep, [u |-> <<>>, carry |-> 1], u).u

\* trim: of the last digit only the bits of a number of nb bits stay; added is 1 for
\* signed numbers and 0 for unsigned ones, whose highest bit is not used.
trim(added, nb, d) == [d EXCEPT ![Len(d)] = @ % (2 ^ (bit_ord(nb - 1) + added))]

convert_SM_to_2C(s, d) == IF s = Neg THEN vec_complement(d) ELSE d

\* Faulty convert_signed_2C_to_SM: a negative number is not trimmed.
convert_signed_2C_to_SM_untrimmed(nb, d) ==
  IF (d[Len(d)] \div (2 ^ bit_ord(nb - 1))) % 2 = 1
  THEN [sgn |-> Neg, digit |-> vec_complement(d)]
  ELSE [sgn |-> check_for_zero(Pos, trim(1, nb, d)), digit |-> trim(1, nb, d)]

\* The sign bit decides; a positive number may be 0, a negative one is not.
convert_signed_2C_to_SM(nb, d) ==
  IF (d[Len(d)] \div (2 ^ bit_ord(nb - 1))) % 2 = 1
  THEN [sgn |-> Neg, digit |-> trim(1, nb, vec_complement(d))]
  ELSE [sgn |-> check_for_zero(Pos, trim(1, nb, d)), digit |-> trim(1, nb, d)]

convert_unsigned_2C_to_SM(nb, d) ==
  [sgn |-> check_for_zero(Pos, trim(0, nb, d)), digit |-> trim(0, nb, d)]

\* Copy v, a record [sgn, nb, digit], to a signed number of nb bits.  It is converted
\* only when it might not fit.
copy_digits_signed(nb, v) ==
  LET nd == DivCeil(nb)
      d == vec_copy_and_zero(nd, v.digit)
  IN IF nd <= Len(v.digit) /\ nb <= v.nb
     THEN convert_signed_2C_to_SM(nb, convert_SM_to_2C(v.sgn, d))
     ELSE [sgn |-> v.sgn, digit |-> d]

\* Copy v to an unsigned number of nb bits, the unused one included.
copy_digits_unsigned(nb, v) ==
  convert_unsigned_2C_to_SM(nb, convert_SM_to_2C(v.sgn, vec_copy_and_zero(DivCeil(nb), v.digit)))
=============================================================================
