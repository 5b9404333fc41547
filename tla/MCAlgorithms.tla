----------------------------- MODULE MCAlgorithms -----------------------------
(***************************************************************************)
(* Small inputs for Algorithms.                                            *)
(***************************************************************************)
EXTENDS Algorithms

CONSTANTS
  MaxSegments,    \* bound: program headers of a file
  MaxWords,       \* bound: words of a number
  MaxBits,        \* bound: bits of a signed or unsigned number
  MaxBytes        \* bound: bytes of a payload with byte enables of every form

\* The second segment lies behind the first, or on its last bytes; type 2 is not loaded.
Headers(i) ==
  { ph \in [ type : {PTLoad, 2}, offset : {8, 20}, filesz : 0 .. 2, memsz : 0 .. 3,
             paddr : IF i = 1 THEN {16} ELSE {17, 32} ] : ph.filesz <= ph.memsz }

HeaderLists ==
  {<<>>} \cup {<<h>> : h \in Headers(1)}
         \cup IF MaxSegments = 1 THEN {} ELSE {<<h, g>> : h \in Headers(1), g \in Headers(2)}

MCFiles ==
  {[phlist |-> phlist, clear |-> clearBss, profile |-> profile, entry |-> profile = 0] :
     phlist \in HeaderLists, clearBss \in BOOLEAN, profile \in {0, 1}}

Numbers(n) == [1 .. n -> 0 .. (Word - 1)]
MCOperands == UNION {[x : Numbers(m), y : Numbers(n)] : m, n \in 1 .. MaxWords}

MCRanges ==
  {range \in [x : [1 .. 3 -> {0, 5, Word - 1}], mark1 : 0 .. (3 * WordBits - 1), mark2 : 0 .. (3 * WordBits - 1)] :
     range.mark2 <= range.mark1}

\* A number of nb bits; the highest bit of an unsigned one is not used.
Magnitude(n, value) == [k \in 1 .. n |-> (value \div DigitRadix ^ (k - 1)) % DigitRadix]
Held(nb, value) ==
  [ sgn |-> IF value < 0 THEN Neg ELSE IF value = 0 THEN Zero ELSE Pos, nb |-> nb,
    digit |-> Magnitude(DivCeil(nb), IF value < 0 THEN -value ELSE value) ]
HeldNumbers ==
  UNION {{Held(nb, value) : value \in (-(2 ^ (nb - 1))) .. (2 ^ (nb - 1) - 1)} : nb \in 1 .. MaxBits}

MCCopies ==
  {copy \in [v : HeldNumbers, w : HeldNumbers, nb : 1 .. MaxBits] :
     copy.nb = copy.v.nb \/ copy.v = copy.w}

\* Numbers for the places of short payloads at low addresses, apart from the data 1 .. 12.
MCPlace(address, repetition) == 1000 * (repetition + 1) + address

\* Byte enables of every form for short payloads, and of some forms for long ones.
Enables(n) ==
  IF n <= MaxBytes THEN {<<>>} \cup UNION {[1 .. m -> BOOLEAN] : m \in {2, 3, n}}
  ELSE {<<>>, [k \in 1 .. n |-> k % 8 \in {1, 2, 5, 6}], [k \in 1 .. n |-> k > 4], <<TRUE, FALSE, FALSE>>}

PayloadsOf(n) ==
  [ read : BOOLEAN, addr : 0 .. 9, data : {[k \in 1 .. n |-> k]}, be : Enables(n), width : {2, 4, 99} ]

MCPayloads ==
  {p \in [ f : {"generic", "word", "aligned", "single"}, D : {1, 2, 4}, bus : {2, 4, 8},
           txn : UNION {PayloadsOf(n) : n \in {1, 2, 3, 4, 6, 8, 12}} ] :
     InLimits(p.f, p.txn, p.D, p.bus)}
=============================================================================
