SPECIFICATION InputSpec
CONSTANTS
  Files <- MCFiles
  Operands <- MCOperands
  Ranges <- MCRanges
  Copies <- MCCopies
  Payloads <- MCPayloads
  Place <- MCPlace
  MaxSegments = 1
  DigitBits = 2
  MaxWords = 2
  BitsPerDigit = 2
  MaxBits = 2
  MaxBytes = 2
INVARIANT DivisionExact
\* An input is all there is.
CHECK_DEADLOCK FALSE
