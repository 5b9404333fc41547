SPECIFICATION InputSpec
CONSTANTS
  Files <- MCFiles
  Operands <- MCOperands
  Ranges <- MCRanges
  Copies <- MCCopies
  Payloads <- MCPayloads
  Place <- MCPlace
  MaxSegments = 2
  DigitBits = 2
  MaxWords = 2
  BitsPerDigit = 2
  MaxBits = 5
  MaxBytes = 4
INVARIANTS
  PlanExact
  SumsExact
  MulExact
  DivExact
  RangesExact
  CopyWraps
  CompareMatches
  WriteConverted
  ReadReturned
\* An input is all there is.
CHECK_DEADLOCK FALSE
