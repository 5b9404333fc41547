SPECIFICATION FairSpec
CONSTANTS
  WriteLimit = 1
  Clients = 2
  Typed = 2
  Printed = 2
INVARIANTS CountsExact OutputInOrder
PROPERTIES TypedArrives  TerminalReleased
\* The terminals, the UART and the user may have nothing more to do.
CHECK_DEADLOCK FALSE
