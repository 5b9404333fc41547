SPECIFICATION Spec
CONSTANTS
  Clients = {c1, c2, c3}
  Slave = slave
  NoOne = NoOne
  MaxCalls = 2
  Items <- Requests
  Hole = Hole
  ZeroBuffer = 2
INVARIANTS RightResponse OneInFlight
PROPERTY Answered
\* The clients stop after MaxCalls calls.
CHECK_DEADLOCK FALSE
