SPECIFICATION Spec
CONSTANTS
  Items = {a, b}
  Hole = Hole
  ZeroBuffer = 2
  Producers = {p1}
  Consumers = {c1}
  Sizes <- SmallSizes
  Steps = {1, 2}
  MaxItems = 3
  MaxSize = 2
INVARIANTS CountsAgree NoLostWakeup
PROPERTY ImplementsQueue
\* Everyone may wait: for room in a fifo of size 0, or for elements.
CHECK_DEADLOCK FALSE
