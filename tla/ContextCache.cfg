SPECIFICATION Spec
CONSTANTS
  c1 = c1
  c2 = c2
  Root = Root
  Ctx = {c1, c2}
  Parent <- TwoLevels
  Reads = {"children", "state"}
  Kinds <- PlainKinds
  Readd = FALSE
  MaxInbox = 2
  MaxReads = 2
INVARIANT Coherent
INVARIANT NewAnnounced
\* The agent may have nothing more to do.
CHECK_DEADLOCK FALSE
