SPECIFICATION FairSpec
CONSTANTS
  c1 = c1
  c2 = c2
  Root = Root
  Ctx = {c1, c2}
  Parent <- TwoLevels
  Reads = {"children"}
  Kinds <- ResumeKinds
  Readd = TRUE
  MaxInbox = 1
  MaxReads = 2
INVARIANT PendingExact
INVARIANT WaitersHeard
PROPERTY WaitersResumed
\* The agent may have nothing more to do.
CHECK_DEADLOCK FALSE
