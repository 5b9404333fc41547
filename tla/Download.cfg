SPECIFICATION FairSpec
CONSTANTS
  Window = 3
  Chunk = 2
  ProfWrites = 2
  Jobs <- AllJobs
INVARIANTS
  NoDanglingReply
  NumReqAssertion
  PcAfterLoad
  SuccessMeansLoaded
  StoppedWhileLoading
PROPERTIES
  ImplementsReqWindow
  Terminates
\* The download of an empty file waits for ever (see Terminates).
CHECK_DEADLOCK FALSE
