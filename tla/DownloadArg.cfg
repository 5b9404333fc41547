SPECIFICATION Spec
CONSTANTS
  Window = 3
  Chunk = 2
  ProfWrites = 2
  Jobs <- DataJobs
INVARIANT ArgFree
