SPECIFICATION Spec
CONSTANTS
  Trans = {t1, t2}
  NoTrans = NoTrans
  MaxDelay = 1
  Never = 2
  MaxCalls = 2
INVARIANTS RequestExclusion ThreadWoken EndNotified ResponseExclusion OneThreadEach
PROPERTY Returns
\* The initiators stop after MaxCalls calls.
CHECK_DEADLOCK FALSE
