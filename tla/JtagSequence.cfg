SPECIFICATION SequenceSpec
CONSTANTS
  MaxCmds = 3
  ShiftBytes = {1, 2}
  IrBytes = 2
  Shifts = {"data", "value", "register", "rejected"}
  Pins = TRUE
INVARIANTS DataInPlace OneValuePerCapture
