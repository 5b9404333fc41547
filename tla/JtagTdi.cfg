SPECIFICATION SequenceSpec
CONSTANTS
  MaxCmds = 2
  ShiftBytes = {1, 2}
  IrBytes = 2
  Shifts = {"data", "value", "register"}
  Pins = FALSE
INVARIANT DataMatchesCommands
