SPECIFICATION KbSpec
CONSTANTS
  ShiftKey <- MCShiftKey
  Key <- MCKey
  DeadKey <- MCDeadKey
  QueueSize = 3
INVARIANTS
  UpperOnlyUnderShift
  ShiftAppliesUnlessChord
