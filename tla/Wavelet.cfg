SPECIFICATION FairSpec
CONSTANTS
  Command <- MCCommand
  BufSize = 3
  Lane <- MCLane
  Byte <- MCByte
  DramSize = 2
  FlashBoundary = 1
  Image <- MCImage
  MaxPending = 2
  FbSize = 2
  Budget <- MCBudget
  WriteBurst <- MCWriteBurst
  ReadBurst <- MCReadBurst
  None = None
INVARIANTS RepliesRight OneHasBuffers BatchOnce WritesLand ReadsCurrent
CHECK_DEADLOCK FALSE
PROPERTIES DebuggerServed BurstsAnswered
