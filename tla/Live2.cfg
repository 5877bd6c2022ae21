\* Two caches, evictions and uncached accesses, as fair as the hardware.
CONSTANTS
  CPUS = 2
  x = x
  y = y
  z = z
  Line = {x, y}
  IndexOf <- SameIndex
  Offset = {0}
  Value = {0}
  Zero = 0
  IO = IO
  None = None
  Requests <- BothUncached
SPECIFICATION FairSpec
PROPERTY Progress
