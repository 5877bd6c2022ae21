\* Four caches and a slow memory.
CONSTANTS
  CPUS = 4
  x = x
  y = y
  z = z
  Line = {x, y, z}
  IndexOf <- TwoIndexes
  Offset = {0}
  Value = {0, 1}
  Zero = 0
  IO = IO
  None = None
  Requests <- Evicted
SPECIFICATION Spec
INVARIANT ReadsLatest
