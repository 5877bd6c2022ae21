\* Four caches, as shipped; three cores contend for one line.
CONSTANTS
  CPUS = 4
  x = x
  y = y
  z = z
  Line = {x}
  IndexOf <- SameIndex
  Offset = {0}
  Value = {0}
  Zero = 0
  IO = IO
  None = None
  Requests <- ThreeContend
SPECIFICATION FairSpec
PROPERTY Progress
