\* Four caches with requests for three lines.
CONSTANTS
  CPUS = 4
  x = x
  y = y
  z = z
  Line = {x, y, z}
  IndexOf <- OwnIndex
  Offset = {0}
  Value = {0}
  Zero = 0
  IO = IO
  None = None
  Requests <- FourMessages
SPECIFICATION FairSpec
PROPERTY Progress
