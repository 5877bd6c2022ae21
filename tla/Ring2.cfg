\* Two caches and two null ones.
CONSTANTS
  CPUS = 2
  x = x
  y = y
  z = z
  Line = {x, y}
  IndexOf <- SameIndex
  Offset = {0}
  Value = {0, 1}
  Zero = 0
  IO = IO
  None = None
  Requests <- BothShare
SPECIFICATION Spec
INVARIANTS SingleOwner CopiesCurrent MemoryCurrent NoLostRequest
PROPERTIES TokenSpec Coherent
