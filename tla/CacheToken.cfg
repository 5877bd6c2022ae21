\* Four caches and a token of three locks, as shipped (config.sv, defs.sv).
CONSTANTS
  N = 4
  Slots = 3
  Line = {x, y}
  None = None
SPECIFICATION Spec
INVARIANT MutualExclusion
PROPERTY ClaimKept
