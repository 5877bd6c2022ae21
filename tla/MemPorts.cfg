\* Four ports, as in the code.
CONSTANTS
  Ports = 4
SPECIFICATION Spec
INVARIANT NoOvertaking
PROPERTY HoldStable
