SPECIFICATION Spec
CONSTANTS
  None = None
  Line <- MCLine
  Offset = {"lo", "hi"}
  Value = {0, 1}
  Cpu = {0, 1, 2}
  NumCpus = 3
  Fifo = 2
  NoKey = ""
  InputMax = 9
  IoBase = 8
  Word = 4096
  Vectors = 8
  Programs = 4
  Hex <- MCHex
  Decimal <- MCDecimal
  Pointers <- MCPointers
  Setups <- MCResends
CHECK_DEADLOCK FALSE
PROPERTIES MailSpec
