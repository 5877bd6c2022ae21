SPECIFICATION FairSpec
CONSTANTS
  Bindings <- MCBindings
  SimSlave = {"dbg", "smp"}
  Half = 2
  ConstValue = 5
  Modes <- MCModes
  ClockHz = 100
  Refresh = 3
  Slack = 2
  PageWords = 2
  LargePages = 2
  L2Entries = 4
  Span = 64
  NumCaches = 2
  Space <- MCSpace
  Virtual = {0, 3, 5, 6, 9, 14}
  NumCores = 2
  Burst = 2
  OthersRun <- MCOthersRun
  Setup <- MCSetup
  Patch <- MCPatch
  Pixels = {0, 4, 9}
  Ptr = 4
  QueueSize = 3
  Target = {0, 2}
  DataPtr = {1}
  Nil = Nil
INVARIANTS AccessOnce RunsOnce RightInstructions OwnAnswers
PROPERTIES HaltServed Shown WalksAgree CoreServed
CHECK_DEADLOCK FALSE
