CONSTANTS
  NSlots = 4
  Pages <- EightPages
  WinPages = 1
  KStackPages = 1
  PdPages = 1
  Reserve = 2
  TickMod = 2
  Quantum = 1
  WaitTicks = 0
  SleepTicks = {}
  Codes = {0}
  RemoteCmds <- AllRemoteCmds
  MaxPid = 3
SPECIFICATION Spec
INVARIANTS   LoadedPdLive
CHECK_DEADLOCK FALSE
