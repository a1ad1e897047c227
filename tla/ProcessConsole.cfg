CONSTANTS
  NSlots = 4
  Pages <- EightPages
  WinPages = 1
  KStackPages = 1
  PdPages = 1
  Reserve = 2
  TickMod = 4
  Quantum = 2
  WaitTicks = 1
  SleepTicks = {1}
  Codes = {0}
  RemoteCmds = {}
  MaxPid = 3
SPECIFICATION Spec
INVARIANTS
  TypeOK
  NoPageLost
  RunningRight
  NoOversleep
