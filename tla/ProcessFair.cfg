CONSTANTS
  NSlots = 4
  Pages <- EightPages
  WinPages = 1
  KStackPages = 1
  PdPages = 1
  Reserve = 2
  TickMod = 2
  Quantum = 1
  WaitTicks = 0
  SleepTicks = {}
  Codes = {0, 7}
  RemoteCmds = {}
  MaxPid = 3
SPECIFICATION FairSpec
PROPERTIES NoStarvation ForegroundEnds ImplementsLife
