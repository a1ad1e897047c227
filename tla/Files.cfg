INIT Init
NEXT Next
CHECK_DEADLOCK FALSE
CONSTANTS
  DiskLbas = {0, 1, 2, 3, 4}
  DiskCached = 2
  DiskRefresh = {0}
  DiskScan = {0, 1}
  DiskValues = {0, 1}
  WbSlots = 2
  FatClusters = {2, 3, 4}
  FatSplit = 3
  FatRootSlots = 3
  FatDirSlots = 3
  FatNames <- MCNames
  FatDirName = "D"
  FatLengths = {2}
  FatTags = {1}
  FatRmdirCwd = FALSE
  FcSectors = {0, 1, 2}
  FcSectorBytes = 2
  FcClusters = {0, 1, 2}
  FcValues = {0, 2748, 4095}
  FcSlots = {1, 2}
  FcFlushes = 1
  VfsMaxMounts = 2
  VfsMaxFds = 2
  VfsPoints <- MCPoints
  VfsPaths <- MCPaths
  VfsFatPaths <- MCFatPaths
  VfsSizes = {0, 2}
  RamMaxFiles = 2
  RamNameLen = 2
  RamNames <- MCRamNames
INVARIANTS
  
  
  VfsSound
