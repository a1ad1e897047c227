CONSTANTS
  NPages = 3
  MaxOrder = 1
  Caches <- TwoCaches
  Objs <- ObjsPerSlab
  MidCall = FALSE
SPECIFICATION Spec
INVARIANTS
  TypeOK
  PagesAccounted
  ObjectsAccounted
PROPERTIES ImplementsAllocator
