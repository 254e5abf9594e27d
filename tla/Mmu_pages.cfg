SPECIFICATION Spec
CONSTANTS
  Pages <- MCPages
  Frames <- MCFrames
  Hole = {0}
  BlockPages = 2
  Tables <- PageTabs
  Tags = {0}
  Slots = 1
  GenMod = 4
  Slice = 2
  VaBits = 1
  Ram = {1, 2, 3}
  Flash = {4}
VIEW CacheView
INVARIANTS
  TypeOK
PROPERTIES
  ImplementsStage1
