SPECIFICATION Spec
CONSTANTS
  Pages <- MCPages
  Frames <- MCFrames
  Hole = {0}
  BlockPages = 2
  Tables <- BlockTabs
  Tags = {0}
  Slots = 2
  GenMod = 2
  Slice = 1
  VaBits = 1
  Ram = {1, 2, 3}
  Flash = {4}
VIEW CacheView
PROPERTIES
  ImplementsStage1
