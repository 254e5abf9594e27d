SPECIFICATION Spec
CONSTANTS
    Bits <- MCBits
    FLASH_BANK = 4
    FL_BLOCK = 2
    PAGE = 2
    Cmd <- MCCmd
    RAM_BASE = 16
    RAM_SIZE = 5
    FWCFG_BASE = 40
    Items <- MCItems
    OffMod = 16
    HalfAddr = 64
    DTB <- MCDTB
    Plans <- MCPlans
    Offsets = {1, 6}
    DataBytes <- MCData
    Targets = {0, 1}
    MaxOps = 3
    MaxPos = 4
    MaxResets = 1
INVARIANTS
  FlashSound
  FirmwareExact
PROPERTIES
  ProgramDropsCode
CHECK_DEADLOCK FALSE
