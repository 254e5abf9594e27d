SPECIFICATION Spec
CONSTANTS
    Gprs <- MCGprs
    VRegs <- MCVRegs
    PAGE = 16
    MEM_FIRST = 32
    MEM_LAST = 79
    VBAR = 192
    DCZVA_STORES = 2
    PD_SIZE = 2
    JIT_MAX_BLOCK_INSNS = 3
    IR_MAX_OPS_PER_INSN = 9
    IR_MAX_OPS = 21
    RUN_REGS = 2
    HostPool <- MCHostPool
    CallerSaved = {"rdi", "r8"}
    VPool = 2
    Families <- MCFamilies
    MaxInsns = 8
INVARIANTS
  PdMatches
  
  RestartExact
  MopsExact
  CachesCoherent
CHECK_DEADLOCK FALSE
