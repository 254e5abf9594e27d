SPECIFICATION Spec
CONSTANTS
  NPages = 2
  Offs = {0, 1}
  Ram = {1, 2}
  Flash = {3}
  Ctxs = {0, 1}
  Insns <- MCInsns
  Plans <- MCPlans
  Vector <- V0
  VectorCtx = 0
  MaxBlocks = 2
  ThrashLimit = 2
INVARIANTS
  TypeOK
  StoresTracked
  NoDanglingJump
  
