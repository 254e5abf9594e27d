CONSTANTS
  SeqSpace = 32
  UN_TCP_H2G = 2
  UN_TCP_G2H = 2
  MSS = 2
  UN_TCP_RTO_SHOTS = 2
  TmpSize = 2
  KernelBuf = 1
  RxRing = 2
  IssStep = 12
  Iss0 = 30
  Plans <- MCPlans
  GuestWindow = 2
SPECIFICATION FairSpec
INVARIANTS
  StreamsWhole
  ConnSound
PROPERTIES
  
  Progresses
CHECK_DEADLOCK FALSE
