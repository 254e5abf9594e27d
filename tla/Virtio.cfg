CONSTANTS
  Irqs = {48}
  Prios = {0, 255}
  Targets = {0}
  IdxMod = 4
  QUEUE_NUM_MAX = 4
  SECTOR_SIZE = 2
  BufSize = 1
  IdLen = 1
  Capacity = 2
  Word = 16
  RX_FIFO_SIZE = 3
  RX_RING_SIZE = 2
  MAX_ETH_FRAME = 1
  Devices0 <- MCDevices
  RxChains <- MCRxChains
  TxChains <- MCTxChains
  Requests <- MCRequests
  DriverNum <- MCDriverNum
  MaxPosts <- MCMaxPosts
  MaxIn = 2
  MaxTx = 2
  MaxSize = 2
  MaxBoots = 1
  UartPrints = TRUE
SPECIFICATION FairSpec
INVARIANTS
  
  StreamsExact
  RequestsExact
PROPERTIES
  NoStaleDma
  UsedSeen
CHECK_DEADLOCK FALSE
