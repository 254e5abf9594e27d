SPECIFICATION Spec
CONSTANTS
    UN_UDP_MAX = 2
    UN_ICMP_MAX = 1
    UN_POLL_MAX = 2
    UN_UDP_TTL = 2
    UN_DNS_TTL = 1
    UN_ICMP_TTL = 1
    SWEEP = 1
    DNS_RECHECK = 2
    UDP_BURST = 2
    ICMP_BURST = 1
    RxRing = 1
    MaxFd = 4
    Plans <- MCPlans
    FwdPort = 9
    SockQ = 1
    MaxTime = 4
INVARIANTS
  FlowsSound
  Translated
PROPERTIES
  FlowLifecycle
  
