SPECIFICATION Spec
CONSTANTS
    Names <- MCNames
    MaxIno = 6
    MaxDepth = 4
    MaxFd = 2
    Fids = {1, 2}
    PATH_MAX = 3
    Root <- MCRoot
    Requests <- MCRequests
    Shares <- MCShares
INVARIANTS
  FidsSound
  
  ReaddirComplete

  
