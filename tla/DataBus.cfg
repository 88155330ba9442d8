SPECIFICATION FairSpec
CONSTANTS
  k1 = k1
  k2 = k2
  d0 = d0
  d1 = d1
  f1 = f1
  f2 = f2
  Conns <- TwoConns
  Devs <- TwoDevs
  DevOf <- DeviceOf
  IdZero <- TypeOnly
  Fds <- TwoFds
  PkgSize = 2
  BufSize = 5
  MaxSends <- Quota
  MaxData = 1
  Faults = {"nomem", "nothread"}
  INVALID = INVALID
  None = None
CHECK_DEADLOCK FALSE
INVARIANTS TypeOK EntriesAgree MisdirectedOnly CallbackReady PackagesKept
PROPERTIES  DescriptorReleased
