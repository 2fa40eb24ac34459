\* A package of more than RECV_LEN bytes on a connection that stays up.
CONSTANTS
  RECV_LEN = 4096
  REQUEST = 150
  Lengths <- MCLengths
  MaxPackages = 2
  Offsets <- MCOffsets
  Environments <- OnlyLong
SPECIFICATION FairSpec
PROPERTIES LongPackagesHandled
CHECK_DEADLOCK FALSE
