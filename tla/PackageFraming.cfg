\* Sessions of both kinds with the buffer of the code.
CONSTANTS
  RECV_LEN = 4096
  REQUEST = 150
  Lengths <- MCLengths
  MaxPackages = 3
  Offsets <- MCOffsets
  Environments <- AllEnvironments
SPECIFICATION FairSpec
INVARIANTS TypeOK DefinedWhilePackagesFit
PROPERTIES StreamImplemented FittingPackagesHandled
CHECK_DEADLOCK FALSE
