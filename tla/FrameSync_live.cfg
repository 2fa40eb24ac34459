\* Two human players, one datagram lost, no datagram repeated, sessions lost once.
CONSTANTS
  Seats <- MCSeats
  MaxFrame = 3
  MaxDup = 0
  MaxLoss = 1
  MaxOutage = 1
SPECIFICATION FairSpec
INVARIANTS NoOpTwice
 
CHECK_DEADLOCK FALSE
