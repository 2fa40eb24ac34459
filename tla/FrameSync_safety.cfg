\* Two human players, datagrams delayed, reordered, repeated or never delivered, players losing their session.
CONSTANTS
  Seats <- MCSeats
  MaxFrame = 3
  MaxDup = 1
  MaxLoss = 0
  MaxOutage = 1
SPECIFICATION Spec
INVARIANTS TypeOK PrefixAgreement AckSound OpsInTheirFrame
PROPERTIES ImplementsLog
CHECK_DEADLOCK FALSE
