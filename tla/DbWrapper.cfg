\* One connection of each kind, one or two workers, every kind of trouble.
CONSTANTS
  my = my  rd = rd  t1 = t1  t2 = t2
  MaxQueries = 3
  Mysql = {my}
  Redis = {rd}
  Workers <- MCWorkers
  NoWorker = NoWorker
  Environments <- MCEnvironments
  Pools <- OneOrTwo
SPECIFICATION FairSpec
INVARIANTS TypeOK ClosedUnused PoolConfined
PROPERTIES ServiceImplemented QueriesAnswered
CHECK_DEADLOCK FALSE
