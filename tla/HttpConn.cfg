SPECIFICATION Spec
CONSTANTS
  Conns = {c1, c2}
  FileLen = 3
  SndBuf = 2
  QueueLen = 2
  MaxRetries = 3
  PoolSize = 3
  TimersRun = TRUE
INVARIANT StateOwned
PROPERTY PageBeforeFin
PROPERTY PbufsFreed
PROPERTY StateReturned
PROPERTY CloseCompleted
