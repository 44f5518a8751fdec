SPECIFICATION FairSpec
CONSTANTS
  phase = phase
  other = other
  delete = delete
  idPhase = idPhase
  idDelete = idDelete
  rewind = rewind
  fork = fork
  quiesce = quiesce
  thread = thread
  copy = copy
  Calls = {phase, other, delete}
  Ids = {idPhase, idDelete}
  Bodies = {rewind, fork, quiesce}
  Threads = {thread, copy}
  IdOf <- MCIdOf
  BodyOf <- MCBodyOf
  ThreadsOf <- MCThreadsOf
  Bound = {rewind}
  Quiesce = {quiesce}
  MaxFaults = 1
INVARIANTS TypeOK AtMostOnce SuccessIsCertified RefusalIsDefinite PurgedStaysPurged
PROPERTIES ReceiptsAreFinal CallsSettle
CHECK_DEADLOCK FALSE
