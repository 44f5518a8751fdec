SPECIFICATION Spec
CONSTANTS
  phase = phase
  other = other
  delete = delete
  idPhase = idPhase
  idDelete = idDelete
  rewind = rewind
  fork = fork
  quiesce = quiesce
  thread = thread
  copy = copy
  Calls = {phase, delete}
  Ids = {idPhase, idDelete}
  Bodies = {rewind, fork, quiesce}
  Threads = {thread, copy}
  IdOf <- MCIdOf
  BodyOf <- MCBodyOf
  ThreadsOf <- MCThreadsOf
  Bound = {rewind}
  Quiesce = {quiesce}
  MaxFaults = 2
INVARIANT DefinitiveRefusals
CHECK_DEADLOCK FALSE
