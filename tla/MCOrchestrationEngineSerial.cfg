SPECIFICATION Spec
CONSTANTS
  t1 = t1
  c1 = c1
  s1 = s1
  s2 = s2
  a1 = a1
  f1 = f1
  d1 = d1
  m1 = m1
  threads = threads
  goals = goals
  Threads = {t1}
  Messages = {m1}
  Commands = {c1, s1, s2, f1, d1}
  KindOf <- MCKindOf
  ThreadOf <- MCThreadOf
  MessageOf <- MCMessageOf
  Resends = {}
  Deletable = {t1}
  Projectors = {threads, goals}
  NewProjectors = {goals}
  ReadLimit = 8
  Faults = {"sql", "uncertain", "crash"}
  MaxFaults = 1
PROPERTY SerialLog
INVARIANT ProjectionsComplete
INVARIANT MessageOnce
CHECK_DEADLOCK FALSE
