SPECIFICATION FairSpec
CONSTANTS
  t1 = t1
  c1 = c1
  s1 = s1
  s2 = s2
  a1 = a1
  f1 = f1
  d1 = d1
  m1 = m1
  threads = threads
  goals = goals
  Threads = {t1}
  Messages = {m1}
  Commands = {c1, s1, a1}
  KindOf <- MCKindOf
  ThreadOf <- MCThreadOf
  MessageOf <- MCMessageOf
  Resends = {s1}
  Deletable = {t1}
  Projectors = {threads, goals}
  NewProjectors = {}
  ReadLimit = 6
  Faults = {"sql", "uncertain", "reconcile", "crash"}
  MaxFaults = 2
INVARIANT TypeOK
INVARIANT CommandOnce
INVARIANT ReceiptsTellTheLog
INVARIANT AcceptedIsDurable
INVARIANT ModelFollowsLog
INVARIANT PublishedAll
INVARIANT PurgedStaysPurged
PROPERTY DispatchesSettle
CHECK_DEADLOCK FALSE
