\* One process, two threads; calls that fail without touching the file; crashes.
CONSTANTS
  t1 = t1
  t2 = t2
  l1 = l1
  l2 = l2
  NoThread = NoThread
  NoKey = NoKey
  EmptyKey = EmptyKey
  Threads = {t1, t2}
  Loggers = {l1}
  ObjOf <- OneObject
  MaxLines = 1
  MaxEntries = 5
  MaxStamp = 3
  MaxBoots = 3
  SameSecond = FALSE
  ErrorOutcomes = {"none"}
  CrashOutcomes = {}
SPECIFICATION FairSpec
INVARIANTS TypeOK ChainIntact
PROPERTIES ImplementsAppendOnlyLog LockReturned
\* the bounds on entries and constructions stop the model
CHECK_DEADLOCK FALSE
