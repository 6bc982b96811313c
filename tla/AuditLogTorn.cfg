\* One process; appends cut short by an error or a crash.
CONSTANTS
  t1 = t1
  t2 = t2
  l1 = l1
  l2 = l2
  NoThread = NoThread
  NoKey = NoKey
  EmptyKey = EmptyKey
  Threads = {t1, t2}
  Loggers = {l1}
  ObjOf <- OneObject
  MaxLines = 2
  MaxEntries = 6
  MaxStamp = 3
  MaxBoots = 3
  SameSecond = FALSE
  ErrorOutcomes = {"none", "part", "nonl"}
  CrashOutcomes = {"part", "nonl"}
SYMMETRY ThreadSymmetry
SPECIFICATION Spec
INVARIANTS EntriesLinked AckedKept SeqIncreasing
\* the bounds on entries and constructions stop the model
CHECK_DEADLOCK FALSE
