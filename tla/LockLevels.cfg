CONSTANTS
  Threads = {t1, t2, t3, t4}
  Lists = {a, b, c}
  NoThread = NoThread
SPECIFICATION FairSpec
INVARIANTS TypeOK LocksExact Quiescent NoLostWakeup
PROPERTY Level3Granted
