\* Two threads and two objects to wait on, shared or not.
SPECIFICATION FairSpec
CONSTANTS
  Threads = {t1, t2}
  Waiters = {w1, w2}
  Producer = producer
  NONE = none
INVARIANTS
  StatusIsTruthful
  AliveWhileNotified
PROPERTY
  WaiterWakes
