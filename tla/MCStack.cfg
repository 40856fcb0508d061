\* Three concurrent pushes, one of whose continuations throws.
SPECIFICATION FairSpec
CONSTANTS
  Pushers = {p1, p2, p3}
  Consumer = consumer
  Throwing = {p1}
  NULL = null
  CONSUMED = consumed
INVARIANTS
  TypeOK
  CalledAtMostOnce
  Visibility
  NoUseAfterFree
  NothingLost
  ObservedIsFinal
PROPERTY
  ImplementsFairContract
