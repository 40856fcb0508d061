\* Three continuations on two threads.
SPECIFICATION FairSpec
CONSTANTS
  N = 3
  Parent <- MCParent
  Workers = {w1, w2}
  Source = source
  Owner = owner
INVARIANTS
  ResultsAreExplained
  DestroyedIsFinal
PROPERTY
  FuturesResolve
