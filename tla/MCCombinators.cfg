\* Sequences of up to three futures.
SPECIFICATION FairSpec
CONSTANT MaxSize = 3
INVARIANTS
  ResultIsReady
  OwnedWhileNeeded
PROPERTIES
  IndexIsFinal
  ResultArrives
