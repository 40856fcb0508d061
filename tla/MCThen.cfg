\* All kinds of continuations, attached early or late.
SPECIFICATION FairSpec
INVARIANTS
  TypeOK
  FunctionRunsOnce
  ChildHasResult
  CancellationPropagates
PROPERTY
  ChildWakesUp
