\* Sequences of up to two futures.
SPECIFICATION Spec
CONSTANT MaxSize = 2
INVARIANT
  DropDestroysState
