\* A promise with two clients, of which the second one gets a copy of the
\* shared_future, or a task with one; its function may return a future.
SPECIFICATION FairSpec
CONSTANTS
  Clients = {c1, c2}
  First = c1
  Sources = {"promise", "task", "unwrapping"}
  Copied = {"promise"}
INVARIANTS
  DeliveredXorCancelled
  ReaderFindsResult
  AliveWhileUsed
  NotifiedExactlyOnce
  NotAwaitenIsFinal
PROPERTIES
  ResultNeverReplaced
  GetReturns
  NoLeak
  ImplementsContract
