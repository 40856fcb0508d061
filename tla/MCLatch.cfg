\* Two threads that arrive, two that count down and are joined, two that
\* only wait; any of them destroys the latch.
SPECIFICATION FairSpec
CONSTANTS
  Arrivers = {a1, a2}
  Counters = {c1, c2}
  Watchers = {w1, w2}
  Amounts = {0, 1, 2}
  Joined = {c1, c2}
INVARIANTS
  BarrierHolds
  NoUseAfterDestruction
PROPERTY
  CallsReturn
