\* One worker and one attached thread.
SPECIFICATION Spec
CONSTANTS
  Workers = {w1}
  Externals = {e1}
  Tasks = {t1}
  Reposting = {}
  Followup = none
  NONE = none
INVARIANT
  WaitCoversAttached
