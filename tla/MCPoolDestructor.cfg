\* One worker, two posted tasks, and a destructor.
SPECIFICATION Spec
CONSTANTS
  Workers = {w1}
  Externals = {}
  Tasks = {t1, t2}
  Reposting = {}
  Followup = none
  NONE = none
INVARIANT
  DestructorDrains
