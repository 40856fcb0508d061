\* The destruction of t1 posts t3 to the same pool.
SPECIFICATION FairSpec
CONSTANTS
  Workers = {w1}
  Externals = {}
  Tasks = {t1, t2, t3}
  Reposting = {t1}
  Followup = t3
  NONE = none
PROPERTY
  AcceptedTasksRun
CHECK_DEADLOCK FALSE
