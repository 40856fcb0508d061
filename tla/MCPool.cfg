\* Two workers, one attached thread, two tasks that post nothing.
SPECIFICATION FairSpec
CONSTANTS
  Workers = {w1, w2}
  Externals = {e1}
  Tasks = {t1, t2}
  Reposting = {}
  Followup = none
  NONE = none
INVARIANTS
  TypeOK
  DrainedWhenWaited
  StopIsPrompt
PROPERTIES
  AcceptedTasksRun
  CallsReturn
  ImplementsContract
