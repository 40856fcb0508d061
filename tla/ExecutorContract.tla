-------------------------- MODULE ExecutorContract --------------------------
(***************************************************************************)
(* What a pool of threads promises to those who post tasks to it, with no  *)
(* locks, condition variables or loops: accepted tasks are started in the  *)
(* order they were accepted in, each by one thread and once.  wait()       *)
(* returns when nothing runs, nothing will run any more, and, unless the   *)
(* pool was stopped, nothing waits.  Only the destruction of a stopped     *)
(* pool loses an accepted task.                                            *)
(***************************************************************************)
EXTENDS Sequences, Functions

CONSTANTS
  Threads,      \* whoever may run tasks
  Tasks,
  Waited,       \* wait() waits for somebody
  NONE          \* no task

VARIABLES
  waiting,    \* the tasks accepted and not started, in the order of post
  running,    \* running[t]: the task that thread t has taken and not finished
  posted,     \* the tasks that were posted
  done,       \* those that were executed,
  refused,    \* came too late,
  lost,       \* or were left when the pool was destroyed
  closed,     \* no task is accepted any more
  halted,     \* stop() was called
  over        \* wait() has returned

evars == <<waiting, running, posted, done, refused, lost, closed, halted, over>>

Init ==
  /\ waiting = <<>>
  /\ running = [t \in Threads |-> NONE]
  /\ posted = {}
  /\ done = {}
  /\ refused = {}
  /\ lost = {}
  /\ closed = FALSE
  /\ halted = FALSE
  /\ over = FALSE

Post(k) ==
  /\ k \notin posted
  /\ posted' = posted \cup {k}
  /\ IF closed
       THEN refused' = refused \cup {k} /\ UNCHANGED waiting
       ELSE waiting' = Append(waiting, k) /\ UNCHANGED refused
  /\ UNCHANGED <<running, done, lost, closed, halted, over>>

Take(t) ==
  /\ ~over
  /\ running[t] = NONE
  /\ waiting # <<>>
  /\ running' = [running EXCEPT ![t] = Head(waiting)]
  /\ waiting' = Tail(waiting)
  /\ UNCHANGED <<posted, done, refused, lost, closed, halted, over>>

Finish(t) ==
  /\ running[t] # NONE
  /\ running' = [running EXCEPT ![t] = NONE]
  /\ done' = done \cup {running[t]}
  /\ UNCHANGED <<waiting, posted, refused, lost, closed, halted, over>>

Halt ==
  /\ halted' = TRUE
  /\ UNCHANGED <<waiting, running, posted, done, refused, lost, closed, over>>

Close ==
  /\ closed' = TRUE
  /\ UNCHANGED <<waiting, running, posted, done, refused, lost, halted, over>>

\* There was somebody to wait for, and nothing is left for him to do.
Ends ==
  /\ closed
  /\ \A t \in Threads : running[t] = NONE
  /\ waiting = <<>> \/ halted

WaitReturns ==
  /\ Waited
  /\ Ends
  /\ over' = TRUE
  /\ UNCHANGED <<waiting, running, posted, done, refused, lost, closed, halted>>

Destroy ==
  /\ halted
  /\ Waited => Ends
  /\ over' = Waited
  /\ lost' = lost \cup Range(waiting)
  /\ waiting' = <<>>
  /\ UNCHANGED <<running, posted, done, refused, closed, halted>>

Next ==
  \/ \E k \in Tasks : Post(k)
  \/ \E t \in Threads : Take(t) \/ Finish(t)
  \/ Halt \/ Close \/ WaitReturns \/ Destroy

Spec == Init /\ [][Next]_evars
=============================================================================
