----------------------------- MODULE ThreadPool -----------------------------
(***************************************************************************)
(* static_thread_pool and the closable_queue its threads share.  One owner *)
(* thread may stop the pool, wait for it and destroy it; the pool's own    *)
(* workers run attach() from birth, other threads may attach at any time;  *)
(* any thread may post.                                                    *)
(*                                                                         *)
(* A critical section of the queue's mutex is one step, except when a      *)
(* thread does not get out of it: queue_.pop() destroys the task this      *)
(* thread ran before, and a task whose destructor posts to the same pool   *)
(* locks the mutex again.  Both condition variables are modelled with      *)
(* their sets of sleepers, so that a missing notification is a missing     *)
(* step.  stopped_ is read relaxed: a thread may read a stale false as     *)
(* long as nothing it has synchronised with happened after the store.      *)
(***************************************************************************)
EXTENDS Naturals, Sequences, FiniteSets, Functions

CONSTANTS
  Workers,    \* threads_, started by the constructor
  Externals,  \* threads of the program that call attach()
  Tasks,
  Reposting,  \* tasks whose destruction posts Followup to the pool
  Followup,   \* such as the continuation of a promise the task captured
  NONE        \* no task, no thread

ASSUME PoolAssumption ==
  /\ Workers \cap Externals = {}
  /\ Reposting \subseteq Tasks
  /\ Followup \in Tasks \cup {NONE}
  /\ Reposting # {} => Followup # NONE
  /\ NONE \notin Workers \cup Externals \cup Tasks
  /\ IsFiniteSet(Workers \cup Externals)
  /\ {"mutex", "queue"} \cap (Workers \cup Externals) = {}

VARIABLES
  queue,     \* queue_.queue_
  closed,    \* queue_.closed_
  lock,      \* the thread that never leaves the queue's critical section
  stopped,   \* stopped_
  fresh,     \* who can no longer read a stale stopped_ (and mutex_'s view)
  attached,  \* attached_threads_
  pc,        \* where each thread stands in attach()
  task,      \* the local variable task of process_queue
  status,    \* what became of each task
  late,      \* tasks a thread took after stop() returned
  opc,       \* what the owner is doing
  dtor,      \* the owner is in the destructor
  joined,    \* wait() has returned
  present    \* the attached threads inside attach() when wait() was called

vars == <<queue, closed, lock, stopped, fresh, attached, pc, task, status, late,
          opc, dtor, joined, present>>

qvars == <<queue, closed, lock>>
ovars == <<stopped, opc, dtor, joined, present>>

Threads == Workers \cup Externals

Init ==
  /\ queue = <<>>
  /\ closed = FALSE
  /\ lock = NONE
  /\ stopped = FALSE
  /\ fresh = {}
  /\ attached = 0
  /\ pc = [t \in Threads |-> "outside"]
  /\ task = [t \in Threads |-> NONE]
  /\ status = [k \in Tasks |-> "idle"]
  /\ late = [t \in Threads |-> 0]
  /\ opc = "idle"
  /\ dtor = FALSE
  /\ joined = FALSE
  /\ present = {}

-----------------------------------------------------------------------------
\* closable_queue.

\* Mutant: push() notifies nobody.
NotifyOne_Never(at) == pc' = at

\* notify_one on cv_: some sleeper, if there is one, will look again.  The
\* caller itself goes on as at says.
NotifyOne(at) ==
  LET Sleepers == {t \in Threads : at[t] = "asleep"}
  IN  IF Sleepers = {}
        THEN pc' = at
        ELSE \E t \in Sleepers : pc' = [at EXCEPT ![t] = "pop"]

\* push: a closed queue drops the task.
Push(k, at) ==
  /\ lock = NONE
  /\ IF closed
       THEN /\ status' = [status EXCEPT ![k] = "dropped"]
            /\ pc' = at
            /\ UNCHANGED queue
       ELSE /\ status' = [status EXCEPT ![k] = "queued"]
            /\ queue' = Append(queue, k)
            /\ NotifyOne(at)
  /\ UNCHANGED <<closed, lock>>

\* close: everybody who sleeps looks again.
CloseQueue ==
  /\ lock = NONE
  /\ closed' = TRUE
  /\ pc' = [t \in Threads |-> IF pc[t] = "asleep" THEN "pop" ELSE pc[t]]
  /\ UNCHANGED <<queue, lock>>

\* Entering the critical section after stop()'s close makes the store visible.
SyncWithClose(t) ==
  fresh' = IF stopped /\ closed /\ "queue" \in fresh THEN fresh \cup {t} ELSE fresh

-----------------------------------------------------------------------------
\* post(pool.executor(), task) by some thread of the program.
Post(k) ==
  /\ opc # "destroyed"
  /\ status[k] = "idle"
  /\ k # Followup
  /\ Push(k, pc)
  /\ UNCHANGED <<fresh, attached, task, late, ovars>>

\* Mutant: attached_threads_ is not incremented.
Attach_NotCounted(t) ==
  /\ opc # "destroyed"
  /\ pc[t] = "outside"
  /\ attached' = attached
  /\ pc' = [pc EXCEPT ![t] = "check"]
  /\ fresh' = IF "mutex" \in fresh THEN fresh \cup {t} ELSE fresh
  /\ UNCHANGED <<qvars, task, status, late, ovars>>

\* attach: the thread is counted under mutex_.
Attach(t) ==
  /\ opc # "destroyed"
  /\ pc[t] = "outside"
  /\ attached' = attached + 1
  /\ pc' = [pc EXCEPT ![t] = "check"]
  /\ fresh' = IF "mutex" \in fresh THEN fresh \cup {t} ELSE fresh
  /\ UNCHANGED <<qvars, task, status, late, ovars>>

\* process_queue's loop condition reads stopped_.
SeesStopped(t) ==
  /\ pc[t] = "check"
  /\ stopped
  /\ pc' = [pc EXCEPT ![t] = "exit"]
  /\ fresh' = fresh \cup {t}
  /\ UNCHANGED <<qvars, attached, task, status, late, ovars>>

\* Mutant: the loop does not look at stopped_.
SeesNotStopped_NeverLooks(t) ==
  /\ pc[t] = "check"
  /\ pc' = [pc EXCEPT ![t] = "pop"]
  /\ UNCHANGED <<qvars, fresh, attached, task, status, late, ovars>>

SeesNotStopped(t) ==
  /\ pc[t] = "check"
  /\ stopped => t \notin fresh
  /\ pc' = [pc EXCEPT ![t] = "pop"]
  /\ UNCHANGED <<qvars, fresh, attached, task, status, late, ovars>>

\* pop: nothing to do yet.
PopSleeps(t) ==
  /\ pc[t] = "pop"
  /\ lock = NONE
  /\ ~closed
  /\ queue = <<>>
  /\ pc' = [pc EXCEPT ![t] = "asleep"]
  /\ UNCHANGED <<qvars, fresh, attached, task, status, late, ovars>>

SpuriousWakeUp(t) ==
  /\ pc[t] = "asleep"
  /\ pc' = [pc EXCEPT ![t] = "pop"]
  /\ UNCHANGED <<qvars, fresh, attached, task, status, late, ovars>>

\* pop returns false.
PopClosed(t) ==
  /\ pc[t] = "pop"
  /\ lock = NONE
  /\ closed
  /\ queue = <<>>
  /\ SyncWithClose(t)
  /\ pc' = [pc EXCEPT ![t] = "exit"]
  /\ UNCHANGED <<qvars, attached, task, status, late, ovars>>

\* Mutant: queue_.pop() is missing.
PopTakes_NotRemoved(t) ==
  /\ pc[t] = "pop"
  /\ lock = NONE
  /\ queue # <<>>
  /\ SyncWithClose(t)
  /\ task' = [task EXCEPT ![t] = Head(queue)]
  /\ queue' = queue
  /\ late' = IF stopped /\ "queue" \in fresh THEN [late EXCEPT ![t] = @ + 1] ELSE late
  /\ IF task[t] \in Reposting
       THEN /\ lock' = t
            /\ pc' = [pc EXCEPT ![t] = "relock"]
            /\ UNCHANGED status
       ELSE /\ pc' = [pc EXCEPT ![t] = "running"]
            /\ status' = [status EXCEPT ![Head(queue)] = "running"]
            /\ UNCHANGED lock
  /\ UNCHANGED <<closed, attached, ovars>>

\* pop takes the front task.  The swap puts the thread's previous task into
\* the queue's front slot, where queue_.pop() destroys it, under the lock.
PopTakes(t) ==
  /\ pc[t] = "pop"
  /\ lock = NONE
  /\ queue # <<>>
  /\ SyncWithClose(t)
  /\ task' = [task EXCEPT ![t] = Head(queue)]
  /\ queue' = Tail(queue)
  /\ late' = IF stopped /\ "queue" \in fresh THEN [late EXCEPT ![t] = @ + 1] ELSE late
  /\ IF task[t] \in Reposting
       THEN /\ lock' = t
            /\ pc' = [pc EXCEPT ![t] = "relock"]
            /\ UNCHANGED status
       ELSE /\ pc' = [pc EXCEPT ![t] = "running"]
            /\ status' = [status EXCEPT ![Head(queue)] = "running"]
            /\ UNCHANGED lock
  /\ UNCHANGED <<closed, attached, ovars>>

\* task() returns; the function object stays in the local variable.
EndTask(t) ==
  /\ pc[t] = "running"
  /\ status' = [status EXCEPT ![task[t]] = "done"]
  /\ pc' = [pc EXCEPT ![t] = "check"]
  /\ UNCHANGED <<qvars, fresh, attached, task, late, ovars>>

\* Leaving process_queue destroys the last task, outside the lock.
ExitLoop(t) ==
  /\ pc[t] = "exit"
  /\ LET at == [pc EXCEPT ![t] = "leave"]
     IN  IF task[t] \in Reposting /\ status[Followup] = "idle"
           THEN Push(Followup, at)
           ELSE pc' = at /\ UNCHANGED <<qvars, status>>
  /\ task' = [task EXCEPT ![t] = NONE]
  /\ UNCHANGED <<fresh, attached, late, ovars>>

\* Mutant: attach returns without waiting for the other threads.
Leave_NoBarrier(t) ==
  /\ pc[t] = "leave"
  /\ attached' = attached - 1
  /\ pc' = [pc EXCEPT ![t] = "notify"]
  /\ fresh' = IF t \in fresh THEN fresh \cup {"mutex"} ELSE fresh
  /\ UNCHANGED <<qvars, task, status, late, ovars>>

\* attach goes on under mutex_: the last one out does not wait.
Leave(t) ==
  /\ pc[t] = "leave"
  /\ attached' = attached - 1
  /\ pc' = [pc EXCEPT ![t] = IF attached = 1 THEN "notify" ELSE "barrier"]
  /\ fresh' = IF t \in fresh THEN fresh \cup {"mutex"} ELSE fresh
  /\ UNCHANGED <<qvars, task, status, late, ovars>>

\* A notified (or spuriously woken) thread evaluates the predicate again.
BarrierRecheck(t) ==
  /\ pc[t] = "woken"
  /\ pc' = [pc EXCEPT ![t] = IF attached = 0 THEN "notify" ELSE "barrier"]
  /\ UNCHANGED <<qvars, fresh, attached, task, status, late, ovars>>

BarrierSpuriousWakeUp(t) ==
  /\ pc[t] = "barrier"
  /\ pc' = [pc EXCEPT ![t] = "woken"]
  /\ UNCHANGED <<qvars, fresh, attached, task, status, late, ovars>>

\* Mutant: notify_all at the end of attach is missing.
NotifyLeavers_NoNotify(t) ==
  /\ pc[t] = "notify"
  /\ pc' = [pc EXCEPT ![t] = "left"]
  /\ UNCHANGED <<qvars, fresh, attached, task, status, late, ovars>>

\* cv_.notify_all() and return from attach.
NotifyLeavers(t) ==
  /\ pc[t] = "notify"
  /\ pc' = [u \in Threads |-> IF u = t THEN "left"
                              ELSE IF pc[u] = "barrier" THEN "woken" ELSE pc[u]]
  /\ UNCHANGED <<qvars, fresh, attached, task, status, late, ovars>>

-----------------------------------------------------------------------------
\* The owner.

\* stop, or the destructor's call of it: store stopped_, then close.
Stop(d) ==
  /\ opc = "idle"
  /\ stopped' = TRUE
  /\ dtor' = d
  /\ opc' = "stop"
  /\ UNCHANGED <<qvars, fresh, attached, pc, task, status, late, joined, present>>

StopCloses ==
  /\ opc = "stop"
  /\ CloseQueue
  /\ fresh' = fresh \cup {"queue"}
  /\ opc' = IF dtor THEN "wait" ELSE "idle"
  /\ UNCHANGED <<attached, task, status, late, stopped, dtor, joined, present>>

Wait ==
  /\ opc = "idle"
  /\ ~joined
  /\ opc' = "wait"
  /\ UNCHANGED <<qvars, fresh, attached, pc, task, status, late, stopped, dtor,
                 joined, present>>

WaitCloses ==
  /\ opc = "wait"
  /\ CloseQueue
  /\ present' = {t \in Externals : pc[t] \notin {"outside", "left"}}
  /\ opc' = "join"
  /\ UNCHANGED <<fresh, attached, task, status, late, stopped, dtor, joined>>

\* Every thread of threads_ has been joined.  After the destructor's wait()
\* the queue is destroyed with the tasks left in it.
Join ==
  /\ opc = "join"
  /\ joined \/ \A w \in Workers : pc[w] = "left"
  /\ joined' = TRUE
  /\ IF dtor
       THEN /\ opc' = "destroyed"
            /\ queue' = <<>>
            /\ status' = [k \in Tasks |->
                            IF k \in Range(queue) THEN "abandoned" ELSE status[k]]
       ELSE /\ opc' = "idle"
            /\ UNCHANGED <<queue, status>>
  /\ UNCHANGED <<closed, lock, fresh, attached, pc, task, late, stopped, dtor,
                 present>>

-----------------------------------------------------------------------------

LoopStep(t) ==
  \/ SeesStopped(t) \/ SeesNotStopped(t)
  \/ PopSleeps(t) \/ PopClosed(t) \/ PopTakes(t)
  \/ EndTask(t)
  \/ ExitLoop(t) \/ Leave(t) \/ BarrierRecheck(t) \/ NotifyLeavers(t)

ThreadStep(t) ==
  Attach(t) \/ LoopStep(t) \/ SpuriousWakeUp(t) \/ BarrierSpuriousWakeUp(t)

OwnerStep == StopCloses \/ WaitCloses \/ Join

\* Everything is over (not a step of the code).
Terminated ==
  /\ opc = "destroyed"
  /\ \A t \in Threads : pc[t] \in {"outside", "left"}
  /\ UNCHANGED vars

Next ==
  \/ \E k \in Tasks : Post(k)
  \/ \E t \in Threads : ThreadStep(t)
  \/ Stop(FALSE) \/ Stop(TRUE) \/ Wait \/ OwnerStep
  \/ Terminated

Spec == Init /\ [][Next]_vars

\* Threads inside attach, tasks and owner calls go on, and the constructor's
\* threads start; nobody has to post, attach, stop, wait or destroy.
Fairness ==
  /\ \A t \in Threads : WF_vars(LoopStep(t))
  /\ \A w \in Workers : WF_vars(Attach(w))
  /\ WF_vars(OwnerStep)

FairSpec == Spec /\ Fairness

-----------------------------------------------------------------------------

TypeOK ==
  /\ queue \in Seq(Tasks)
  /\ closed \in BOOLEAN
  /\ lock \in Threads \cup {NONE}
  /\ stopped \in BOOLEAN
  /\ fresh \subseteq Threads \cup {"mutex", "queue"}
  /\ attached \in 0..Cardinality(Threads)
  /\ pc \in [Threads -> {"outside", "check", "pop", "asleep", "running",
                         "relock", "exit", "leave", "barrier", "woken",
                         "notify", "left"}]
  /\ task \in [Threads -> Tasks \cup {NONE}]
  /\ status \in [Tasks -> {"idle", "queued", "running", "done", "dropped",
                           "abandoned"}]
  /\ late \in [Threads -> Nat]
  /\ opc \in {"idle", "stop", "wait", "join", "destroyed"}
  /\ dtor \in BOOLEAN
  /\ joined \in BOOLEAN
  /\ present \subseteq Externals

\* A task that was accepted is in one place only: in the queue once, or in
\* the hands of one thread, or over.
OnePlace ==
  /\ \A i, j \in 1..Len(queue) : queue[i] = queue[j] => i = j
  /\ \A i \in 1..Len(queue) : status[queue[i]] = "queued"
  /\ \A t, u \in Threads : task[t] # NONE /\ task[t] = task[u] => t = u
  /\ \A k \in Tasks :
       status[k] = "queued" =>
         \/ \E i \in 1..Len(queue) : queue[i] = k
         \/ \E t \in Threads : task[t] = k /\ pc[t] = "relock"

\* wait() without stop() returns only when everything accepted has been done,
\* by whichever thread took it, and no task runs after any wait() returned.
DrainedWhenWaited ==
  Workers # {} /\ joined =>
    /\ ~stopped => \A k \in Tasks : status[k] \notin {"queued", "running"}
    /\ \A t \in Threads : pc[t] # "running"

\* After stop() has returned, a thread starts at most the one task it was
\* about to take, although stopped_ is read without ordering.
StopIsPrompt == \A t \in Threads : late[t] <= 1

\* An accepted task is executed unless the pool is stopped.
AcceptedTasksRun ==
  \A k \in Tasks : status[k] = "queued" ~> status[k] = "done" \/ stopped

\* wait() and the destructor return, whatever the queue holds and whoever is
\* attached, and so does attach() once the queue is closed: neither condition
\* variable misses a notification.
CallsReturn ==
  /\ opc = "join" ~> opc # "join"
  /\ \A t \in Threads : closed /\ pc[t] = "check" ~> pc[t] = "left"

-----------------------------------------------------------------------------
\* What comments and tests say, and the code does not do.

\* ~static_thread_pool: "stop accepting incoming work and wait for work to
\* drain".  The destructor calls stop(), which abandons what is queued.
DestructorDrains ==
  opc = "destroyed" => \A k \in Tasks : status[k] # "abandoned"

\* wait(): "wait for all threads in the thread pool to complete", attach()
\* being "attach current thread to the thread pools list of worker threads".
\* Only the constructor's threads are joined: an attached thread may still
\* have to lock mutex_ and notify cv_ when wait() has returned.
WaitCoversAttached ==
  joined /\ Workers # {} => \A t \in present : pc[t] = "left"

-----------------------------------------------------------------------------
\* What those who post see of the pool: a thread runs the task it has taken
\* from the queue, if it ever gets out of the queue with it.
Held(t) == IF pc[t] \in {"running", "relock"} THEN task[t] ELSE NONE

With(s) == {k \in Tasks : status[k] = s}

Contract == INSTANCE ExecutorContract WITH
  Waited <- Workers # {},
  waiting <- queue,
  running <- [t \in Threads |-> Held(t)],
  posted <- Tasks \ With("idle"),
  done <- With("done"),
  refused <- With("dropped"),
  lost <- With("abandoned"),
  halted <- stopped,
  over <- joined /\ Workers # {}

\* The pool, its queue and its barrier together are the executor of
\* ExecutorContract: first come, first served, and nothing runs after wait().
ImplementsContract == Contract!Spec
=============================================================================
