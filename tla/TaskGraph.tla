----------------------------- MODULE TaskGraph -----------------------------
(***************************************************************************)
(* The composition: a graph of continuations, attached to one promise and  *)
(* to each other's futures, all scheduled on one static_thread_pool that   *)
(* may be stopped, waited for and destroyed while they run.                *)
(*                                                                         *)
(* Then and ThreadPool tell how a continuation gets from its parent to its *)
(* child and how a thread gets from attach() to its end; here each of      *)
(* these ways has only the steps at which the two meet.  What is new is    *)
(* the nesting: resolving a future calls schedule for the continuations    *)
(* of it, a task the pool refuses or destroys resolves its future in turn, *)
(* all in one thread, which therefore has a stack of frames.               *)
(*                                                                         *)
(* Future 0 belongs to the promise, future i to continuation i.  Ownership *)
(* is not a variable: a future is alive when somebody holds it, works on   *)
(* it, or has a living action that captured it.                            *)
(***************************************************************************)
EXTENDS Naturals, Sequences

CONSTANTS
  N,        \* number of continuations
  Parent,   \* the future each of them is attached to
  Workers,  \* threads of the pool
  Source,   \* the thread with the promise
  Owner     \* the thread that owns the pool

Stages == 1..N
Futures == 0..N
Threads == Workers \cup {Source, Owner}

ASSUME GraphAssumption ==
  /\ N \in Nat
  /\ Parent \in [Stages -> Futures]
  /\ \A i \in Stages : Parent[i] < i
  /\ Source \notin Workers /\ Owner \notin Workers /\ Source # Owner

VARIABLES
  result,   \* what each future holds
  action,   \* continuations whose action is not clean
  held,     \* futures that clients of the library hold
  queue,    \* tasks in the pool's queue
  closed,   \* queue_.closed_
  stopped,  \* stopped_
  left,     \* workers that have left process_queue
  pool,     \* what the owner is doing
  frames,   \* calls each thread is in, the innermost one first
  promised  \* the promise has not been used or destroyed

pvars == <<queue, closed, stopped, left, pool>>
fvars == <<result, action, held, promised>>
vars == <<fvars, pvars, frames>>

Children(i) == {j \in Stages : Parent[j] = i}

Leaves == {i \in Stages : Children(i) = {}}

Init ==
  /\ result = [i \in Futures |-> "pending"]
  /\ action = Stages
  /\ \E extra \in SUBSET (Stages \ Leaves) : held = Leaves \cup extra
  /\ queue = <<>>
  /\ closed = FALSE
  /\ stopped = FALSE
  /\ left = {}
  /\ pool = "open"
  /\ frames = [t \in Threads |-> <<>>]
  /\ promised = TRUE

-----------------------------------------------------------------------------
\* Frames and ownership.

Frame(o, i) == [op |-> o, at |-> i, todo |-> IF o = "execute" THEN Children(i) ELSE {}]

Idle(t) == frames[t] = <<>>

\* Thread t's innermost call is o.
In(t, o) == ~Idle(t) /\ Head(frames[t]).op = o

At(t) == Head(frames[t]).at

AllFrames == UNION {{frames[t][k] : k \in 1..Len(frames[t])} : t \in Threads}

\* A task that was taken but not begun has a weak pointer only.
InUse == {f.at : f \in {g \in AllFrames : g.op # "task"}}

\* The function of a running continuation owns the parent.
Running == {f.at : f \in {g \in AllFrames : g.op = "run"}}

Alive ==
  LET alive[i \in Futures] ==
        \/ i \in held \cup InUse
        \/ \E j \in Children(i) : j \in Running \/ (j \in action /\ alive[j])
  IN  alive

\* Mutant: abandon leaves the future as it is.
Abandon_Forgets(t, i, rest) ==
  IF ~Alive[i]
    THEN frames' = [frames EXCEPT ![t] = rest] /\ UNCHANGED result
    ELSE /\ frames' = [frames EXCEPT ![t] = <<Frame("abandon", i)>> \o rest]
         /\ UNCHANGED result

\* ~cnt_action of a task that was not run: its future is resolved, which
\* calls the continuations attached to that, before the action is cleaned.
Abandon(t, i, rest) ==
  IF ~Alive[i]
    THEN frames' = [frames EXCEPT ![t] = rest] /\ UNCHANGED result
    ELSE /\ result' = [result EXCEPT ![i] = "broken"]
         /\ frames' = [frames EXCEPT
                         ![t] = <<Frame("execute", i), Frame("abandon", i)>> \o rest]

-----------------------------------------------------------------------------
\* Any thread that resolves a future.

\* schedule: a continuation whose future is gone is skipped, another one is
\* posted, and a closed queue destroys what is posted.
CallContinuation(t, j) ==
  /\ In(t, "execute")
  /\ j \in Head(frames[t]).todo
  /\ LET rest == [frames[t] EXCEPT ![1].todo = @ \ {j}]
     IN  IF closed
           THEN Abandon(t, j, rest) /\ UNCHANGED queue
           ELSE /\ frames' = [frames EXCEPT ![t] = rest]
                /\ queue' = IF Alive[j] THEN Append(queue, j) ELSE queue
                /\ UNCHANGED result
  /\ UNCHANGED <<action, held, closed, stopped, left, pool, promised>>

EndExecute(t) ==
  /\ In(t, "execute")
  /\ Head(frames[t]).todo = {}
  /\ frames' = [frames EXCEPT ![t] = Tail(@)]
  /\ UNCHANGED <<fvars, pvars>>

\* action.clean() gives the parent up.
EndAbandon(t) ==
  /\ In(t, "abandon")
  /\ action' = action \ {At(t)}
  /\ frames' = [frames EXCEPT ![t] = Tail(@)]
  /\ UNCHANGED <<result, held, pvars, promised>>

\* The promise is used ("value") or destroyed ("broken").
UsePromise(r) ==
  /\ promised
  /\ promised' = FALSE
  /\ IF Alive[0]
       THEN /\ result' = [result EXCEPT ![0] = r]
            /\ frames' = [frames EXCEPT ![Source] = <<Frame("execute", 0)>>]
       ELSE UNCHANGED <<result, frames>>
  /\ UNCHANGED <<action, held, pvars>>

-----------------------------------------------------------------------------
\* The pool's threads.

\* queue_.pop, unless stopped_ ends the loop before.
Take(t) ==
  /\ Idle(t)
  /\ t \notin left
  /\ ~stopped
  /\ queue # <<>>
  /\ queue' = Tail(queue)
  /\ frames' = [frames EXCEPT ![t] = <<Frame("task", Head(queue))>>]
  /\ UNCHANGED <<fvars, closed, stopped, left, pool>>

\* cnt_state::run: a task whose future is gone does nothing.
Run(t) ==
  /\ In(t, "task")
  /\ IF Alive[At(t)]
       THEN /\ action' = action \ {At(t)}
            /\ frames' = [frames EXCEPT ![t] = <<Frame("run", At(t))>>]
       ELSE /\ frames' = [frames EXCEPT ![t] = <<>>]
            /\ UNCHANGED action
  /\ UNCHANGED <<result, held, pvars, promised>>

\* A continuation attached with next passes a broken promise on.
Outcomes(i) == {"value"} \cup {result[Parent[i]]}

\* The function returns; the future gets its result.
SetResult(t, r) ==
  /\ In(t, "run")
  /\ result[At(t)] = "pending"
  /\ r \in Outcomes(At(t))
  /\ result' = [result EXCEPT ![At(t)] = r]
  /\ frames' = [frames EXCEPT ![t] = <<Frame("execute", At(t))>> \o @]
  /\ UNCHANGED <<action, held, pvars, promised>>

EndRun(t) ==
  /\ In(t, "run")
  /\ result[At(t)] # "pending"
  /\ frames' = [frames EXCEPT ![t] = <<>>]
  /\ UNCHANGED <<fvars, pvars>>

\* Mutant: a thread leaves a closed queue without looking what is left in it.
LeaveLoop_QueueIgnored(t) ==
  /\ Idle(t)
  /\ t \in Workers \ left
  /\ stopped \/ closed
  /\ left' = left \cup {t}
  /\ UNCHANGED <<fvars, queue, closed, stopped, pool, frames>>

LeaveLoop(t) ==
  /\ Idle(t)
  /\ t \in Workers \ left
  /\ stopped \/ (closed /\ queue = <<>>)
  /\ left' = left \cup {t}
  /\ UNCHANGED <<fvars, queue, closed, stopped, pool, frames>>

-----------------------------------------------------------------------------
\* The owner.

Stop ==
  /\ pool = "open"
  /\ stopped' = TRUE
  /\ closed' = TRUE
  /\ UNCHANGED <<fvars, queue, left, pool, frames>>

Wait ==
  /\ pool = "open"
  /\ pool' = "join"
  /\ closed' = TRUE
  /\ UNCHANGED <<fvars, queue, stopped, left, frames>>

Joined ==
  /\ pool = "join"
  /\ left = Workers
  /\ pool' = "joined"
  /\ UNCHANGED <<fvars, queue, closed, stopped, left, frames>>

\* Mutant: the destructor sets stopped_ only.
Destroy_NotClosed ==
  /\ pool \in {"open", "joined"}
  /\ ~promised /\ Idle(Source)
  /\ stopped' = TRUE
  /\ pool' = "destroy"
  /\ UNCHANGED <<fvars, queue, closed, left, frames>>

\* The destructor.  Its executors must not be used any more: the promise is
\* gone and nobody is calling continuations.
Destroy ==
  /\ pool \in {"open", "joined"}
  /\ ~promised /\ Idle(Source)
  /\ stopped' = TRUE
  /\ closed' = TRUE
  /\ pool' = "destroy"
  /\ UNCHANGED <<fvars, queue, left, frames>>

\* The threads are joined, then the queue is destroyed, task by task.
DestroyTask ==
  /\ pool = "destroy"
  /\ left = Workers
  /\ Idle(Owner)
  /\ queue # <<>>
  /\ queue' = Tail(queue)
  /\ Abandon(Owner, Head(queue), <<>>)
  /\ UNCHANGED <<action, held, closed, stopped, left, pool, promised>>

Destroyed ==
  /\ pool = "destroy"
  /\ left = Workers
  /\ Idle(Owner)
  /\ queue = <<>>
  /\ pool' = "destroyed"
  /\ UNCHANGED <<fvars, queue, closed, stopped, left, frames>>

-----------------------------------------------------------------------------
\* A client drops a future.
DropFuture(i) ==
  /\ i \in held
  /\ held' = held \ {i}
  /\ UNCHANGED <<result, action, pvars, frames, promised>>

Resolving(t) ==
  (\E j \in Stages : CallContinuation(t, j)) \/ EndExecute(t) \/ EndAbandon(t)

Working(t) ==
  Take(t) \/ Run(t) \/ (\E r \in {"value", "broken"} : SetResult(t, r)) \/ EndRun(t)
    \/ LeaveLoop(t)

Owning == Joined \/ DestroyTask \/ Destroyed

\* Everything is over (not a step of the code).
Terminated ==
  /\ pool = "destroyed"
  /\ held = {}
  /\ UNCHANGED vars

Next ==
  \/ \E r \in {"value", "broken"} : UsePromise(r)
  \/ \E t \in Threads : Resolving(t)
  \/ \E t \in Workers : Working(t)
  \/ Stop \/ Wait \/ Destroy \/ Owning
  \/ \E i \in Stages : DropFuture(i)
  \/ Terminated

Spec == Init /\ [][Next]_vars

\* Threads go on; nobody has to use the promise, drop a future or stop,
\* wait for or destroy the pool.
FairSpec ==
  /\ Spec
  /\ \A t \in Threads : WF_vars(Resolving(t))
  /\ \A t \in Workers : WF_vars(Working(t))
  /\ WF_vars(Owning)

-----------------------------------------------------------------------------

TypeOK ==
  /\ result \in [Futures -> {"pending", "value", "broken"}]
  /\ action \subseteq Stages
  /\ held \subseteq Stages
  /\ queue \in Seq(Stages)
  /\ closed \in BOOLEAN
  /\ stopped \in BOOLEAN
  /\ left \subseteq Workers
  /\ pool \in {"open", "join", "joined", "destroy", "destroyed"}
  /\ \A f \in AllFrames : /\ f.op \in {"execute", "abandon", "task", "run"}
                          /\ f.at \in Futures
                          /\ f.todo \subseteq Children(f.at)
  /\ promised \in BOOLEAN

\* Whatever happens to a continuation is explained by its parent and the
\* pool: it is called after its parent was resolved and queued at most once,
\* and its promise is broken only if the queue was closed (by wait() as well as
\* by stop() and the destructor) or the parent's was.
ResultsAreExplained ==
  /\ TypeOK
  /\ \A i \in Running : result[Parent[i]] # "pending"
  /\ \A k, l \in 1..Len(queue) : queue[k] = queue[l] => k = l
  /\ \A k \in 1..Len(queue) : result[queue[k]] = "pending" /\ queue[k] \notin InUse
  /\ \A i \in Stages :
       result[i] = "broken" => closed \/ result[Parent[i]] = "broken"

\* When the destructor returns, no thread is in or will get to a post() on
\* the destroyed queue, and nobody waits for a future its tasks had to
\* resolve: those that never ran have passed broken_promise on.
DestroyedIsFinal ==
  pool = "destroyed" =>
    /\ \A t \in Threads : Idle(t)
    /\ \A i \in held : result[i] # "pending"

\* Once the promise is used or destroyed every future somebody holds gets a
\* result, however its chain was cut, unless stop() leaves tasks in the
\* queue of a pool that is not destroyed.
FuturesResolve ==
  \A i \in Stages :
    ~promised ~> result[i] # "pending" \/ i \notin held \/ (stopped /\ pool # "destroyed")
=============================================================================
