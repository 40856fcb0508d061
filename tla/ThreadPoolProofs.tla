-------------------------- MODULE ThreadPoolProofs --------------------------
(***************************************************************************)
(* Proofs about ThreadPool for any finite number of threads and any set of *)
(* tasks, reposting ones included.                                         *)
(*                                                                         *)
(* Places follows each task from the queue to the thread that runs it.     *)
(* Counted says what attached_threads_ counts, so that a thread which gets *)
(* through the barrier proves that everybody had left the loop.  LoopsOver *)
(* says why nobody runs a task from then on: either the queue is closed    *)
(* and empty, or stopped_ was set and its value came with mutex_ to every  *)
(* thread that attached later.                                             *)
(***************************************************************************)
EXTENDS ThreadPool, FiniteSetTheorems, TLAPS

InQueue(k) == \E i \in 1..Len(queue) : queue[i] = k

NoRepeats == \A i, j \in 1..Len(queue) : queue[i] = queue[j] => i = j

\* The queue holds each task once.  A thread's task is not in the queue, and
\* nobody else's; its status tells whether it still has to run.
Places ==
  /\ NoRepeats
  /\ \A k \in Tasks :
       /\ InQueue(k) => status[k] = "queued"
       /\ status[k] = "queued" =>
            InQueue(k) \/ \E t \in Threads : task[t] = k /\ pc[t] = "relock"
       /\ status[k] = "running" => \E t \in Threads : task[t] = k /\ pc[t] = "running"
  /\ \A t \in Threads :
       /\ task[t] # NONE => ~InQueue(task[t]) /\ status[task[t]] # "idle"
       /\ pc[t] = "running" => task[t] # NONE /\ status[task[t]] = "running"
       /\ \A u \in Threads : task[t] # NONE /\ task[t] = task[u] => t = u

\* The threads between the two critical sections of attach().
Counted == {t \in Threads : pc[t] \notin {"outside", "barrier", "woken", "notify", "left"}}

\* Nothing can be taken from the queue any more.
Drained == closed /\ queue = <<>>

\* stopped_ is set before the queue is closed by stop(), and nobody knows of
\* it before; a thread leaves the loop for one of its two reasons, and hands
\* the second one on.
Exits ==
  /\ fresh # {} \/ opc = "stop" => stopped
  /\ "queue" \in fresh => closed
  /\ \A t \in Threads :
       /\ pc[t] \in {"exit", "leave"} => Drained \/ t \in fresh
       /\ pc[t] \in {"barrier", "woken", "notify", "left"} => Drained \/ "mutex" \in fresh
       /\ late[t] <= 1
       /\ late[t] = 1 => t \in fresh /\ pc[t] \notin {"outside", "pop", "asleep"}

\* Some thread has got through the barrier.
Over == \E t \in Threads : pc[t] \in {"notify", "left"}

\* From then on threads that attach go straight through the loop.
LoopsOver ==
  /\ Over =>
       \A t \in Threads :
         /\ pc[t] \notin {"asleep", "running", "relock"}
         /\ pc[t] = "pop" => Drained
         /\ pc[t] = "check" => Drained \/ t \in fresh
  /\ joined => \A w \in Workers : pc[w] = "left"

\* The inductive invariant.
IInv == TypeOK /\ attached = Cardinality(Counted) /\ Places /\ Exits /\ LoopsOver

-----------------------------------------------------------------------------
\* The queue and its condition variable.

\* The places in attach().
States == {"outside", "check", "pop", "asleep", "running", "relock", "exit", "leave",
           "barrier", "woken", "notify", "left"}

Statuses == {"idle", "queued", "running", "done", "dropped", "abandoned"}

\* Every thread is where at says, but for sleepers that have been woken.
Wakes(at) ==
  /\ pc' \in [Threads -> States]
  /\ \A t \in Threads : pc'[t] = at[t] \/ (at[t] = "asleep" /\ pc'[t] = "pop")

\* post and push move nobody but sleepers.
LEMMA PushEffect ==
  ASSUME TypeOK, NEW k \in Tasks, NEW at \in [Threads -> States], Push(k, at)
  PROVE  /\ UNCHANGED <<closed, lock>>
         /\ Wakes(at)
         /\ \/ /\ closed
               /\ status' = [status EXCEPT ![k] = "dropped"]
               /\ queue' = queue
            \/ /\ ~closed
               /\ status' = [status EXCEPT ![k] = "queued"]
               /\ queue' = Append(queue, k)
<1>1. CASE closed
  BY <1>1 DEF Push, Wakes
<1>2. CASE ~closed
  <2>1. NotifyOne(at)
    BY <1>2 DEF Push
  <2>2. Wakes(at)
    BY <2>1 DEF NotifyOne, Wakes, States
  <2> QED
    BY <1>2, <2>2 DEF Push
<1> QED
  BY <1>1, <1>2

\* So does close.
LEMMA CloseEffect ==
  ASSUME TypeOK, CloseQueue
  PROVE  closed' /\ Wakes(pc) /\ UNCHANGED <<queue, lock>>
BY DEF TypeOK, CloseQueue, Wakes, States

\* push adds a task.
LEMMA QueuePush ==
  ASSUME TypeOK, NEW k \in Tasks, queue' = Append(queue, k), NoRepeats, ~InQueue(k)
  PROVE  /\ queue' \in Seq(Tasks)
         /\ NoRepeats'
         /\ \A j \in Tasks : InQueue(j)' <=> InQueue(j) \/ j = k
<1>1. /\ queue \in Seq(Tasks) /\ Len(queue) \in Nat
      /\ Len(queue') = Len(queue) + 1
      /\ queue' \in Seq(Tasks)
      /\ queue'[Len(queue) + 1] = k
      /\ \A i \in 1..Len(queue) : queue'[i] = queue[i]
  BY DEF TypeOK
<1> QED
  BY <1>1 DEF NoRepeats, InQueue

\* pop removes the front task and no other one.
LEMMA QueueTake ==
  ASSUME TypeOK, queue # <<>>, queue' = Tail(queue), NoRepeats
  PROVE  /\ queue' \in Seq(Tasks)
         /\ Head(queue) \in Tasks
         /\ NoRepeats'
         /\ InQueue(Head(queue))
         /\ \A j \in Tasks : InQueue(j)' <=> InQueue(j) /\ j # Head(queue)
<1>1. /\ queue \in Seq(Tasks) /\ Len(queue) \in Nat /\ Len(queue) > 0
      /\ Len(queue') = Len(queue) - 1
      /\ queue' \in Seq(Tasks)
      /\ Head(queue) = queue[1] /\ Head(queue) \in Tasks
      /\ \A i \in 1..Len(queue') : queue'[i] = queue[i + 1]
  BY DEF TypeOK
<1>2. \A i \in 1..Len(queue) : i = 1 \/ (i - 1 \in 1..Len(queue') /\ queue'[i - 1] = queue[i])
  BY <1>1
<1> QED
  BY <1>1, <1>2 DEF NoRepeats, InQueue

\* What push changes keeps its type.
LEMMA PushTypes ==
  ASSUME TypeOK, NEW k \in Tasks, NEW at \in [Threads -> States], Push(k, at)
  PROVE  /\ queue' \in Seq(Tasks)
         /\ status' \in [Tasks -> Statuses]
         /\ pc' \in [Threads -> States]
         /\ UNCHANGED <<closed, lock>>
<1>1. /\ UNCHANGED <<closed, lock>>
      /\ pc' \in [Threads -> States]
      /\ queue' = queue \/ queue' = Append(queue, k)
      /\ status' = [status EXCEPT ![k] = "dropped"] \/ status' = [status EXCEPT ![k] = "queued"]
  BY PushEffect DEF Wakes
<1>2. queue \in Seq(Tasks) /\ Append(queue, k) \in Seq(Tasks) /\ status \in [Tasks -> Statuses]
  BY DEF TypeOK, Statuses
<1> QED
  BY <1>1, <1>2 DEF Statuses

\* A set of threads is finite, and so has a number of elements.
LEMMA ThreadsCount ==
  ASSUME NEW S \in SUBSET Threads
  PROVE  /\ IsFiniteSet(S)
         /\ Cardinality(S) \in Nat
         /\ Cardinality(S) <= Cardinality(Threads)
         /\ Cardinality(Threads) \in Nat
         /\ Cardinality(S) = 0 <=> S = {}
BY PoolAssumption, FS_Subset, FS_CardinalityType, FS_EmptySet DEF PoolAssumption, Threads

\* attached_threads_ follows the threads that attach and leave.
LEMMA CountStep == IInv /\ [Next]_vars => (attached = Cardinality(Counted))'
<1> SUFFICES ASSUME IInv, [Next]_vars PROVE attached' = Cardinality(Counted')
  OBVIOUS
<1> USE DEF IInv, qvars, ovars
<1>0. pc \in [Threads -> States]
  BY DEF TypeOK, States
<1>1. ASSUME NEW k \in Tasks, Post(k) PROVE attached' = Cardinality(Counted')
  <2>1. Wakes(pc) /\ UNCHANGED attached
    BY <1>0, <1>1, PushEffect DEF Post
  <2>2. Counted' = Counted
    BY <1>0, <2>1 DEF Wakes, Counted
  <2> QED
    BY <2>1, <2>2
<1>2. ASSUME NEW t \in Threads, ThreadStep(t) PROVE attached' = Cardinality(Counted')
  <2>1. CASE Attach(t)
    <3>1. Counted' = Counted \cup {t} /\ t \notin Counted /\ attached' = attached + 1
      BY <1>0, <2>1 DEF Attach, Counted
    <3>2. Counted \in SUBSET Threads
      BY DEF Counted
    <3> QED
      BY <3>1, <3>2, ThreadsCount, FS_AddElement
  <2>2. CASE SeesStopped(t)
    <3>1. Counted' = Counted /\ UNCHANGED attached
      BY <2>2, <1>0 DEF SeesStopped, Counted
    <3> QED
      BY <3>1
  <2>3. CASE SeesNotStopped(t)
    <3>1. Counted' = Counted /\ UNCHANGED attached
      BY <2>3, <1>0 DEF SeesNotStopped, Counted
    <3> QED
      BY <3>1
  <2>4. CASE PopSleeps(t)
    <3>1. Counted' = Counted /\ UNCHANGED attached
      BY <2>4, <1>0 DEF PopSleeps, Counted
    <3> QED
      BY <3>1
  <2>5. CASE SpuriousWakeUp(t)
    <3>1. Counted' = Counted /\ UNCHANGED attached
      BY <2>5, <1>0 DEF SpuriousWakeUp, Counted
    <3> QED
      BY <3>1
  <2>6. CASE PopClosed(t)
    <3>1. Counted' = Counted /\ UNCHANGED attached
      BY <2>6, <1>0 DEF PopClosed, Counted
    <3> QED
      BY <3>1
  <2>7. CASE PopTakes(t)
    <3>1. Counted' = Counted /\ UNCHANGED attached
      BY <2>7, <1>0 DEF PopTakes, Counted
    <3> QED
      BY <3>1
  <2>8. CASE EndTask(t)
    <3>1. Counted' = Counted /\ UNCHANGED attached
      BY <2>8, <1>0 DEF EndTask, Counted
    <3> QED
      BY <3>1
  <2>9. CASE ExitLoop(t)
    <3> DEFINE at == [pc EXCEPT ![t] = "leave"]
    <3>1. at \in [Threads -> States] /\ UNCHANGED attached
      BY <1>0, <2>9 DEF ExitLoop, States
    <3>2. Wakes(at)
      BY <1>0, <2>9, <3>1, PushEffect, PoolAssumption DEF ExitLoop, Wakes, PoolAssumption
    <3>3. Counted' = Counted
      BY <1>0, <2>9, <3>2 DEF Wakes, Counted, ExitLoop
    <3> QED
      BY <3>1, <3>3
  <2>10. CASE Leave(t)
    <3>1. Counted' = Counted \ {t} /\ t \in Counted /\ attached' = attached - 1
      BY <1>0, <2>10 DEF Leave, Counted
    <3>2. Counted \in SUBSET Threads
      BY DEF Counted
    <3> QED
      BY <3>1, <3>2, ThreadsCount, FS_RemoveElement
  <2>11. CASE BarrierRecheck(t)
    <3>1. Counted' = Counted /\ UNCHANGED attached
      BY <2>11, <1>0 DEF BarrierRecheck, Counted
    <3> QED
      BY <3>1
  <2>12. CASE BarrierSpuriousWakeUp(t)
    <3>1. Counted' = Counted /\ UNCHANGED attached
      BY <2>12, <1>0 DEF BarrierSpuriousWakeUp, Counted
    <3> QED
      BY <3>1
  <2>13. CASE NotifyLeavers(t)
    <3>1. Counted' = Counted /\ UNCHANGED attached
      BY <2>13, <1>0 DEF NotifyLeavers, Counted
    <3> QED
      BY <3>1
  <2> QED
    BY <1>2, <2>1, <2>2, <2>3, <2>4, <2>5, <2>6, <2>7, <2>8, <2>9, <2>10, <2>11, <2>12, <2>13
       DEF ThreadStep, LoopStep
<1>3. ASSUME NEW d \in BOOLEAN, Stop(d) PROVE attached' = Cardinality(Counted')
  <2>1. Counted' = Counted /\ UNCHANGED attached
    BY <1>3, <1>0 DEF Stop, Counted
  <2> QED
    BY <2>1
<1>4. CASE StopCloses
  <2>1. Wakes(pc) /\ UNCHANGED attached
    BY <1>4, CloseEffect DEF StopCloses
  <2>2. Counted' = Counted
    BY <1>0, <2>1 DEF Wakes, Counted
  <2> QED
    BY <2>1, <2>2
<1>5. CASE Wait
  <2>1. Counted' = Counted /\ UNCHANGED attached
    BY <1>5, <1>0 DEF Wait, Counted
  <2> QED
    BY <2>1
<1>6. CASE WaitCloses
  <2>1. Wakes(pc) /\ UNCHANGED attached
    BY <1>6, CloseEffect DEF WaitCloses
  <2>2. Counted' = Counted
    BY <1>0, <2>1 DEF Wakes, Counted
  <2> QED
    BY <2>1, <2>2
<1>7. CASE Join
  <2>1. Counted' = Counted /\ UNCHANGED attached
    BY <1>7, <1>0 DEF Join, Counted
  <2> QED
    BY <2>1
<1>8. CASE UNCHANGED vars
  <2>1. Counted' = Counted /\ UNCHANGED attached
    BY <1>8 DEF vars, Counted
  <2> QED
    BY <2>1
<1> QED
  BY <1>1, <1>2, <1>3, <1>4, <1>5, <1>6, <1>7, <1>8
     DEF Next, OwnerStep, Terminated

\* The variables keep their types.
LEMMA TypeStep == IInv /\ [Next]_vars => TypeOK'
<1> SUFFICES ASSUME IInv, [Next]_vars PROVE TypeOK'
  OBVIOUS
<1> USE DEF IInv, TypeOK, qvars, ovars
<1>0. attached' \in 0..Cardinality(Threads)
  <2>1. Counted' \in SUBSET Threads
    BY DEF Counted
  <2> QED
    BY <2>1, CountStep, ThreadsCount
<1>1. ASSUME NEW k \in Tasks, Post(k) PROVE TypeOK'
  <2>1. Push(k, pc) /\ UNCHANGED <<fresh, attached, task, late, ovars>>
    BY <1>1 DEF Post
  <2> QED
    BY <1>0, <2>1, PushTypes DEF States, Statuses
<1>2. ASSUME NEW t \in Threads, ThreadStep(t) PROVE TypeOK'
  <2>1. CASE Attach(t)
    BY <1>0, <2>1 DEF Attach
  <2>2. CASE SeesStopped(t)
    BY <1>0, <2>2 DEF SeesStopped
  <2>3. CASE SeesNotStopped(t)
    BY <1>0, <2>3 DEF SeesNotStopped
  <2>4. CASE PopSleeps(t)
    BY <1>0, <2>4 DEF PopSleeps
  <2>5. CASE SpuriousWakeUp(t)
    BY <1>0, <2>5 DEF SpuriousWakeUp
  <2>6. CASE PopClosed(t)
    BY <1>0, <2>6 DEF PopClosed, SyncWithClose
  <2>7. CASE PopTakes(t)
    <3>1. Head(queue) \in Tasks /\ Tail(queue) \in Seq(Tasks)
      BY <2>7 DEF PopTakes
    <3>2. fresh' \subseteq Threads \cup {"mutex", "queue"}
      BY <2>7 DEF PopTakes, SyncWithClose
    <3>3. /\ task' \in [Threads -> Tasks \cup {NONE}] /\ queue' \in Seq(Tasks)
          /\ late' \in [Threads -> Nat] /\ UNCHANGED <<closed, attached, ovars>>
      BY <2>7, <3>1 DEF PopTakes
    <3>4. /\ lock' \in Threads \cup {NONE} /\ pc' \in [Threads -> States]
          /\ status' \in [Tasks -> Statuses]
      BY <2>7, <3>1 DEF PopTakes, States, Statuses
    <3> QED
      BY <1>0, <3>2, <3>3, <3>4 DEF States, Statuses
  <2>8. CASE EndTask(t)
    BY <1>0, <2>8 DEF EndTask
  <2>9. CASE ExitLoop(t)
    <3> DEFINE at == [pc EXCEPT ![t] = "leave"]
    <3>1. /\ at \in [Threads -> States] /\ task' \in [Threads -> Tasks \cup {NONE}]
          /\ UNCHANGED <<fresh, attached, late, ovars>>
      BY <2>9 DEF ExitLoop, States
    <3>2. CASE pc' = at /\ UNCHANGED <<qvars, status>>
      BY <1>0, <3>1, <3>2 DEF States
    <3>3. CASE Followup \in Tasks /\ Push(Followup, at)
      BY <1>0, <3>1, <3>3, PushTypes DEF States, Statuses
    <3> QED
      BY <2>9, <3>2, <3>3, PoolAssumption DEF ExitLoop, PoolAssumption
  <2>10. CASE Leave(t)
    BY <1>0, <2>10 DEF Leave
  <2>11. CASE BarrierRecheck(t)
    BY <1>0, <2>11 DEF BarrierRecheck
  <2>12. CASE BarrierSpuriousWakeUp(t)
    BY <1>0, <2>12 DEF BarrierSpuriousWakeUp
  <2>13. CASE NotifyLeavers(t)
    BY <1>0, <2>13 DEF NotifyLeavers
  <2> QED
    BY <1>2, <2>1, <2>2, <2>3, <2>4, <2>5, <2>6, <2>7, <2>8, <2>9, <2>10, <2>11, <2>12, <2>13
       DEF ThreadStep, LoopStep
<1>3. ASSUME NEW d \in BOOLEAN, Stop(d) PROVE TypeOK'
  BY <1>0, <1>3 DEF Stop
<1>4. CASE StopCloses
  BY <1>0, <1>4, CloseEffect DEF StopCloses, Wakes, States
<1>5. CASE Wait
  BY <1>0, <1>5 DEF Wait
<1>6. CASE WaitCloses
  BY <1>0, <1>6, CloseEffect DEF WaitCloses, Wakes, States
<1>7. CASE Join
  <2>1. /\ opc' \in {"destroyed", "idle"}
        /\ joined'
        /\ UNCHANGED <<closed, lock, fresh, attached, pc, task, late, stopped, dtor, present>>
    BY <1>7 DEF Join
  <2>2. queue' \in Seq(Tasks)
    <3>1. queue' = queue \/ queue' = <<>>
      BY <1>7 DEF Join
    <3>2. queue \in Seq(Tasks) /\ <<>> \in Seq(Tasks)
      OBVIOUS
    <3> QED
      BY <3>1, <3>2
  <2>3. status' \in [Tasks -> {"idle", "queued", "running", "done", "dropped", "abandoned"}]
    BY <1>7 DEF Join
  <2> QED
    BY <1>0, <2>1, <2>2, <2>3
<1>8. CASE UNCHANGED vars
  BY <1>8 DEF vars
<1> QED
  BY <1>1, <1>2, <1>3, <1>4, <1>5, <1>6, <1>7, <1>8
     DEF Next, OwnerStep, Terminated

\* Steps that leave the tasks where they are.
LEMMA PlacesKept ==
  ASSUME TypeOK, Places, UNCHANGED <<queue, status, task>>,
         \A t \in Threads : pc'[t] = pc[t] \/ {pc[t], pc'[t]} \cap {"running", "relock"} = {}
  PROVE  Places'
<1>1. NoRepeats' /\ \A k \in Tasks \cup {NONE} : InQueue(k)' <=> InQueue(k)
  BY DEF Places, NoRepeats, InQueue
<1>2. \A t \in Threads : /\ pc'[t] = "running" <=> pc[t] = "running"
                         /\ pc'[t] = "relock" <=> pc[t] = "relock"
  OBVIOUS
<1>3. \A t \in Threads : task[t] \in Tasks \cup {NONE}
  BY DEF TypeOK
<1> QED
  BY <1>1, <1>2, <1>3 DEF Places

\* An idle task is pushed, by a thread that may drop its own last one.
LEMMA PlacesPushed ==
  ASSUME IInv, NEW k \in Tasks, status[k] = "idle",
         NEW at \in [Threads -> States], Push(k, at),
         \A t \in Threads : \/ task'[t] = task[t] /\ at[t] = pc[t]
                            \/ task'[t] = NONE /\ at[t] = "leave" /\ pc[t] = "exit"
  PROVE  Places'
<1> USE PoolAssumption DEF PoolAssumption, IInv
<1>1. /\ status \in [Tasks -> Statuses]
      /\ \A t \in Threads : task[t] \in Tasks \cup {NONE} /\ task'[t] \in {task[t], NONE}
  BY DEF TypeOK, Statuses
<1>2. ~InQueue(k) /\ \A t \in Threads : task[t] # k
  BY DEF Places
<1>3. \A t \in Threads : \/ task'[t] = task[t] /\ pc'[t] = pc[t]
                         \/ task'[t] = task[t] /\ pc[t] = "asleep" /\ pc'[t] = "pop"
                         \/ task'[t] = NONE /\ pc[t] = "exit" /\ pc'[t] = "leave"
  BY PushEffect DEF Wakes
<1>4. CASE closed
  <2>1. UNCHANGED queue /\ status' = [status EXCEPT ![k] = "dropped"]
    BY <1>4, PushEffect
  <2>2. NoRepeats' /\ \A j \in Tasks : InQueue(j)' <=> InQueue(j)
    BY <2>1 DEF Places, NoRepeats, InQueue
  <2> QED
    BY <1>1, <1>2, <1>3, <2>1, <2>2 DEF Places
<1>5. CASE ~closed
  <2>1. queue' = Append(queue, k) /\ status' = [status EXCEPT ![k] = "queued"]
    BY <1>5, PushEffect
  <2>2. NoRepeats' /\ \A j \in Tasks : InQueue(j)' <=> InQueue(j) \/ j = k
    BY <1>2, <2>1, QueuePush DEF Places
  <2> QED
    BY <1>1, <1>2, <1>3, <2>1, <2>2 DEF Places
<1> QED
  BY <1>4, <1>5

\* Tasks move along their places only.
LEMMA PlacesStep == IInv /\ [Next]_vars => Places'
<1> SUFFICES ASSUME IInv, [Next]_vars PROVE Places'
  OBVIOUS
<1> USE PoolAssumption DEF PoolAssumption, IInv, qvars, ovars
<1>0. /\ pc \in [Threads -> States] /\ status \in [Tasks -> Statuses]
      /\ task \in [Threads -> Tasks \cup {NONE}]
  BY DEF TypeOK, States, Statuses
<1>1. ASSUME NEW k \in Tasks, Post(k) PROVE Places'
  BY <1>0, <1>1, PlacesPushed DEF Post
<1>2. ASSUME NEW t \in Threads, ThreadStep(t) PROVE Places'
  <2>1. CASE Attach(t)
    BY <1>0, <2>1, PlacesKept DEF Attach
  <2>2. CASE SeesStopped(t)
    BY <1>0, <2>2, PlacesKept DEF SeesStopped
  <2>3. CASE SeesNotStopped(t)
    BY <1>0, <2>3, PlacesKept DEF SeesNotStopped
  <2>4. CASE PopSleeps(t)
    BY <1>0, <2>4, PlacesKept DEF PopSleeps
  <2>5. CASE SpuriousWakeUp(t)
    BY <1>0, <2>5, PlacesKept DEF SpuriousWakeUp
  <2>6. CASE PopClosed(t)
    BY <1>0, <2>6, PlacesKept DEF PopClosed
  <2>7. CASE PopTakes(t)
    <3> DEFINE k == Head(queue)
    <3>1. /\ queue # <<>> /\ queue' = Tail(queue)
          /\ pc[t] = "pop" /\ task' = [task EXCEPT ![t] = k]
      BY <2>7 DEF PopTakes
    <3>2. /\ k \in Tasks /\ NoRepeats' /\ InQueue(k)
          /\ \A j \in Tasks : InQueue(j)' <=> InQueue(j) /\ j # k
      BY <3>1, QueueTake DEF Places
    <3>3. status[k] = "queued" /\ \A u \in Threads : task[u] # k
      BY <3>2 DEF Places
    <3> HIDE DEF k
    <3>4. CASE pc' = [pc EXCEPT ![t] = "relock"] /\ UNCHANGED status
      BY <1>0, <3>1, <3>2, <3>3, <3>4 DEF Places
    <3>5. CASE pc' = [pc EXCEPT ![t] = "running"] /\ status' = [status EXCEPT ![k] = "running"]
      BY <1>0, <3>1, <3>2, <3>3, <3>5 DEF Places
    <3> QED
      BY <2>7, <3>4, <3>5 DEF PopTakes, k
  <2>8. CASE EndTask(t)
    <3>1. /\ pc[t] = "running" /\ pc' = [pc EXCEPT ![t] = "check"]
          /\ status' = [status EXCEPT ![task[t]] = "done"]
          /\ UNCHANGED <<queue, task>>
      BY <2>8 DEF EndTask
    <3>2. task[t] \in Tasks /\ status[task[t]] = "running" /\ ~InQueue(task[t])
      BY <1>0, <3>1 DEF Places
    <3>3. NoRepeats' /\ \A j \in Tasks : InQueue(j)' <=> InQueue(j)
      BY <3>1 DEF Places, NoRepeats, InQueue
    <3> QED
      BY <1>0, <3>1, <3>2, <3>3 DEF Places
  <2>9. CASE ExitLoop(t)
    <3> DEFINE at == [pc EXCEPT ![t] = "leave"]
    <3>1. /\ pc[t] = "exit" /\ at \in [Threads -> States]
          /\ task' = [task EXCEPT ![t] = NONE]
      BY <1>0, <2>9 DEF ExitLoop, States
    <3>2. CASE pc' = at /\ UNCHANGED <<qvars, status>>
      <4>1. NoRepeats' /\ \A j \in Tasks : InQueue(j)' <=> InQueue(j)
        BY <3>2 DEF Places, NoRepeats, InQueue
      <4> QED
        BY <1>0, <3>1, <3>2, <4>1 DEF Places
    <3>3. CASE Followup \in Tasks /\ status[Followup] = "idle" /\ Push(Followup, at)
      BY <1>0, <3>1, <3>3, PlacesPushed
    <3> QED
      BY <2>9, <3>2, <3>3 DEF ExitLoop
  <2>10. CASE Leave(t)
    BY <1>0, <2>10, PlacesKept DEF Leave
  <2>11. CASE BarrierRecheck(t)
    BY <1>0, <2>11, PlacesKept DEF BarrierRecheck
  <2>12. CASE BarrierSpuriousWakeUp(t)
    BY <1>0, <2>12, PlacesKept DEF BarrierSpuriousWakeUp
  <2>13. CASE NotifyLeavers(t)
    BY <1>0, <2>13, PlacesKept DEF NotifyLeavers
  <2> QED
    BY <1>2, <2>1, <2>2, <2>3, <2>4, <2>5, <2>6, <2>7, <2>8, <2>9, <2>10, <2>11, <2>12, <2>13
       DEF ThreadStep, LoopStep
<1>3. ASSUME NEW d \in BOOLEAN, Stop(d) PROVE Places'
  BY <1>0, <1>3, PlacesKept DEF Stop
<1>4. CASE StopCloses
  BY <1>0, <1>4, CloseEffect, PlacesKept DEF StopCloses, Wakes
<1>5. CASE Wait
  BY <1>0, <1>5, PlacesKept DEF Wait
<1>6. CASE WaitCloses
  BY <1>0, <1>6, CloseEffect, PlacesKept DEF WaitCloses, Wakes
<1>7. CASE Join
  <2>1. CASE dtor
    <3>1. /\ queue' = <<>> /\ UNCHANGED <<pc, task>>
          /\ status' = [k \in Tasks |-> IF k \in Range(queue) THEN "abandoned" ELSE status[k]]
      BY <1>7, <2>1 DEF Join
    <3>2. NoRepeats' /\ \A j \in Tasks : ~InQueue(j)'
      BY <3>1 DEF NoRepeats, InQueue
    <3>3. \A k \in Tasks : k \in Range(queue) <=> InQueue(k)
      BY DEF TypeOK, Range, InQueue
    <3>4. \A t \in Threads : task[t] # NONE => task[t] \in Tasks /\ status'[task[t]] = status[task[t]]
      BY <1>0, <3>1, <3>3 DEF Places
    <3> QED
      BY <1>0, <3>1, <3>2, <3>3, <3>4 DEF Places
  <2>2. CASE ~dtor
    BY <1>7, <2>2, PlacesKept DEF Join
  <2> QED
    BY <2>1, <2>2
<1>8. CASE UNCHANGED vars
  BY <1>8, PlacesKept DEF vars
<1> QED
  BY <1>1, <1>2, <1>3, <1>4, <1>5, <1>6, <1>7, <1>8
     DEF Next, OwnerStep, Terminated

\* A thread leaves the loop when the queue is drained or when it has seen
\* stopped_, and after stop() it cannot get round the loop again.
LEMMA ExitsStep == IInv /\ [Next]_vars => Exits'
<1> SUFFICES ASSUME IInv, [Next]_vars PROVE Exits'
  OBVIOUS
<1> USE PoolAssumption DEF PoolAssumption, IInv, qvars, ovars, Exits, Drained
<1>0. pc \in [Threads -> States] /\ late \in [Threads -> Nat] /\ Threads \cap {"mutex", "queue"} = {}
  BY DEF TypeOK, States, Threads
<1>1. ASSUME NEW k \in Tasks, Post(k) PROVE Exits'
  BY <1>0, <1>1, PushEffect DEF Post, Wakes
<1>2. ASSUME NEW t \in Threads, ThreadStep(t) PROVE Exits'
  <2>1. CASE Attach(t)
    BY <1>0, <2>1 DEF Attach
  <2>2. CASE SeesStopped(t)
    BY <1>0, <2>2 DEF SeesStopped
  <2>3. CASE SeesNotStopped(t)
    BY <1>0, <2>3 DEF SeesNotStopped
  <2>4. CASE PopSleeps(t)
    BY <1>0, <2>4 DEF PopSleeps
  <2>5. CASE SpuriousWakeUp(t)
    BY <1>0, <2>5 DEF SpuriousWakeUp
  <2>6. CASE PopClosed(t)
    BY <1>0, <2>6 DEF PopClosed, SyncWithClose
  <2>7. CASE PopTakes(t)
    BY <1>0, <2>7 DEF PopTakes, SyncWithClose
  <2>8. CASE EndTask(t)
    BY <1>0, <2>8 DEF EndTask
  <2>9. CASE ExitLoop(t)
    <3> DEFINE at == [pc EXCEPT ![t] = "leave"]
    <3>1. pc[t] = "exit" /\ at \in [Threads -> States] /\ UNCHANGED <<fresh, late, ovars>>
      BY <1>0, <2>9 DEF ExitLoop, States
    <3>2. CASE pc' = at /\ UNCHANGED <<qvars, status>>
      BY <1>0, <3>1, <3>2
    <3>3. CASE Followup \in Tasks /\ Push(Followup, at)
      <4>1. Wakes(at) /\ (closed => closed' /\ UNCHANGED queue)
        BY <3>1, <3>3, PushEffect
      <4>2. \A u \in Threads : \/ (pc'[u] = pc[u])
                              \/ (pc[u] = "asleep" /\ pc'[u] = "pop")
                              \/ (pc[u] = "exit" /\ pc'[u] = "leave")
        BY <1>0, <3>1, <4>1 DEF Wakes
      <4> QED
        BY <1>0, <3>1, <4>1, <4>2
    <3> QED
      BY <2>9, <3>2, <3>3 DEF ExitLoop
  <2>10. CASE Leave(t)
    BY <1>0, <2>10 DEF Leave
  <2>11. CASE BarrierRecheck(t)
    BY <1>0, <2>11 DEF BarrierRecheck
  <2>12. CASE BarrierSpuriousWakeUp(t)
    BY <1>0, <2>12 DEF BarrierSpuriousWakeUp
  <2>13. CASE NotifyLeavers(t)
    BY <1>0, <2>13 DEF NotifyLeavers
  <2> QED
    BY <1>2, <2>1, <2>2, <2>3, <2>4, <2>5, <2>6, <2>7, <2>8, <2>9, <2>10, <2>11, <2>12, <2>13
       DEF ThreadStep, LoopStep
<1>3. ASSUME NEW d \in BOOLEAN, Stop(d) PROVE Exits'
  BY <1>0, <1>3 DEF Stop
<1>4. CASE StopCloses
  <2>1. closed' /\ stopped' /\ Wakes(pc) /\ UNCHANGED <<queue, late>> /\ fresh' = fresh \cup {"queue"}
    BY <1>4, CloseEffect DEF StopCloses
  <2> QED
    BY <1>0, <2>1 DEF Wakes
<1>5. CASE Wait
  BY <1>0, <1>5 DEF Wait
<1>6. CASE WaitCloses
  BY <1>0, <1>6, CloseEffect DEF WaitCloses, Wakes
<1>7. CASE Join
  BY <1>0, <1>7 DEF Join
<1>8. CASE UNCHANGED vars
  BY <1>8 DEF vars
<1> QED
  BY <1>1, <1>2, <1>3, <1>4, <1>5, <1>6, <1>7, <1>8
     DEF Next, OwnerStep, Terminated

\* The first thread that gets through the barrier was the last one counted,
\* and those that attach later find the queue drained or stopped_ set.
LEMMA LoopsOverStep == IInv /\ [Next]_vars => LoopsOver'
<1> SUFFICES ASSUME IInv, [Next]_vars PROVE LoopsOver'
  OBVIOUS
<1> USE PoolAssumption DEF PoolAssumption, IInv, qvars, ovars, LoopsOver, Over, Exits, Drained
<1>0. pc \in [Threads -> States] /\ Workers \subseteq Threads
  BY DEF TypeOK, States, Threads
<1>1. ASSUME NEW k \in Tasks, Post(k) PROVE LoopsOver'
  BY <1>0, <1>1, PushEffect DEF Post, Wakes
<1>2. ASSUME NEW t \in Threads, ThreadStep(t) PROVE LoopsOver'
  <2>1. CASE Attach(t)
    BY <1>0, <2>1 DEF Attach
  <2>2. CASE SeesStopped(t)
    BY <1>0, <2>2 DEF SeesStopped
  <2>3. CASE SeesNotStopped(t)
    BY <1>0, <2>3 DEF SeesNotStopped
  <2>4. CASE PopSleeps(t)
    BY <1>0, <2>4 DEF PopSleeps
  <2>5. CASE SpuriousWakeUp(t)
    BY <1>0, <2>5 DEF SpuriousWakeUp
  <2>6. CASE PopClosed(t)
    BY <1>0, <2>6 DEF PopClosed, SyncWithClose
  <2>7. CASE PopTakes(t)
    BY <1>0, <2>7 DEF PopTakes, SyncWithClose
  <2>8. CASE EndTask(t)
    BY <1>0, <2>8 DEF EndTask
  <2>9. CASE ExitLoop(t)
    <3> DEFINE at == [pc EXCEPT ![t] = "leave"]
    <3>1. pc[t] = "exit" /\ at \in [Threads -> States] /\ UNCHANGED <<fresh, late, ovars>>
      BY <1>0, <2>9 DEF ExitLoop, States
    <3>2. CASE pc' = at /\ UNCHANGED <<qvars, status>>
      BY <1>0, <3>1, <3>2
    <3>3. CASE Followup \in Tasks /\ Push(Followup, at)
      <4>1. Wakes(at) /\ (closed => closed' /\ UNCHANGED queue)
        BY <3>1, <3>3, PushEffect
      <4>2. \A u \in Threads : \/ (pc'[u] = pc[u])
                              \/ (pc[u] = "asleep" /\ pc'[u] = "pop")
                              \/ (pc[u] = "exit" /\ pc'[u] = "leave")
        BY <1>0, <3>1, <4>1 DEF Wakes
      <4> QED
        BY <1>0, <3>1, <4>1, <4>2
    <3> QED
      BY <2>9, <3>2, <3>3 DEF ExitLoop
  <2>10. CASE Leave(t)
    <3>1. CASE attached = 1
      <4>1. attached' = 0
        BY <1>0, <2>10, <3>1 DEF Leave
      <4>2. Counted' \in SUBSET Threads /\ Cardinality(Counted') = 0
        BY <4>1, CountStep DEF Counted
      <4>3. Counted' = {}
        BY <4>2, ThreadsCount
      <4> QED
        BY <1>0, <2>10, <3>1, <4>3 DEF Counted, Leave
    <3>2. CASE attached # 1
      BY <1>0, <2>10, <3>2 DEF Leave
    <3> QED
      BY <3>1, <3>2
  <2>11. CASE BarrierRecheck(t)
    <3>1. CASE attached = 0
      <4>1. Counted = {}
        BY <3>1, ThreadsCount DEF Counted
      <4> QED
        BY <1>0, <2>11, <4>1 DEF Counted, BarrierRecheck
    <3>2. CASE attached # 0
      BY <1>0, <2>11, <3>2 DEF BarrierRecheck
    <3> QED
      BY <3>1, <3>2
  <2>12. CASE BarrierSpuriousWakeUp(t)
    BY <1>0, <2>12 DEF BarrierSpuriousWakeUp
  <2>13. CASE NotifyLeavers(t)
    BY <1>0, <2>13 DEF NotifyLeavers
  <2> QED
    BY <1>2, <2>1, <2>2, <2>3, <2>4, <2>5, <2>6, <2>7, <2>8, <2>9, <2>10, <2>11, <2>12, <2>13
       DEF ThreadStep, LoopStep
<1>3. ASSUME NEW d \in BOOLEAN, Stop(d) PROVE LoopsOver'
  BY <1>0, <1>3 DEF Stop
<1>4. CASE StopCloses
  <2>1. closed' /\ Wakes(pc) /\ UNCHANGED <<queue, joined>> /\ fresh' = fresh \cup {"queue"}
    BY <1>4, CloseEffect DEF StopCloses
  <2> QED
    BY <1>0, <2>1 DEF Wakes
<1>5. CASE Wait
  BY <1>0, <1>5 DEF Wait
<1>6. CASE WaitCloses
  BY <1>0, <1>6, CloseEffect DEF WaitCloses, Wakes
<1>7. CASE Join
  BY <1>0, <1>7 DEF Join
<1>8. CASE UNCHANGED vars
  BY <1>8 DEF vars
<1> QED
  BY <1>1, <1>2, <1>3, <1>4, <1>5, <1>6, <1>7, <1>8
     DEF Next, OwnerStep, Terminated

-----------------------------------------------------------------------------
\* The invariant holds before any thread runs.
LEMMA InitInv == Init => IInv
<1> SUFFICES ASSUME Init PROVE IInv
  OBVIOUS
<1> USE PoolAssumption DEF Init, PoolAssumption
<1>1. Counted = {} /\ attached = Cardinality(Counted)
  BY ThreadsCount DEF Counted
<1>2. TypeOK
  <2>1. queue \in Seq(Tasks) /\ attached \in 0..Cardinality(Threads)
    BY ThreadsCount
  <2> QED
    BY <2>1 DEF TypeOK
<1>3. Places
  BY DEF Places, NoRepeats, InQueue
<1>4. Exits /\ LoopsOver
  BY DEF Exits, LoopsOver, Over, Drained
<1> QED
  BY <1>1, <1>2, <1>3, <1>4 DEF IInv

\* The invariant of attach(), stop(), wait() and the queue is inductive.
THEOREM InductiveInvariant == Spec => []IInv
<1>1. IInv /\ [Next]_vars => IInv'
  BY TypeStep, CountStep, PlacesStep, ExitsStep, LoopsOverStep DEF IInv
<1> QED
  BY InitInv, <1>1, PTL DEF Spec

\* Every variable keeps its type; attached_threads_ never underflows.
THEOREM TypeCorrect == Spec => []TypeOK
<1>1. IInv => TypeOK
  BY DEF IInv
<1> QED
  BY InductiveInvariant, <1>1, PTL

\* A task that was accepted by push() is in the queue once, or in the local
\* variable of one thread, or over.
THEOREM TasksAreNotDuplicated == Spec => []OnePlace
<1>1. IInv => OnePlace
  <2> SUFFICES ASSUME IInv PROVE OnePlace
    OBVIOUS
  <2>1. \A i \in 1..Len(queue) : queue[i] \in Tasks /\ InQueue(queue[i])
    BY DEF IInv, TypeOK, InQueue
  <2>2. \A i \in 1..Len(queue) : status[queue[i]] = "queued"
    BY <2>1 DEF IInv, Places
  <2>3. \A t, u \in Threads : task[t] # NONE /\ task[t] = task[u] => t = u
    BY DEF IInv, Places
  <2> QED
    BY <2>2, <2>3 DEF OnePlace, IInv, Places, NoRepeats, InQueue
<1> QED
  BY InductiveInvariant, <1>1, PTL

\* wait() of a pool that was not stopped returns when every accepted task is
\* done, and no thread runs a task once a wait() has returned.
THEOREM WaitDrains == Spec => []DrainedWhenWaited
<1>1. IInv => DrainedWhenWaited
  <2> SUFFICES ASSUME IInv, Workers # {}, joined
               PROVE  /\ ~stopped => \A k \in Tasks : status[k] \notin {"queued", "running"}
                      /\ \A t \in Threads : pc[t] # "running"
    BY DEF DrainedWhenWaited
  <2>1. PICK w \in Workers : pc[w] = "left"
    BY DEF IInv, LoopsOver
  <2>2. w \in Threads /\ Over
    BY <2>1 DEF Over, Threads
  <2>3. \A t \in Threads : pc[t] \notin {"asleep", "running", "relock"}
    BY <2>2 DEF IInv, LoopsOver
  <2>4. ASSUME ~stopped, NEW k \in Tasks PROVE status[k] \notin {"queued", "running"}
    <3>1. fresh = {}
      BY <2>4 DEF IInv, Exits
    <3>2. queue = <<>>
      BY <2>1, <2>2, <3>1 DEF IInv, Exits, Drained
    <3>3. ~InQueue(k)
      BY <3>2 DEF InQueue
    <3> QED
      BY <2>3, <3>3 DEF IInv, Places
  <2> QED
    BY <2>3, <2>4
<1> QED
  BY InductiveInvariant, <1>1, PTL

\* A thread that reads a stale stopped_ starts at most one task after stop()
\* has returned.
THEOREM StopTakesEffect == Spec => []StopIsPrompt
<1>1. IInv => StopIsPrompt
  BY DEF IInv, Exits, StopIsPrompt
<1> QED
  BY InductiveInvariant, <1>1, PTL

-----------------------------------------------------------------------------
\* The refinement of ExecutorContract.

\* What stop(), wait() and the destructor have done by the time they join.
Calls ==
  /\ dtor => stopped
  /\ opc = "join" => closed

\* stop and close come before join.
LEMMA CallsInv == Spec => []Calls
<1>1. Init => Calls
  BY DEF Init, Calls
<1>2. Calls /\ [Next]_vars => Calls'
  <2> SUFFICES ASSUME Calls, [Next]_vars PROVE Calls'
    OBVIOUS
  <2> USE DEF Calls, qvars, ovars
  <2>1. ASSUME NEW k \in Tasks, Post(k) PROVE Calls'
    BY <2>1 DEF Post, Push
  <2>2. ASSUME NEW t \in Threads, ThreadStep(t) PROVE Calls'
    <3>1. UNCHANGED <<dtor, stopped, opc, closed>>
      BY <2>2 DEF ThreadStep, LoopStep, Attach, SeesStopped, SeesNotStopped, PopSleeps,
           PopClosed, PopTakes, EndTask, ExitLoop, Push, Leave, BarrierRecheck, NotifyLeavers,
           SpuriousWakeUp, BarrierSpuriousWakeUp
    <3> QED
      BY <3>1
  <2>3. CASE Stop(FALSE) \/ Stop(TRUE) \/ Wait \/ OwnerStep
    BY <2>3 DEF Stop, Wait, OwnerStep, StopCloses, WaitCloses, CloseQueue, Join
  <2>4. CASE Terminated \/ UNCHANGED vars
    BY <2>4 DEF Terminated, vars
  <2> QED
    BY <2>1, <2>2, <2>3, <2>4 DEF Next
<1> QED
  BY <1>1, <1>2, PTL DEF Spec

\* A step that moves no task is not seen by those who post.
LEMMA QuietStep ==
  ASSUME UNCHANGED <<queue, status, closed, stopped, joined>>,
         \A t \in Threads : Held(t)' = Held(t)
  PROVE  UNCHANGED Contract!evars
BY DEF Contract!evars, With

\* A thread of the pool that is not in the queue or in a task holds none.
LEMMA HeldKept ==
  ASSUME UNCHANGED task,
         \A t \in Threads : pc'[t] = pc[t] \/ {pc[t], pc'[t]} \cap {"running", "relock"} = {}
  PROVE  \A t \in Threads : Held(t)' = Held(t)
BY DEF Held

\* push is the abstract Post.
LEMMA PostStep ==
  ASSUME IInv, NEW k \in Tasks, status[k] = "idle",
         NEW at \in [Threads -> States], Push(k, at), UNCHANGED <<stopped, joined>>,
         \A t \in Threads : Held(t)' = Held(t)
  PROVE  Contract!Post(k)
<1>1. UNCHANGED closed /\ status \in [Tasks -> Statuses] /\ closed \in BOOLEAN
  BY PushEffect DEF IInv, TypeOK, Statuses
<1>2. CASE closed
  <2>1. queue' = queue /\ status' = [status EXCEPT ![k] = "dropped"]
    BY <1>2, PushEffect DEF IInv
  <2>2. /\ With("idle")' = With("idle") \ {k}
        /\ With("dropped")' = With("dropped") \cup {k}
        /\ With("done")' = With("done") /\ With("abandoned")' = With("abandoned")
        /\ k \in With("idle")
    BY <1>1, <2>1 DEF With
  <2> QED
    BY <1>1, <1>2, <2>1, <2>2 DEF Contract!Post
<1>3. CASE ~closed
  <2>1. queue' = Append(queue, k) /\ status' = [status EXCEPT ![k] = "queued"]
    BY <1>3, PushEffect DEF IInv
  <2>2. /\ With("idle")' = With("idle") \ {k}
        /\ UNCHANGED <<With("dropped"), With("done"), With("abandoned")>>
        /\ k \in With("idle")
    BY <1>1, <2>1 DEF With
  <2> QED
    BY <1>1, <1>3, <2>1, <2>2 DEF Contract!Post
<1> QED
  BY <1>2, <1>3

\* pop takes the oldest task, and after wait() nobody takes any.
LEMMA TakeStep ==
  ASSUME IInv, NEW t \in Threads, PopTakes(t)
  PROVE  Contract!Take(t)
<1> USE PoolAssumption DEF PoolAssumption
<1>1. /\ pc[t] = "pop" /\ queue # <<>> /\ queue' = Tail(queue)
      /\ task' = [task EXCEPT ![t] = Head(queue)]
      /\ UNCHANGED <<closed, stopped, joined>>
      /\ \/ pc' = [pc EXCEPT ![t] = "relock"] /\ UNCHANGED status
         \/ pc' = [pc EXCEPT ![t] = "running"] /\ status' = [status EXCEPT ![Head(queue)] = "running"]
  BY DEF PopTakes, ovars
<1>2. /\ pc \in [Threads -> States] /\ task \in [Threads -> Tasks \cup {NONE}]
      /\ status \in [Tasks -> Statuses]
  BY DEF IInv, TypeOK, States, Statuses
<1>3. Held(t) = NONE /\ Held(t)' = Head(queue)
  BY <1>1, <1>2 DEF Held
<1>4. \A u \in Threads \ {t} : Held(u)' = Held(u)
  BY <1>1, <1>2 DEF Held
<1>5. [u \in Threads |-> Held(u)'] = [[u \in Threads |-> Held(u)] EXCEPT ![t] = Head(queue)]
  BY <1>3, <1>4
<1>6. Head(queue) \in Tasks /\ status[Head(queue)] = "queued"
  BY <1>1, QueueTake DEF IInv, Places
<1>7. \A s \in {"idle", "done", "dropped", "abandoned"} : With(s)' = With(s)
  BY <1>1, <1>2, <1>6 DEF With
<1>8. ~(joined /\ Workers # {})
  <2> SUFFICES ASSUME joined, Workers # {} PROVE FALSE
    OBVIOUS
  <2>1. PICK w \in Workers : pc[w] = "left"
    BY DEF IInv, LoopsOver
  <2>2. Over
    BY <2>1 DEF Over, Threads
  <2> QED
    BY <1>1, <2>2 DEF IInv, LoopsOver, Drained
<1> QED
  BY <1>1, <1>3, <1>5, <1>7, <1>8 DEF Contract!Take

\* The end of a call is its task's end.
LEMMA FinishStep ==
  ASSUME IInv, NEW t \in Threads, EndTask(t)
  PROVE  Contract!Finish(t)
<1> USE PoolAssumption DEF PoolAssumption
<1>1. /\ pc[t] = "running" /\ pc' = [pc EXCEPT ![t] = "check"]
      /\ status' = [status EXCEPT ![task[t]] = "done"]
      /\ UNCHANGED <<queue, task, closed, stopped, joined>>
  BY DEF EndTask, qvars, ovars
<1>2. /\ pc \in [Threads -> States] /\ task \in [Threads -> Tasks \cup {NONE}]
      /\ status \in [Tasks -> Statuses]
  BY DEF IInv, TypeOK, States, Statuses
<1>3. task[t] \in Tasks /\ task[t] # NONE /\ status[task[t]] = "running"
  BY <1>1, <1>2 DEF IInv, Places
<1>4. Held(t) = task[t] /\ Held(t)' = NONE
  BY <1>1, <1>2 DEF Held
<1>5. \A u \in Threads \ {t} : Held(u)' = Held(u)
  BY <1>1, <1>2 DEF Held
<1>6. [u \in Threads |-> Held(u)'] = [[u \in Threads |-> Held(u)] EXCEPT ![t] = NONE]
  BY <1>4, <1>5
<1>7. /\ \A s \in {"idle", "dropped", "abandoned"} : With(s)' = With(s)
      /\ With("done")' = With("done") \cup {task[t]}
  BY <1>1, <1>2, <1>3 DEF With
<1> QED
  BY <1>1, <1>3, <1>4, <1>6, <1>7 DEF Contract!Finish

\* join waits for threads that have passed the barrier: nothing runs, and what
\* is still queued is there because of stop.
LEMMA JoinStep ==
  ASSUME IInv, Calls, Join
  PROVE  Contract!WaitReturns \/ Contract!Destroy \/ UNCHANGED Contract!evars
<1>1. /\ joined \/ \A w \in Workers : pc[w] = "left"
      /\ joined'
      /\ closed
      /\ UNCHANGED <<closed, pc, task, stopped>>
  BY DEF Join, Calls
<1>2. \A t \in Threads : Held(t)' = Held(t)
  BY <1>1 DEF Held
<1>3. ASSUME Workers # {} PROVE Contract!Ends
  <2>1. PICK w \in Workers : pc[w] = "left"
    BY <1>1, <1>3 DEF IInv, LoopsOver
  <2>2. w \in Threads /\ Over
    BY <2>1 DEF Over, Threads
  <2>3. \A t \in Threads : Held(t) = NONE
    BY <2>2 DEF IInv, LoopsOver, Held
  <2>4. queue = <<>> \/ stopped
    BY <2>1, <2>2 DEF IInv, Exits, Drained
  <2> QED
    BY <1>1, <2>3, <2>4 DEF Contract!Ends
<1>4. CASE dtor
  <2>1. /\ queue' = <<>> /\ stopped
        /\ status' = [k \in Tasks |-> IF k \in Range(queue) THEN "abandoned" ELSE status[k]]
    BY <1>4 DEF Join, Calls
  <2>2. \A k \in Range(queue) : k \in Tasks /\ status[k] = "queued"
    BY DEF IInv, TypeOK, Places, InQueue, Range
  <2>3. /\ \A s \in {"idle", "done", "dropped"} : With(s)' = With(s)
        /\ With("abandoned")' = With("abandoned") \cup Range(queue)
    BY <2>1, <2>2 DEF With
  <2> QED
    BY <1>1, <1>2, <1>3, <2>1, <2>3 DEF Contract!Destroy, Contract!Range, Range
<1>5. CASE ~dtor
  <2>1. UNCHANGED <<queue, status>>
    BY <1>5 DEF Join
  <2>2. CASE Workers = {}
    BY <1>1, <1>2, <2>1, <2>2 DEF Contract!evars, With
  <2>3. CASE Workers # {}
    BY <1>1, <1>2, <1>3, <2>1, <2>3 DEF Contract!WaitReturns, With
  <2> QED
    BY <2>2, <2>3
<1> QED
  BY <1>4, <1>5

\* Every step is a step of ExecutorContract or changes nothing in it.
LEMMA ContractStep ==
  IInv /\ Calls /\ [Next]_vars => [Contract!Next]_(Contract!evars)
<1> SUFFICES ASSUME IInv, Calls, [Next]_vars
             PROVE  Contract!Next \/ UNCHANGED Contract!evars
  OBVIOUS
<1> USE PoolAssumption DEF PoolAssumption, qvars, ovars
<1>0. /\ pc \in [Threads -> States] /\ task \in [Threads -> Tasks \cup {NONE}]
      /\ TypeOK
  BY DEF IInv, TypeOK, States
<1>1. ASSUME NEW k \in Tasks, Post(k) PROVE Contract!Next
  <2>1. Push(k, pc) /\ status[k] = "idle" /\ UNCHANGED <<task, stopped, joined>>
    BY <1>1 DEF Post
  <2>2. \A t \in Threads : pc'[t] = pc[t] \/ (pc[t] = "asleep" /\ pc'[t] = "pop")
    BY <1>0, <2>1, PushEffect DEF Wakes
  <2>3. Contract!Post(k)
    BY <1>0, <2>1, <2>2, HeldKept, PostStep
  <2> QED
    BY <2>3 DEF Contract!Next
<1>2. ASSUME NEW t \in Threads, ThreadStep(t)
      PROVE  Contract!Next \/ UNCHANGED Contract!evars
  <2>1. CASE PopTakes(t)
    BY <2>1, TakeStep DEF Contract!Next
  <2>2. CASE EndTask(t)
    BY <2>2, FinishStep DEF Contract!Next
  <2>3. CASE ExitLoop(t)
    <3> DEFINE at == [pc EXCEPT ![t] = "leave"]
    <3>1. /\ pc[t] = "exit" /\ at \in [Threads -> States]
          /\ task' = [task EXCEPT ![t] = NONE]
          /\ UNCHANGED <<stopped, joined>>
      BY <1>0, <2>3 DEF ExitLoop, States
    <3>2. CASE pc' = at /\ UNCHANGED <<qvars, status>>
      <4>1. \A u \in Threads : Held(u)' = Held(u)
        BY <1>0, <3>1, <3>2 DEF Held
      <4> QED
        BY <3>1, <3>2, <4>1, QuietStep
    <3>3. CASE Followup \in Tasks /\ status[Followup] = "idle" /\ Push(Followup, at)
      <4>1. \A u \in Threads : pc'[u] = at[u] \/ (at[u] = "asleep" /\ pc'[u] = "pop")
        BY <1>0, <3>1, <3>3, PushEffect DEF Wakes
      <4>2. \A u \in Threads : Held(u)' = Held(u)
        BY <1>0, <3>1, <4>1 DEF Held
      <4>3. Contract!Post(Followup)
        BY <3>1, <3>3, <4>2, PostStep
      <4> QED
        BY <3>3, <4>3 DEF Contract!Next
    <3> QED
      BY <2>3, <3>2, <3>3 DEF ExitLoop
  <2>4. CASE \/ Attach(t) \/ SeesStopped(t) \/ SeesNotStopped(t) \/ PopSleeps(t)
             \/ SpuriousWakeUp(t) \/ PopClosed(t) \/ Leave(t) \/ BarrierRecheck(t)
             \/ BarrierSpuriousWakeUp(t) \/ NotifyLeavers(t)
    <3>1. UNCHANGED <<queue, closed, status, task, stopped, joined>>
      BY <2>4 DEF Attach, SeesStopped, SeesNotStopped, PopSleeps, SpuriousWakeUp, PopClosed,
           Leave, BarrierRecheck, BarrierSpuriousWakeUp, NotifyLeavers
    <3>2. \A u \in Threads :
            pc'[u] = pc[u] \/ {pc[u], pc'[u]} \cap {"running", "relock"} = {}
      BY <1>0, <2>4 DEF Attach, SeesStopped, SeesNotStopped, PopSleeps, SpuriousWakeUp,
           PopClosed, Leave, BarrierRecheck, BarrierSpuriousWakeUp, NotifyLeavers
    <3> QED
      BY <3>1, <3>2, HeldKept, QuietStep
  <2> QED
    BY <1>2, <2>1, <2>2, <2>3, <2>4 DEF ThreadStep, LoopStep
<1>3. ASSUME NEW d \in BOOLEAN, Stop(d) PROVE Contract!Next
  <2>1. \A t \in Threads : Held(t)' = Held(t)
    BY <1>3, HeldKept DEF Stop
  <2>2. Contract!Halt
    BY <1>3, <2>1 DEF Stop, Contract!Halt, With
  <2> QED
    BY <2>2 DEF Contract!Next
<1>4. CASE StopCloses \/ WaitCloses
  <2>1. /\ closed' /\ Wakes(pc)
        /\ UNCHANGED <<queue, status, task, stopped, joined>>
    BY <1>0, <1>4, CloseEffect DEF StopCloses, WaitCloses
  <2>2. \A t \in Threads : Held(t)' = Held(t)
    BY <2>1, HeldKept DEF Wakes
  <2>3. Contract!Close
    BY <1>4, <2>1, <2>2 DEF Contract!Close, With, StopCloses, WaitCloses, CloseQueue
  <2> QED
    BY <2>3 DEF Contract!Next
<1>5. CASE Wait \/ Terminated \/ UNCHANGED vars
  <2>1. UNCHANGED <<queue, status, closed, stopped, joined, pc, task>>
    BY <1>5 DEF Wait, Terminated, vars
  <2> QED
    BY <2>1, HeldKept, QuietStep
<1>6. CASE Join
  BY <1>6, JoinStep DEF Contract!Next
<1> QED
  BY <1>1, <1>2, <1>3, <1>4, <1>5, <1>6 DEF Next, OwnerStep

\* static_thread_pool, its queue and its barrier implement the abstract
\* executor: first come, first served, and nothing runs when wait() is over.
THEOREM Refinement == Spec => ImplementsContract
<1>1. Init => Contract!Init
  BY PoolAssumption DEF Init, Contract!Init, With, Held
<1> QED
  BY <1>1, ContractStep, InductiveInvariant, CallsInv, PTL
     DEF Spec, ImplementsContract, Contract!Spec
=============================================================================
