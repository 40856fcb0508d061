-------------------------- MODULE TaskGraphProofs --------------------------
(***************************************************************************)
(* Proofs about TaskGraph for every graph of continuations and any set of  *)
(* workers.                                                                *)
(*                                                                         *)
(* Alive is a recursive function.  What it means for one future (AliveDef) *)
(* and that it can only shrink (AliveShrinks) are inductions over the      *)
(* graph, each put as the choice of a least counterexample.                *)
(*                                                                         *)
(* IInv says where each continuation is: to be called by one thread, in    *)
(* the queue, with a worker, or over.  Replaced says what a step does to   *)
(* the stack of its thread, and the lemmas after it what stays the same    *)
(* then; there follows one lemma for each action.                          *)
(***************************************************************************)
EXTENDS TaskGraph, FiniteSetTheorems, TLAPS

\* A set of naturals that is not empty has a least element.  It is the order on
\* finite sets that is well founded in the library: the sets are the intervals.
LEMMA Least ==
  ASSUME NEW n \in Nat, NEW S \in SUBSET (0..n), S # {}
  PROVE  \E m \in S : \A k \in S : m <= k
<1> DEFINE Up == {0..k : k \in S}
<1>1. IsWellFoundedOn(StrictSubsetOrdering(0..n), FiniteSubsetsOf(0..n))
  BY FS_StrictSubsetOrderingWellFounded
<1>2. Up \subseteq FiniteSubsetsOf(0..n) /\ Up # {}
  <2>1. \A k \in S : 0..k \in SUBSET (0..n) /\ IsFiniteSet(0..k)
    BY FS_Interval
  <2> QED
    BY <2>1 DEF FiniteSubsetsOf
<1>3. PICK x \in Up : \A y \in Up : ~ (<<y, x>> \in StrictSubsetOrdering(0..n))
  <2> HIDE DEF Up
  <2> QED
    BY <1>1, <1>2, WFMin
<1>4. PICK m \in S : x = 0..m
  OBVIOUS
<1>5. ASSUME NEW k \in S, k < m PROVE FALSE
  <2>1. 0..k \in Up /\ 0..k \subseteq 0..m /\ 0..k # 0..m
    BY <1>5
  <2>2. <<0..k, x>> \in StrictSubsetOrdering(0..n)
    BY <1>2, <1>4, <2>1 DEF StrictSubsetOrdering, FiniteSubsetsOf
  <2> QED
    BY <1>3, <2>1, <2>2
<1> QED
  BY <1>5

\* The recursion of Alive goes up: children have greater numbers.
LEMMA Graph ==
  /\ N \in Nat /\ Futures = 0..N /\ Stages = 1..N
  /\ \A i \in Futures : i \in Nat /\ i <= N /\ Children(i) \in SUBSET Stages
  /\ \A i \in Futures : \A j \in Children(i) :
       j > i /\ j \in Futures /\ j \in Stages /\ Parent[j] = i
  /\ \A j \in Stages :
       Parent[j] \in Futures /\ Parent[j] < j /\ j \in Children(Parent[j]) /\ j \in Futures
BY GraphAssumption DEF GraphAssumption, Futures, Stages, Children

\* There is a function as Alive is defined: going down from N, one more value
\* can always be computed.
LEMMA AliveExists ==
  \E f \in [Futures -> BOOLEAN] : \A i \in Futures :
    f[i] <=> \/ i \in held \cup InUse
             \/ \E j \in Children(i) : j \in Running \/ (j \in action /\ f[j])
<1> DEFINE U == held \cup InUse
           R == Running
           D(f, i) == i \in U \/ \E j \in Children(i) : j \in R \/ (j \in action /\ f[j])
           S == {n \in 0..N : \E f \in [n..N -> BOOLEAN] : \A i \in n..N : f[i] <=> D(f, i)}
<1> HIDE DEF U, R
<1>1. N \in S
  <2> DEFINE f == [i \in N..N |-> N \in U]
  <2>1. f \in [N..N -> BOOLEAN]
    OBVIOUS
  <2>2. Children(N) = {} /\ N \in 0..N /\ N..N = {N}
    BY Graph
  <2>3. \A i \in N..N : f[i] <=> D(f, i)
    BY <2>2
  <2> HIDE DEF f
  <2>4. \E h \in [N..N -> BOOLEAN] : \A i \in N..N : h[i] <=> D(h, i)
    BY <2>1, <2>3
  <2> QED
    BY <2>2, <2>4
<1>2. PICK m \in S : \A k \in S : m <= k
  <2>1. S \in SUBSET (0..N)
    OBVIOUS
  <2> HIDE DEF S
  <2> QED
    BY <1>1, <2>1, Least, Graph
<1>3. PICK f \in [m..N -> BOOLEAN] : \A i \in m..N : f[i] <=> D(f, i)
  BY <1>2
<1>4. m \in 0..N /\ m \in Nat
  BY <1>2
<1>5. CASE m > 0
  <2> DEFINE g == [i \in (m - 1)..N |-> IF i = m - 1 THEN D(f, m - 1) ELSE f[i]]
  <2>1. m - 1 \in 0..N /\ m - 1 \in Futures /\ \A i \in (m - 1)..N : i = m - 1 \/ i \in m..N
    BY <1>4, <1>5, Graph
  <2>2. g \in [(m - 1)..N -> BOOLEAN]
    BY <2>1
  <2>3. ASSUME NEW i \in (m - 1)..N, NEW j \in Children(i) PROVE j \in m..N /\ g[j] = f[j]
    <3>1. i \in Futures
      BY <1>4, <1>5, <2>1, Graph
    <3>2. j \in m..N
      BY <1>4, <1>5, <2>1, <3>1, Graph
    <3> QED
      BY <1>4, <1>5, <3>2
  <2>4. \A i \in (m - 1)..N : D(g, i) <=> D(f, i)
    BY <2>3
  <2>5. \A i \in (m - 1)..N : g[i] <=> D(f, i)
    BY <1>3, <2>1
  <2> HIDE DEF g, D
  <2>6. \A i \in (m - 1)..N : g[i] <=> D(g, i)
    BY <2>4, <2>5
  <2>7. m - 1 \in S
    BY <2>1, <2>2, <2>6
  <2> QED
    BY <1>2, <1>4, <2>7
<1>6. CASE m = 0
  BY <1>3, <1>6, Graph DEF U, R
<1> QED
  BY <1>4, <1>5, <1>6

\* What it means for a future to be alive.
LEMMA AliveDef ==
  /\ Alive \in [Futures -> BOOLEAN]
  /\ \A i \in Futures : Alive[i] <=>
       \/ i \in held \cup InUse
       \/ \E j \in Children(i) : j \in Running \/ (j \in action /\ Alive[j])
<1> DEFINE Q(f) == f = [i \in Futures |->
                          \/ i \in held \cup InUse
                          \/ \E j \in Children(i) : j \in Running \/ (j \in action /\ f[j])]
<1>1. \E f : Q(f)
  BY AliveExists
<1>2. Alive = CHOOSE f : Q(f)
  BY DEF Alive
<1>3. Q(Alive)
  <2> HIDE DEF Q
  <2> QED
    BY <1>1, <1>2
<1> QED
  BY <1>3
-----------------------------------------------------------------------------
\* Where the continuations are.

FrameSet == [op : {"execute", "abandon", "task", "run"}, at : Futures, todo : SUBSET Stages]

Places(t) == 1..Len(frames[t])

\* Some thread is about to call continuation j.
Todo(j) == \E t \in Threads : \E k \in Places(t) : j \in frames[t][k].todo

InQueue(j) == \E k \in 1..Len(queue) : queue[k] = j

Job(f) == f.op \in {"task", "run"}

\* Some worker has taken its task.
Begun(j) == \E t \in Threads : \E k \in Places(t) : Job(frames[t][k]) /\ frames[t][k].at = j

\* What a frame says of the futures: calls and abandonments follow a result, a
\* task is for a future without one, and is what its thread began with.
Sound(t, k) ==
  LET f == frames[t][k] IN
  /\ f.todo \subseteq Children(f.at)
  /\ f.op # "execute" => f.todo = {} /\ f.at \in Stages
  /\ f.op \in {"execute", "abandon"} => result[f.at] # "pending"
  /\ Job(f) => result[Parent[f.at]] # "pending" /\ k = Len(frames[t])
  /\ f.op = "task" => result[f.at] = "pending" /\ f.at \in action /\ k = 1
  /\ f.op = "run" => f.at \notin action

Stacks ==
  /\ frames \in [Threads -> Seq(FrameSet)]
  /\ \A t \in Threads : \A k \in Places(t) : Sound(t, k)

\* The same call, or the same task.
Same(f, g) ==
  /\ f.at = g.at
  /\ (f.op = "execute" /\ g.op = "execute") \/ (Job(f) /\ Job(g))

\* A future is executed by one thread at one place of its stack, and so is a
\* task.
Once ==
  \A t, u \in Threads : \A k \in Places(t), l \in Places(u) :
    Same(frames[t][k], frames[u][l]) => t = u /\ k = l

\* A continuation is to be called, then queued, then run.
Queued ==
  /\ \A k, l \in 1..Len(queue) : queue[k] = queue[l] => k = l
  /\ \A j \in Stages :
       /\ result[Parent[j]] = "pending" => result[j] = "pending" /\ j \in action
       /\ Todo(j) => result[j] = "pending" /\ j \in action /\ ~InQueue(j) /\ ~Begun(j)
       /\ InQueue(j) => /\ result[j] = "pending" /\ j \in action
                        /\ result[Parent[j]] # "pending" /\ ~Begun(j)

\* The promise is used once, and nobody works when the pool is destroyed.
Shutdown ==
  /\ promised => result[0] = "pending" /\ Idle(Source)
  /\ \A t \in left : Idle(t)
  /\ pool \in {"destroy", "destroyed"} => ~promised /\ Idle(Source) /\ closed
  /\ pool = "destroyed" => left = Workers /\ Idle(Owner) /\ queue = <<>>

Explained ==
  \A j \in Stages : result[j] = "broken" => closed \/ result[Parent[j]] = "broken"

\* A future that is alive without a result will get one from somebody.
Expected ==
  /\ Alive[0] /\ result[0] = "pending" => promised
  /\ \A j \in Stages :
       Alive[j] /\ result[j] = "pending" =>
         result[Parent[j]] = "pending" \/ Todo(j) \/ InQueue(j) \/ Begun(j)

\* The inductive invariant.
IInv == TypeOK /\ Stacks /\ Once /\ Queued /\ Shutdown /\ Explained /\ Expected

-----------------------------------------------------------------------------
\* What a step does to the stacks: thread t removes d frames and puts a new
\* ones in their place.

Replaced(t, a, d) ==
  /\ frames' \in [Threads -> Seq(FrameSet)]
  /\ \A u \in Threads \ {t} : frames'[u] = frames[u]
  /\ d <= Len(frames[t]) /\ Len(frames'[t]) = Len(frames[t]) - d + a
  /\ \A k \in Places(t)' :
       k > a => k - a + d \in Places(t) /\ frames'[t][k] = frames[t][k - a + d]
  /\ \A k \in Places(t) :
       k > d => k - d + a \in Places(t)' /\ frames'[t][k - d + a] = frames[t][k]

\* Frames are made of the right parts.
LEMMA Frames ==
  /\ \A i \in Futures : /\ Frame("execute", i) \in FrameSet
                        /\ Frame("execute", i).op = "execute"
                        /\ Frame("execute", i).at = i
                        /\ Frame("execute", i).todo = Children(i)
                        /\ \A o \in {"abandon", "task", "run"} :
                             /\ Frame(o, i) \in FrameSet
                             /\ Frame(o, i).op = o /\ Frame(o, i).at = i
                             /\ Frame(o, i).todo = {}
BY Graph DEF Frame, FrameSet

\* Taking the innermost call off a stack.
LEMMA Pop ==
  ASSUME NEW s \in Seq(FrameSet), s # <<>>
  PROVE  /\ Tail(s) \in Seq(FrameSet)
         /\ Len(s) \in Nat /\ Len(s) >= 1 /\ Len(Tail(s)) = Len(s) - 1
         /\ Head(s) = s[1] /\ s[1] \in FrameSet
         /\ \A k \in 1..(Len(s) - 1) : Tail(s)[k] = s[k + 1]
OBVIOUS

\* Putting calls on a stack.
LEMMA Push ==
  ASSUME NEW s \in Seq(FrameSet), NEW f \in FrameSet, NEW g \in FrameSet
  PROVE  /\ <<f>> \o s \in Seq(FrameSet)
         /\ Len(s) \in Nat /\ Len(<<f>> \o s) = Len(s) + 1
         /\ (<<f>> \o s)[1] = f
         /\ \A k \in 1..Len(s) : (<<f>> \o s)[k + 1] = s[k]
         /\ <<f, g>> \o s \in Seq(FrameSet)
         /\ Len(<<f, g>> \o s) = Len(s) + 2
         /\ (<<f, g>> \o s)[1] = f /\ (<<f, g>> \o s)[2] = g
         /\ \A k \in 1..Len(s) : (<<f, g>> \o s)[k + 2] = s[k]
OBVIOUS

\* The innermost call has one continuation less to call.
LEMMA Mark ==
  ASSUME NEW s \in Seq(FrameSet), s # <<>>, NEW j
  PROVE  LET m == [s EXCEPT ![1].todo = @ \ {j}] IN
         /\ m \in Seq(FrameSet) /\ Len(m) = Len(s)
         /\ m[1].op = s[1].op /\ m[1].at = s[1].at /\ m[1].todo = s[1].todo \ {j}
         /\ \A k \in 1..(Len(s) - 1) : m[k + 1] = s[k + 1]
<1> DEFINE m == [s EXCEPT ![1].todo = @ \ {j}]
<1>1. /\ Len(s) \in Nat /\ Len(s) >= 1 /\ s[1] \in FrameSet
      /\ s \in [1..Len(s) -> FrameSet]
  OBVIOUS
<1>2. m = [s EXCEPT ![1] = [s[1] EXCEPT !.todo = s[1].todo \ {j}]]
  OBVIOUS
<1>3. [s[1] EXCEPT !.todo = s[1].todo \ {j}] \in FrameSet
  BY <1>1 DEF FrameSet
<1>4. m \in Seq(FrameSet) /\ Len(m) = Len(s)
  BY <1>1, <1>2, <1>3
<1>5. m[1] = [s[1] EXCEPT !.todo = s[1].todo \ {j}] /\ \A k \in 1..(Len(s) - 1) : m[k + 1] = s[k + 1]
  BY <1>1, <1>2
<1>6. /\ m[1].op = s[1].op /\ m[1].at = s[1].at /\ m[1].todo = s[1].todo \ {j}
  BY <1>1, <1>5 DEF FrameSet
<1> QED
  BY <1>4, <1>5, <1>6

\* Returning from the innermost call.
LEMMA PopForm ==
  ASSUME Stacks, NEW t \in Threads, ~Idle(t), frames' = [frames EXCEPT ![t] = Tail(@)]
  PROVE  Replaced(t, 0, 1)
<1>1. frames[t] \in Seq(FrameSet) /\ frames[t] # <<>>
  BY DEF Stacks, Idle
<1>2. frames'[t] = Tail(frames[t]) /\ frames' \in [Threads -> Seq(FrameSet)]
  BY <1>1, Pop DEF Stacks
<1> QED
  BY <1>1, <1>2, Pop DEF Replaced, Places

\* A worker's task, and a run that is back to its begin, are alone.
LEMMA AloneForm ==
  ASSUME Stacks, NEW t \in Threads, NEW o \in {"task", "run"}, In(t, o)
  PROVE  /\ Len(frames[t]) = 1 /\ 1 \in Places(t)
         /\ frames[t][1].op = o /\ frames[t][1].at = At(t) /\ At(t) \in Stages
         /\ Sound(t, 1)
<1>1. frames[t] \in Seq(FrameSet) /\ frames[t] # <<>>
  BY DEF Stacks, In, Idle
<1>2. 1 \in Places(t) /\ Head(frames[t]) = frames[t][1]
  BY <1>1, Pop DEF Places
<1> QED
  BY <1>1, <1>2 DEF Stacks, Sound, In, At, Job

\* It ends, or goes on as another frame.
LEMMA ClearForm ==
  ASSUME Stacks, NEW t \in Threads, Len(frames[t]) = 1,
         frames' = [frames EXCEPT ![t] = <<>>]
  PROVE  Replaced(t, 0, 1)
BY DEF Replaced, Places, Stacks

LEMMA TurnForm ==
  ASSUME Stacks, NEW t \in Threads, NEW f \in FrameSet, Len(frames[t]) = 1,
         frames' = [frames EXCEPT ![t] = <<f>>]
  PROVE  Replaced(t, 1, 1) /\ frames'[t][1] = f
BY DEF Replaced, Places, Stacks

\* A call begins.
LEMMA PushForm ==
  ASSUME Stacks, NEW t \in Threads, NEW f \in FrameSet,
         frames' = [frames EXCEPT ![t] = <<f>> \o @]
  PROVE  Replaced(t, 1, 0) /\ frames'[t][1] = f
<1>1. frames[t] \in Seq(FrameSet)
  BY DEF Stacks
<1>2. frames'[t] = <<f>> \o frames[t] /\ frames' \in [Threads -> Seq(FrameSet)]
  BY <1>1, Push DEF Stacks
<1> QED
  BY <1>1, <1>2, Push DEF Replaced, Places

\* An idle thread gets its first call.
LEMMA StartForm ==
  ASSUME Stacks, NEW t \in Threads, Idle(t), NEW f \in FrameSet,
         frames' = [frames EXCEPT ![t] = <<f>>]
  PROVE  Replaced(t, 1, 0) /\ frames'[t][1] = f
BY DEF Replaced, Places, Stacks, Idle

Marked(g, f, j) == g.op = f.op /\ g.at = f.at /\ g.todo = f.todo \ {j}

\* schedule, from the innermost call: the continuation is posted, skipped, or
\* abandoned on top of the call.
LEMMA CallForm ==
  ASSUME Stacks, NEW t \in Threads, NEW j \in Stages, CallContinuation(t, j)
  PROVE  /\ 1 \in Places(t) /\ frames[t][1].op = "execute" /\ frames[t][1].at \in Futures
         /\ j \in frames[t][1].todo /\ Sound(t, 1)
         /\ \/ /\ closed /\ Alive[j]
               /\ Replaced(t, 3, 1)
               /\ frames'[t][1] = Frame("execute", j) /\ frames'[t][2] = Frame("abandon", j)
               /\ Marked(frames'[t][3], frames[t][1], j)
               /\ result' = [result EXCEPT ![j] = "broken"] /\ queue' = queue
            \/ /\ ~closed \/ ~Alive[j]
               /\ Replaced(t, 1, 1)
               /\ Marked(frames'[t][1], frames[t][1], j)
               /\ result' = result
               /\ queue' = IF Alive[j] THEN IF closed THEN queue ELSE Append(queue, j) ELSE queue
<1> DEFINE s == frames[t]
           rest == [frames[t] EXCEPT ![1].todo = @ \ {j}]
<1>1. s \in Seq(FrameSet) /\ s # <<>>
  BY DEF Stacks, CallContinuation, In, Idle
<1>2. Head(s) = s[1] /\ s[1] \in FrameSet /\ 1 \in Places(t) /\ Len(s) \in Nat /\ Len(s) >= 1
  BY <1>1, Pop DEF Places
<1>3. /\ 1 \in Places(t) /\ frames[t][1].op = "execute" /\ frames[t][1].at \in Futures
      /\ j \in frames[t][1].todo /\ Sound(t, 1)
  BY <1>2 DEF CallContinuation, In, Stacks, FrameSet
<1>4. /\ rest \in Seq(FrameSet) /\ Len(rest) = Len(s) /\ Marked(rest[1], s[1], j)
      /\ \A k \in 1..(Len(s) - 1) : rest[k + 1] = s[k + 1]
  BY <1>1, Mark DEF Marked
<1>5. \A k \in 1..Len(s) : k > 1 => rest[k] = s[k]
  <2> SUFFICES ASSUME NEW k \in 1..Len(s), k > 1 PROVE rest[k] = s[k]
    OBVIOUS
  <2>1. k - 1 \in 1..(Len(s) - 1) /\ (k - 1) + 1 = k
    BY <1>2
  <2> HIDE DEF rest
  <2> QED
    BY <1>4, <2>1
<1> HIDE DEF rest
<1>6. CASE closed /\ Alive[j]
  <2> DEFINE f == Frame("execute", j)
             g == Frame("abandon", j)
  <2>1. f \in FrameSet /\ g \in FrameSet
    BY Frames, Graph
  <2> HIDE DEF f, g
  <2>2. /\ frames' = [frames EXCEPT ![t] = <<f, g>> \o rest]
        /\ result' = [result EXCEPT ![j] = "broken"] /\ queue' = queue
    BY <1>6 DEF CallContinuation, Abandon, rest, f, g
  <2>3. /\ <<f, g>> \o rest \in Seq(FrameSet)
        /\ Len(<<f, g>> \o rest) = Len(rest) + 2
        /\ (<<f, g>> \o rest)[1] = f /\ (<<f, g>> \o rest)[2] = g
        /\ \A k \in 1..Len(rest) : (<<f, g>> \o rest)[k + 2] = rest[k]
    BY <1>4, <2>1, Push
  <2> DEFINE n == <<f, g>> \o rest
  <2>4. /\ frames'[t] = n /\ frames' \in [Threads -> Seq(FrameSet)]
        /\ \A u \in Threads \ {t} : frames'[u] = frames[u]
    BY <2>2, <2>3 DEF Stacks
  <2>5. /\ n[3] = rest[1] /\ n[1] = f /\ n[2] = g /\ Len(n) = Len(s) + 2
        /\ \A k \in 1..Len(n) : k > 3 => k - 2 \in 1..Len(s) /\ n[k] = s[k - 2]
        /\ \A k \in 1..Len(s) : k > 1 => k + 2 \in 1..Len(n) /\ n[k + 2] = s[k]
    <3>1. 1 \in 1..Len(rest)
      BY <1>2, <1>4
    <3>2. ASSUME NEW k \in 1..Len(n), k > 3 PROVE k - 2 \in 1..Len(s) /\ n[k] = s[k - 2]
      <4>1. k - 2 \in 1..Len(rest) /\ (k - 2) + 2 = k /\ k - 2 > 1
        BY <1>2, <1>4, <2>3, <3>2
      <4> HIDE DEF n
      <4> QED
        BY <1>4, <1>5, <2>3, <4>1 DEF n
    <3> QED
      BY <1>2, <1>4, <1>5, <2>3, <3>1, <3>2
  <2> HIDE DEF n
  <2>6. Replaced(t, 3, 1)
    BY <1>2, <2>4, <2>5 DEF Replaced, Places
  <2> QED
    BY <1>3, <1>4, <1>6, <2>2, <2>4, <2>5, <2>6 DEF f, g
<1>7. CASE ~closed \/ ~Alive[j]
  <2>1. /\ frames' = [frames EXCEPT ![t] = rest] /\ result' = result
        /\ queue' = IF Alive[j] THEN IF closed THEN queue ELSE Append(queue, j) ELSE queue
    BY <1>7 DEF CallContinuation, Abandon, rest
  <2>2. /\ frames'[t] = rest /\ frames' \in [Threads -> Seq(FrameSet)]
        /\ \A u \in Threads \ {t} : frames'[u] = frames[u]
    BY <1>4, <2>1 DEF Stacks
  <2>3. Replaced(t, 1, 1)
    BY <1>2, <1>4, <1>5, <2>2 DEF Replaced, Places
  <2> QED
    BY <1>3, <1>4, <1>7, <2>1, <2>2, <2>3
<1> QED
  BY <1>6, <1>7

\* The owner destroys a task of the queue.
LEMMA DestroyForm ==
  ASSUME Stacks, DestroyTask, Head(queue) \in Stages
  PROVE  \/ /\ Alive[Head(queue)]
            /\ Replaced(Owner, 2, 0)
            /\ frames'[Owner][1] = Frame("execute", Head(queue))
            /\ frames'[Owner][2] = Frame("abandon", Head(queue))
            /\ result' = [result EXCEPT ![Head(queue)] = "broken"]
         \/ /\ ~Alive[Head(queue)]
            /\ frames' = frames /\ result' = result
<1> DEFINE f == Frame("execute", Head(queue))
           g == Frame("abandon", Head(queue))
<1>1. f \in FrameSet /\ g \in FrameSet /\ Owner \in Threads
  BY Frames, Graph DEF Threads
<1> HIDE DEF f, g
<1>2. frames[Owner] = <<>> /\ frames \in [Threads -> Seq(FrameSet)]
  BY DEF DestroyTask, Idle, Stacks
<1>3. CASE Alive[Head(queue)]
  <2>1. /\ frames' = [frames EXCEPT ![Owner] = <<f, g>> \o <<>>]
        /\ result' = [result EXCEPT ![Head(queue)] = "broken"]
    BY <1>3 DEF DestroyTask, Abandon, f, g
  <2>2. /\ frames'[Owner] = <<f, g>> /\ frames' \in [Threads -> Seq(FrameSet)]
        /\ \A u \in Threads \ {Owner} : frames'[u] = frames[u]
    BY <1>1, <1>2, <2>1
  <2> QED
    BY <1>2, <1>3, <2>1, <2>2 DEF Replaced, Places, f, g
<1>4. CASE ~Alive[Head(queue)]
  BY <1>2, <1>4 DEF DestroyTask, Abandon
<1> QED
  BY <1>3, <1>4

-----------------------------------------------------------------------------
\* What stays when stacks change.

\* A frame is new, or was there before.
LEMMA Kept ==
  ASSUME NEW t \in Threads, NEW a \in Nat, NEW d \in Nat, Replaced(t, a, d), Stacks
  PROVE  /\ \A k \in 1..a : k \in Places(t)'
         /\ \A u \in Threads : \A k \in Places(u)' :
              \/ u = t /\ k \in 1..a
              \/ /\ u = t /\ k > a /\ k - a + d \in Places(t)
                 /\ k - a + d > d
                 /\ frames'[t][k] = frames[t][k - a + d]
              \/ u # t /\ k \in Places(u) /\ frames'[u][k] = frames[u][k]
         /\ \A u \in Threads : \A k \in Places(u) :
              \/ u = t /\ k \in 1..d
              \/ u = t /\ k - d + a \in Places(t)' /\ frames'[t][k - d + a] = frames[t][k]
              \/ u # t /\ k \in Places(u)' /\ frames'[u][k] = frames[u][k]
<1>1. \A u \in Threads : Len(frames[u]) \in Nat /\ Len(frames'[u]) \in Nat
  BY DEF Stacks, Replaced
<1>2. \A u \in Threads \ {t} : Places(u)' = Places(u) /\ frames'[u] = frames[u]
  BY DEF Replaced, Places
<1>3. \A k \in Places(t)' : k \in Nat /\ k >= 1
  BY <1>1 DEF Places
<1>4. \A k \in Places(t) : k \in Nat /\ k >= 1
  BY <1>1 DEF Places
<1>5. \A k \in 1..a : k \in Places(t)'
  BY <1>1 DEF Replaced, Places
<1>6. ASSUME NEW u \in Threads, NEW k \in Places(u)'
      PROVE  \/ u = t /\ k \in 1..a
             \/ /\ u = t /\ k > a /\ k - a + d \in Places(t)
                /\ k - a + d > d
                /\ frames'[t][k] = frames[t][k - a + d]
             \/ u # t /\ k \in Places(u) /\ frames'[u][k] = frames[u][k]
  BY <1>2, <1>3 DEF Replaced
<1>7. ASSUME NEW u \in Threads, NEW k \in Places(u)
      PROVE  \/ u = t /\ k \in 1..d
             \/ u = t /\ k - d + a \in Places(t)' /\ frames'[t][k - d + a] = frames[t][k]
             \/ u # t /\ k \in Places(u)' /\ frames'[u][k] = frames[u][k]
  BY <1>2, <1>4 DEF Replaced
<1> QED
  BY <1>5, <1>6, <1>7

LEMMA Origin ==
  ASSUME NEW t \in Threads, NEW a \in Nat, NEW d \in Nat, Replaced(t, a, d), Stacks,
         NEW u \in Threads, NEW k \in Places(u)'
  PROVE  \/ u = t /\ k \in 1..a
         \/ \E m \in Places(u) : (u = t => m > d) /\ frames'[u][k] = frames[u][m]
BY Kept

\* The stacks stay sound if the new frames are and no result or action comes
\* back.
LEMMA StacksKept ==
  ASSUME Stacks, NEW t \in Threads, NEW a \in Nat, NEW d \in Nat, Replaced(t, a, d),
         \A k \in 1..a : Sound(t, k)',
         \A i \in Futures : result[i] # "pending" => result'[i] # "pending",
         action' \subseteq action,
         \A k \in Places(t) : k > d => frames[t][k].op # "task",
         \A u \in Threads : \A k \in Places(u) :
           frames[u][k].op = "task" =>
             u = t \/ (result'[frames[u][k].at] = "pending" /\ frames[u][k].at \in action')
  PROVE  Stacks'
<1>1. ASSUME NEW u \in Threads, NEW k \in Places(u)' PROVE Sound(u, k)'
  <2>1. CASE u = t /\ k \in 1..a
    BY <2>1
  <2>2. CASE u = t /\ k > a /\ k - a + d \in Places(t) /\ k - a + d > d
             /\ frames'[t][k] = frames[t][k - a + d]
    <3>1. PICK l \in Places(t) : l = k - a + d
      BY <2>2
    <3>2. /\ Sound(t, l) /\ frames[t][l] \in FrameSet /\ frames'[t][k] = frames[t][l]
          /\ frames[t][l].op # "task"
          /\ Len(frames'[t]) = Len(frames[t]) - d + a /\ Len(frames[t]) \in Nat
          /\ k \in Int /\ l \in Int
      <4>1. frames[t] \in Seq(FrameSet) /\ frames'[t] \in Seq(FrameSet)
        BY DEF Stacks, Replaced
      <4>2. Len(frames[t]) \in Nat /\ Len(frames'[t]) \in Nat /\ frames[t][l] \in FrameSet
        BY <4>1 DEF Places
      <4>3. Len(frames'[t]) = Len(frames[t]) - d + a
        BY DEF Replaced
      <4>4. k \in Int /\ l \in Int
        BY <2>2, <4>2 DEF Places
      <4>5. l > d /\ frames'[t][k] = frames[t][l]
        BY <2>2, <3>1
      <4> QED
        BY <4>2, <4>3, <4>4, <4>5 DEF Stacks
    <3>3. Job(frames[t][l]) => k = Len(frames'[t])
      BY <3>1, <3>2 DEF Sound
    <3>4. /\ frames[t][l].at \in Futures
          /\ frames[t][l].op # "execute" => frames[t][l].at \in Stages
      BY <3>2 DEF Sound, FrameSet
    <3>5. /\ \A i \in Futures : result[i] # "pending" => result'[i] # "pending"
          /\ \A i \in Stages : Parent[i] \in Futures
          /\ action' \subseteq action
      BY Graph
    <3>6. /\ Job(frames[t][l]) => frames[t][l].at \in Stages
          /\ frames[t][l].op = "run" => frames[t][l].at \in Stages
      BY <3>4 DEF Job
    <3>7. Sound(t, k)'
      <4> DEFINE f == frames[t][l]
      <4>1. f.todo \subseteq Children(f.at) /\ (f.op # "execute" => f.todo = {} /\ f.at \in Stages)
        BY <3>2 DEF Sound
      <4>2. f.op \in {"execute", "abandon"} => result'[f.at] # "pending"
        BY <3>2, <3>4, <3>5 DEF Sound
      <4>3. Job(f) => result'[Parent[f.at]] # "pending" /\ k = Len(frames'[t])
        BY <3>2, <3>3, <3>5, <3>6 DEF Sound
      <4>4. f.op # "task" /\ (f.op = "run" => f.at \notin action')
        BY <3>2, <3>5 DEF Sound
      <4>5. frames'[t][k] = f
        BY <3>2
      <4> HIDE DEF f
      <4> QED
        BY <4>1, <4>2, <4>3, <4>4, <4>5 DEF Sound, Job
    <3> QED
      BY <2>2, <3>7
  <2>3. CASE u # t /\ k \in Places(u) /\ frames'[u][k] = frames[u][k]
    <3>1. /\ Sound(u, k) /\ frames[u][k] \in FrameSet /\ frames'[u] = frames[u]
      BY <2>3 DEF Stacks, Replaced, Places
    <3>2. /\ frames[u][k].at \in Futures
          /\ frames[u][k].op # "execute" => frames[u][k].at \in Stages
      BY <3>1 DEF Sound, FrameSet
    <3> QED
      BY <2>3, <3>1, <3>2, Graph DEF Sound, Job
  <2> QED
    BY <2>1, <2>2, <2>3, Kept
<1> QED
  BY <1>1 DEF Stacks, Replaced

\* A call stays the only one of its kind if no new one is like it.
LEMMA OnceKept ==
  ASSUME Stacks, Once, NEW t \in Threads, NEW a \in Nat, NEW d \in Nat, Replaced(t, a, d),
         \A k \in 1..a : \A u \in Threads : \A l \in Places(u)' :
           Same(frames'[t][k], frames'[u][l]) => u = t /\ l = k
  PROVE  Once'
<1> SUFFICES ASSUME NEW u \in Threads, NEW v \in Threads, NEW k \in Places(u)', NEW l \in Places(v)',
                    Same(frames'[u][k], frames'[v][l])
             PROVE  u = v /\ k = l
  BY DEF Once
<1>1. Same(frames'[v][l], frames'[u][k]) /\ k \in Int /\ l \in Int
  <2>1. Len(frames'[u]) \in Nat /\ Len(frames'[v]) \in Nat
    BY DEF Replaced
  <2> QED
    BY <2>1 DEF Same, Places
<1>2. CASE u = t /\ k \in 1..a
  BY <1>2
<1>3. CASE v = t /\ l \in 1..a
  BY <1>1, <1>3
<1>4. CASE ~(u = t /\ k \in 1..a) /\ ~(v = t /\ l \in 1..a)
  <2>1. \/ u = t /\ k - a + d \in Places(t) /\ frames'[t][k] = frames[t][k - a + d]
        \/ u # t /\ k \in Places(u) /\ frames'[u][k] = frames[u][k]
    BY <1>4, Kept
  <2>2. \/ v = t /\ l - a + d \in Places(t) /\ frames'[t][l] = frames[t][l - a + d]
        \/ v # t /\ l \in Places(v) /\ frames'[v][l] = frames[v][l]
    BY <1>4, Kept
  <2> QED
    BY <1>1, <2>1, <2>2 DEF Once
<1> QED
  BY <1>2, <1>3, <1>4

\* What is to be called or has been begun.
LEMMA PlacesKept ==
  ASSUME Stacks, NEW t \in Threads, NEW a \in Nat, NEW d \in Nat, Replaced(t, a, d)
  PROVE  \A i :
           /\ Todo(i)' => Todo(i) \/ \E k \in 1..a : i \in frames'[t][k].todo
           /\ (\E k \in 1..a : i \in frames'[t][k].todo) => Todo(i)'
           /\ Todo(i) => Todo(i)' \/ \E k \in 1..d : i \in frames[t][k].todo
           /\ Begun(i)' => Begun(i) \/ \E k \in 1..a : Job(frames'[t][k]) /\ frames'[t][k].at = i
           /\ (\E k \in 1..a : Job(frames'[t][k]) /\ frames'[t][k].at = i) => Begun(i)'
           /\ Begun(i) => Begun(i)' \/ \E k \in 1..d : Job(frames[t][k]) /\ frames[t][k].at = i
           /\ i \in InUse' => \/ i \in InUse
                              \/ \E k \in 1..a : frames'[t][k].op # "task" /\ frames'[t][k].at = i
           /\ i \in Running' => \/ i \in Running
                                \/ \E k \in 1..a : frames'[t][k].op = "run" /\ frames'[t][k].at = i
<1> TAKE i
<1>1. /\ Todo(i)' => Todo(i) \/ \E k \in 1..a : i \in frames'[t][k].todo
      /\ Begun(i)' => Begun(i) \/ \E k \in 1..a : Job(frames'[t][k]) /\ frames'[t][k].at = i
  BY Kept DEF Todo, Begun
<1>2. /\ (\E k \in 1..a : i \in frames'[t][k].todo) => Todo(i)'
      /\ (\E k \in 1..a : Job(frames'[t][k]) /\ frames'[t][k].at = i) => Begun(i)'
  BY Kept DEF Todo, Begun
<1>3. /\ Todo(i) => Todo(i)' \/ \E k \in 1..d : i \in frames[t][k].todo
      /\ Begun(i) => Begun(i)' \/ \E k \in 1..d : Job(frames[t][k]) /\ frames[t][k].at = i
  BY Kept DEF Todo, Begun
<1>4. i \in InUse' => \/ i \in InUse
                       \/ \E k \in 1..a : frames'[t][k].op # "task" /\ frames'[t][k].at = i
  <2> SUFFICES ASSUME NEW u \in Threads, NEW l \in Places(u)',
                      frames'[u][l].op # "task", frames'[u][l].at = i
               PROVE  \/ i \in InUse
                      \/ \E k \in 1..a : frames'[t][k].op # "task" /\ frames'[t][k].at = i
    BY DEF InUse, AllFrames, Places
  <2>1. CASE \E m \in Places(u) : frames'[u][l] = frames[u][m]
    BY <2>1 DEF InUse, AllFrames, Places
  <2> QED
    BY <2>1, Origin
<1>5. i \in Running' => \/ i \in Running
                         \/ \E k \in 1..a : frames'[t][k].op = "run" /\ frames'[t][k].at = i
  <2> SUFFICES ASSUME NEW u \in Threads, NEW l \in Places(u)',
                      frames'[u][l].op = "run", frames'[u][l].at = i
               PROVE  \/ i \in Running
                      \/ \E k \in 1..a : frames'[t][k].op = "run" /\ frames'[t][k].at = i
    BY DEF Running, AllFrames, Places
  <2>1. CASE \E m \in Places(u) : frames'[u][l] = frames[u][m]
    BY <2>1 DEF Running, AllFrames, Places
  <2> QED
    BY <2>1, Origin
<1> QED
  BY <1>1, <1>2, <1>3, <1>4, <1>5

\* A future that is dead stays dead: nobody uses, holds or runs what has no
\* owner.
LEMMA AliveShrinks ==
  ASSUME \A i \in held' \cup InUse' : i \in Futures => Alive[i],
         action' \subseteq action,
         \A j \in Running' : j \in Running \/ (j \in action /\ Alive[j])
  PROVE  \A i \in Futures : Alive'[i] => Alive[i]
<1> DEFINE S == {k \in 0..N : Alive'[N - k] /\ ~Alive[N - k]}
<1>1. CASE S = {}
  <2>1. ASSUME NEW i \in Futures PROVE Alive'[i] => Alive[i]
    <3>1. N - i \in 0..N /\ N - (N - i) = i
      BY Graph
    <3> QED
      BY <1>1, <3>1
  <2> QED
    BY <2>1
<1>2. CASE S # {}
  <2>1. PICK m \in S : \A k \in S : m <= k
    <3>1. S \in SUBSET (0..N)
      OBVIOUS
    <3> HIDE DEF S
    <3> QED
      BY <1>2, <3>1, Least, Graph
  <2> DEFINE i == N - m
  <2>2. m \in 0..N /\ i \in Futures /\ Alive'[i] /\ ~Alive[i]
    BY <2>1, Graph
  <2>3. ASSUME NEW j \in Children(i), Alive'[j] PROVE Alive[j]
    <3>1. N - j \in 0..N /\ N - (N - j) = j /\ N - j < m
      BY <2>2, Graph
    <3>2. N - j \notin S
      BY <2>1, <2>2, <3>1
    <3> QED
      BY <2>3, <3>1, <3>2
  <2> HIDE DEF i, S
  <2>4. \/ i \in held' \cup InUse'
        \/ \E j \in Children(i) : j \in Running' \/ (j \in action' /\ Alive'[j])
    <3>1. AliveDef'
      BY AliveDef, PTL
    <3> QED
      BY <2>2, <3>1
  <2>5. ~ \/ i \in held \cup InUse
          \/ \E j \in Children(i) : j \in Running \/ (j \in action /\ Alive[j])
    BY <2>2, AliveDef
  <2> QED
    BY <2>2, <2>3, <2>4, <2>5
<1> QED
  BY <1>1, <1>2

-----------------------------------------------------------------------------
\* What the steps have in common.

LEMMA FramesTyped ==
  Stacks => \A f \in AllFrames : /\ f.op \in {"execute", "abandon", "task", "run"}
                                  /\ f.at \in Futures
                                  /\ f.todo \subseteq Children(f.at)
<1> SUFFICES ASSUME Stacks, NEW t \in Threads, NEW k \in Places(t)
             PROVE  /\ frames[t][k].op \in {"execute", "abandon", "task", "run"}
                    /\ frames[t][k].at \in Futures
                    /\ frames[t][k].todo \subseteq Children(frames[t][k].at)
  BY DEF AllFrames, Places
<1>1. frames[t][k] \in FrameSet
  BY DEF Stacks, Places
<1> QED
  BY <1>1 DEF Stacks, Sound, FrameSet

\* A thread that is in a call.
LEMMA InCall ==
  ASSUME IInv, NEW t \in Threads, NEW o, In(t, o)
  PROVE  /\ 1 \in Places(t) /\ frames[t][1].op = o /\ frames[t][1].at = At(t)
         /\ frames[t][1].todo = Head(frames[t]).todo
         /\ Sound(t, 1) /\ At(t) \in Futures /\ ~Idle(t)
         /\ t \notin left /\ pool # "destroyed"
         /\ t = Source => ~promised /\ pool # "destroy"
<1>1. frames[t] \in Seq(FrameSet) /\ frames[t] # <<>>
  BY DEF IInv, Stacks, In, Idle
<1>2. 1 \in Places(t) /\ Head(frames[t]) = frames[t][1] /\ frames[t][1] \in FrameSet
  BY <1>1, Pop DEF Places
<1>3. /\ t \notin left /\ ~Idle(t)
      /\ t = Source => ~promised /\ pool # "destroy"
  BY DEF IInv, Shutdown, In
<1>4. pool # "destroyed"
  BY <1>3 DEF IInv, Shutdown, Threads
<1> QED
  BY <1>2, <1>3, <1>4 DEF IInv, Stacks, Sound, In, At, FrameSet

\* A future without a result: nothing has happened to its continuations, and
\* nobody calls them.
LEMMA Fresh ==
  ASSUME IInv, NEW i \in Futures, result[i] = "pending"
  PROVE  /\ \A j \in Children(i) : /\ j \in Stages /\ j # i /\ result[j] = "pending" /\ j \in action
                                   /\ ~Todo(j) /\ ~InQueue(j) /\ ~Begun(j)
         /\ \A t \in Threads : \A k \in Places(t) :
              frames[t][k].at = i => frames[t][k].op \notin {"execute", "abandon"}
<1>1. ASSUME NEW t \in Threads, NEW k \in Places(t), frames[t][k].at = i
      PROVE  frames[t][k].op \notin {"execute", "abandon"}
  BY <1>1 DEF IInv, Stacks, Sound
<1>2. ASSUME NEW j \in Children(i)
      PROVE  /\ j \in Stages /\ j # i /\ result[j] = "pending" /\ j \in action
             /\ ~Todo(j) /\ ~InQueue(j) /\ ~Begun(j)
  <2>1. j \in Stages /\ Parent[j] = i /\ j > i /\ j \in Nat /\ i \in Nat
    BY Graph
  <2>2. result[j] = "pending" /\ j \in action /\ ~InQueue(j)
    BY <2>1 DEF IInv, Queued
  <2>3. ~Begun(j)
    BY <2>1 DEF IInv, Stacks, Begun, Sound
  <2>4. ASSUME NEW t \in Threads, NEW k \in Places(t), j \in frames[t][k].todo
        PROVE  FALSE
    <3>1. frames[t][k] \in FrameSet /\ Sound(t, k)
      BY DEF IInv, Stacks, Places
    <3>2. frames[t][k].op = "execute" /\ frames[t][k].at = i
      BY <2>1, <2>4, <3>1, Graph DEF Sound, FrameSet
    <3> QED
      BY <1>1, <3>2
  <2> QED
    BY <2>1, <2>2, <2>3, <2>4 DEF Todo
<1> QED
  BY <1>1, <1>2

\* A continuation that a thread is about to call is not called anywhere else.
LEMMA TodoOnce ==
  ASSUME IInv, NEW t \in Threads, NEW k \in Places(t), NEW j \in frames[t][k].todo,
         NEW u \in Threads, NEW l \in Places(u), j \in frames[u][l].todo
  PROVE  t = u /\ k = l
<1>1. Sound(t, k) /\ Sound(u, l) /\ frames[t][k] \in FrameSet /\ frames[u][l] \in FrameSet
  BY DEF IInv, Stacks, Places
<1>2. /\ frames[t][k].op = "execute" /\ frames[u][l].op = "execute"
      /\ frames[t][k].at = frames[u][l].at
  BY <1>1, Graph DEF Sound, FrameSet
<1>3. Same(frames[t][k], frames[u][l])
  BY <1>2 DEF Same
<1> QED
  BY <1>3 DEF IInv, Once

\* Taking the first task out of the queue.
LEMMA TakeOut ==
  ASSUME IInv, queue # <<>>, queue' = Tail(queue)
  PROVE  /\ queue' \in Seq(Stages) /\ Head(queue) \in Stages /\ InQueue(Head(queue))
         /\ \A i : InQueue(i)' => InQueue(i) /\ i # Head(queue)
         /\ \A i : InQueue(i) => InQueue(i)' \/ i = Head(queue)
         /\ \A k, l \in 1..Len(queue') : queue'[k] = queue'[l] => k = l
<1>1. /\ queue \in Seq(Stages) /\ Len(queue) \in Nat /\ Len(queue) >= 1
      /\ Head(queue) = queue[1] /\ queue[1] \in Stages
      /\ Len(queue') = Len(queue) - 1 /\ queue' \in Seq(Stages)
      /\ \A k \in 1..(Len(queue) - 1) : queue'[k] = queue[k + 1]
  BY DEF IInv, TypeOK
<1>2. \A k, l \in 1..Len(queue) : queue[k] = queue[l] => k = l
  BY DEF IInv, Queued
<1>3. ASSUME NEW k \in 1..Len(queue')
      PROVE  k + 1 \in 1..Len(queue) /\ k + 1 # 1 /\ queue'[k] = queue[k + 1]
  BY <1>1
<1>4. ASSUME NEW k \in 1..Len(queue), k # 1
      PROVE  k - 1 \in 1..Len(queue') /\ queue'[k - 1] = queue[k]
  <2>1. k - 1 \in 1..(Len(queue) - 1) /\ (k - 1) + 1 = k
    BY <1>1, <1>4
  <2> QED
    BY <1>1, <2>1
<1>5. InQueue(Head(queue))
  BY <1>1 DEF InQueue
<1>6. ASSUME NEW i, InQueue(i)' PROVE InQueue(i) /\ i # Head(queue)
  <2>1. PICK k \in 1..Len(queue') : queue'[k] = i
    BY <1>6 DEF InQueue
  <2>2. k + 1 \in 1..Len(queue) /\ k + 1 # 1 /\ i = queue[k + 1] /\ 1 \in 1..Len(queue)
    BY <1>1, <1>3, <2>1
  <2> QED
    BY <1>1, <1>2, <2>2 DEF InQueue
<1>7. ASSUME NEW i, InQueue(i), i # Head(queue) PROVE InQueue(i)'
  BY <1>1, <1>4, <1>7 DEF InQueue
<1>8. ASSUME NEW k \in 1..Len(queue'), NEW l \in 1..Len(queue'), queue'[k] = queue'[l]
      PROVE  k = l
  <2>1. k + 1 = l + 1
    BY <1>2, <1>3, <1>8
  <2> QED
    BY <1>1, <2>1
<1> QED
  BY <1>1, <1>5, <1>6, <1>7, <1>8

\* Adding a task to it.
LEMMA PutIn ==
  ASSUME IInv, NEW j \in Stages, ~InQueue(j), queue' = Append(queue, j)
  PROVE  /\ queue' \in Seq(Stages)
         /\ \A i : InQueue(i)' <=> InQueue(i) \/ i = j
         /\ \A k, l \in 1..Len(queue') : queue'[k] = queue'[l] => k = l
<1>1. /\ queue \in Seq(Stages) /\ Len(queue) \in Nat
      /\ queue' \in Seq(Stages) /\ Len(queue') = Len(queue) + 1
      /\ queue'[Len(queue) + 1] = j
      /\ \A k \in 1..Len(queue) : queue'[k] = queue[k]
  BY DEF IInv, TypeOK
<1>2. \A k, l \in 1..Len(queue) : queue[k] = queue[l] => k = l
  BY DEF IInv, Queued
<1>3. \A k \in 1..Len(queue) : queue[k] # j
  BY DEF InQueue
<1>4. ASSUME NEW i PROVE InQueue(i)' <=> InQueue(i) \/ i = j
  <2>1. \A k \in 1..Len(queue') : k \in 1..Len(queue) \/ k = Len(queue) + 1
    BY <1>1
  <2>2. \A k \in 1..Len(queue) : k \in 1..Len(queue')
    BY <1>1
  <2>3. Len(queue) + 1 \in 1..Len(queue')
    BY <1>1
  <2> QED
    BY <1>1, <2>1, <2>2, <2>3 DEF InQueue
<1> QED
  BY <1>1, <1>2, <1>3, <1>4

\* A thread that works does not touch what the owner and the promise are at.
LEMMA ShutdownKept ==
  ASSUME IInv, NEW t \in Threads, \A u \in Threads \ {t} : frames'[u] = frames[u],
         UNCHANGED <<closed, left, pool>>, pool # "destroyed", t \notin left,
         t = Source => ~promised' /\ pool # "destroy",
         promised' => promised /\ result'[0] = result[0]
  PROVE  Shutdown'
<1>1. Source \in Threads
  BY DEF Threads
<1>2. \A u \in Threads \ {t} : Idle(u)' = Idle(u)
  BY DEF Idle
<1>3. left \subseteq Threads
  BY DEF IInv, TypeOK, Threads
<1> QED
  BY <1>1, <1>2, <1>3 DEF IInv, Shutdown

\* Nobody comes to life who was dead, and who was expected still is.
LEMMA ExpectedKept ==
  ASSUME IInv, \A i \in Futures : Alive'[i] => Alive[i],
         \A i \in Futures : result'[i] = "pending" => result[i] = "pending",
         promised => promised' \/ result'[0] # "pending" \/ ~Alive[0],
         \A j \in Stages :
           Alive[j] /\ result[j] = "pending" /\ result'[j] = "pending" =>
             /\ result[Parent[j]] = "pending" => result'[Parent[j]] = "pending" \/ Todo(j)'
             /\ Todo(j) => Todo(j)' \/ InQueue(j)'
             /\ InQueue(j) => InQueue(j)' \/ Begun(j)'
             /\ Begun(j) => Begun(j)'
  PROVE  Expected'
<1>1. 0 \in Futures /\ Stages \subseteq Futures
  BY Graph DEF Futures
<1>2. Alive'[0] /\ result'[0] = "pending" => promised'
  BY <1>1 DEF IInv, Expected
<1>3. ASSUME NEW j \in Stages, Alive'[j], result'[j] = "pending"
      PROVE  result'[Parent[j]] = "pending" \/ Todo(j)' \/ InQueue(j)' \/ Begun(j)'
  <2>1. Alive[j] /\ result[j] = "pending"
    BY <1>1, <1>3
  <2> QED
    BY <1>3, <2>1 DEF IInv, Expected
<1> QED
  BY <1>2, <1>3 DEF Expected

-----------------------------------------------------------------------------
\* The steps.

\* A return: the thread has called all continuations, or cleans the action.
LEMMA ReturnStep ==
  ASSUME IInv, NEW t \in Threads, EndExecute(t) \/ EndAbandon(t)
  PROVE  IInv' /\ \A i \in Futures : Alive'[i] => Alive[i]
<1>1. PICK o \in {"execute", "abandon"} : In(t, o)
  BY DEF EndExecute, EndAbandon
<1>2. /\ 1 \in Places(t) /\ frames[t][1].op = o /\ frames[t][1].at = At(t)
      /\ frames[t][1].todo = {}
      /\ Sound(t, 1) /\ At(t) \in Futures /\ ~Idle(t)
      /\ t \notin left /\ pool # "destroyed"
      /\ t = Source => ~promised /\ pool # "destroy"
  BY <1>1, InCall DEF EndExecute, EndAbandon, Sound, In
<1>3. /\ frames' = [frames EXCEPT ![t] = Tail(@)] /\ UNCHANGED <<result, held, pvars, promised>>
      /\ action' \subseteq action
      /\ \A j \in action : j \in action' \/ result[j] # "pending"
  <2>1. CASE EndExecute(t)
    BY <2>1 DEF EndExecute, fvars
  <2>2. CASE EndAbandon(t)
    BY <1>2, <2>2 DEF EndAbandon, Sound, In, fvars
  <2> QED
    BY <2>1, <2>2
<1>4. Replaced(t, 0, 1) /\ Stacks /\ Once
  BY <1>2, <1>3, PopForm DEF IInv
<1>5. Stacks'
  <2>1. \A k \in Places(t) : k > 1 => frames[t][k].op # "task"
    BY <1>4 DEF Stacks, Sound
  <2>2. ASSUME NEW u \in Threads, NEW k \in Places(u), frames[u][k].op = "task"
        PROVE  result'[frames[u][k].at] = "pending" /\ frames[u][k].at \in action'
    BY <1>3, <1>4, <2>2 DEF Stacks, Sound
  <2>3. \A k \in 1..0 : Sound(t, k)'
    OBVIOUS
  <2> QED
    BY <1>3, <1>4, <2>1, <2>2, <2>3, StacksKept
<1>6. Once'
  <2>1. \A k \in 1..0 : \A u \in Threads : \A l \in Places(u)' :
          Same(frames'[t][k], frames'[u][l]) => u = t /\ l = k
    OBVIOUS
  <2> QED
    BY <1>4, <2>1, OnceKept
<1>7. \A i : /\ Todo(i)' <=> Todo(i)
             /\ Begun(i)' <=> Begun(i)
             /\ i \in InUse' => i \in InUse
             /\ i \in Running' => i \in Running
  <2>1. \A k \in 1..1 : frames[t][k].todo = {} /\ ~Job(frames[t][k])
    BY <1>2 DEF Job
  <2>2. 1..0 = {} /\ 0 \in Nat /\ 1 \in Nat
    OBVIOUS
  <2> QED
    BY <1>4, <2>1, <2>2, PlacesKept
<1>8. \A i \in Futures : Alive'[i] => Alive[i]
  BY <1>3, <1>7, AliveDef, AliveShrinks
<1>9. \A i : InQueue(i)' = InQueue(i)
  BY <1>3 DEF InQueue, pvars
<1>10. Queued'
  BY <1>3, <1>7, <1>9 DEF IInv, Queued, pvars
<1>11. Shutdown'
  BY <1>2, <1>3, <1>4, ShutdownKept DEF Replaced, pvars
<1>12. Explained' /\ Expected'
  BY <1>3, <1>7, <1>8, <1>9, ExpectedKept DEF IInv, Explained, pvars
<1>13. TypeOK'
  <2>1. FramesTyped'
    BY FramesTyped, PTL
  <2> QED
    BY <1>3, <1>5, <2>1 DEF IInv, TypeOK, pvars
<1> QED
  BY <1>5, <1>6, <1>8, <1>10, <1>11, <1>12, <1>13 DEF IInv

\* A worker takes a task out of the queue.
LEMMA TakeStep ==
  ASSUME IInv, NEW t \in Workers, Take(t)
  PROVE  IInv' /\ \A i \in Futures : Alive'[i] => Alive[i]
<1> DEFINE j == Head(queue)
<1>1. /\ t \in Threads /\ t # Source /\ t # Owner /\ t \notin left /\ Idle(t)
      /\ queue # <<>> /\ queue' = Tail(queue)
      /\ UNCHANGED <<result, action, held, promised, closed, stopped, left, pool>>
      /\ frames' = [frames EXCEPT ![t] = <<Frame("task", j)>>]
  BY GraphAssumption DEF Take, fvars, Threads, GraphAssumption
<1>2. /\ queue' \in Seq(Stages) /\ j \in Stages /\ InQueue(j)
      /\ \A i : InQueue(i)' => InQueue(i) /\ i # j
      /\ \A i : InQueue(i) => InQueue(i)' \/ i = j
      /\ \A k, l \in 1..Len(queue') : queue'[k] = queue'[l] => k = l
  BY <1>1, TakeOut
<1> HIDE DEF j
<1>3. result[j] = "pending" /\ j \in action /\ result[Parent[j]] # "pending" /\ ~Begun(j)
  BY <1>2 DEF IInv, Queued
<1>4. /\ Frame("task", j) \in FrameSet /\ Frame("task", j).op = "task"
      /\ Frame("task", j).at = j /\ Frame("task", j).todo = {}
  BY <1>2, Frames, Graph
<1>5. Replaced(t, 1, 0) /\ frames'[t][1] = Frame("task", j) /\ Len(frames'[t]) = 1 /\ Places(t) = {}
  <2>1. Len(frames'[t]) = 1 /\ Places(t) = {}
    BY <1>1 DEF IInv, Stacks, Idle, Places
  <2> QED
    BY <1>1, <1>4, <2>1, StartForm DEF IInv
<1>6. Stacks'
  <2>1. \A k \in 1..1 : Sound(t, k)'
    BY <1>1, <1>2, <1>3, <1>4, <1>5 DEF Sound, Job
  <2>2. ASSUME NEW u \in Threads, NEW k \in Places(u), frames[u][k].op = "task"
        PROVE  result'[frames[u][k].at] = "pending" /\ frames[u][k].at \in action'
    BY <1>1, <2>2 DEF IInv, Stacks, Sound
  <2> QED
    BY <1>1, <1>5, <2>1, <2>2, StacksKept DEF IInv
<1>7. Once'
  <2>1. ASSUME NEW k \in 1..1, NEW u \in Threads, NEW l \in Places(u)',
               Same(frames'[t][k], frames'[u][l])
        PROVE  u = t /\ l = k
    <3>1. Job(frames'[u][l]) /\ frames'[u][l].at = j /\ k = 1
      BY <1>4, <1>5, <2>1 DEF Same, Job
    <3>2. CASE u = t
      BY <1>5, <3>1, <3>2 DEF Places
    <3>3. CASE u # t
      <4>1. l \in Places(u) /\ frames'[u][l] = frames[u][l]
        BY <1>5, <3>3 DEF Replaced, Places
      <4> QED
        BY <1>3, <3>1, <4>1 DEF Begun
    <3> QED
      BY <3>2, <3>3
  <2> QED
    BY <1>1, <1>5, <2>1, OnceKept DEF IInv
<1>8. \A i : /\ Todo(i)' <=> Todo(i)
             /\ Begun(i)' <=> Begun(i) \/ i = j
             /\ i \in InUse' => i \in InUse
             /\ i \in Running' => i \in Running
  <2>1. \A k \in 1..1 : /\ frames'[t][k].todo = {} /\ Job(frames'[t][k])
                        /\ frames'[t][k].at = j /\ frames'[t][k].op = "task"
    BY <1>4, <1>5 DEF Job
  <2>2. 1 \in 1..1 /\ 1..0 = {}
    OBVIOUS
  <2> QED
    BY <1>1, <1>5, <2>1, <2>2, PlacesKept DEF IInv
<1>9. \A i \in Futures : Alive'[i] => Alive[i]
  BY <1>1, <1>8, AliveDef, AliveShrinks
<1>10. Queued'
  BY <1>1, <1>2, <1>8 DEF IInv, Queued
<1>11. Shutdown'
  <2>1. pool # "destroyed"
    BY <1>1 DEF IInv, Shutdown
  <2>2. \A u \in Threads \ {t} : frames'[u] = frames[u]
    BY <1>5 DEF Replaced
  <2> QED
    BY <1>1, <2>1, <2>2, ShutdownKept
<1>12. Explained' /\ Expected'
  BY <1>1, <1>2, <1>8, <1>9, ExpectedKept DEF IInv, Explained
<1>13. TypeOK'
  <2>1. FramesTyped'
    BY FramesTyped, PTL
  <2> QED
    BY <1>1, <1>2, <1>6, <2>1 DEF IInv, TypeOK
<1> QED
  BY <1>6, <1>7, <1>9, <1>10, <1>11, <1>12, <1>13 DEF IInv

\* A worker begins its task, or finds the future gone.
LEMMA RunStep ==
  ASSUME IInv, NEW t \in Workers, Run(t)
  PROVE  IInv' /\ \A i \in Futures : Alive'[i] => Alive[i]
<1> DEFINE j == At(t)
<1>1. /\ t \in Threads /\ t # Source /\ t # Owner /\ In(t, "task")
      /\ UNCHANGED <<result, held, pvars, promised>>
  BY GraphAssumption DEF Run, Threads, GraphAssumption
<1>2. /\ 1 \in Places(t) /\ frames[t][1].op = "task" /\ frames[t][1].at = j
      /\ frames[t][1].todo = {} /\ j \in Stages /\ j \in Futures /\ Len(frames[t]) = 1
      /\ result[j] = "pending" /\ j \in action /\ result[Parent[j]] # "pending"
      /\ t \notin left /\ pool # "destroyed" /\ Begun(j)
  BY <1>1, AloneForm, InCall, Graph DEF IInv, Sound, Job, Begun
<1> HIDE DEF j
<1>3. /\ Frame("run", j) \in FrameSet /\ Frame("run", j).op = "run"
      /\ Frame("run", j).at = j /\ Frame("run", j).todo = {}
  BY <1>2, Frames
<1>4. PICK a \in {0, 1} :
        /\ Replaced(t, a, 1)
        /\ a = 1 => /\ Alive[j] /\ action' = action \ {j}
                    /\ frames'[t][1] = Frame("run", j) /\ Len(frames'[t]) = 1
        /\ a = 0 => ~Alive[j] /\ action' = action
  <2>1. CASE Alive[j]
    <3>1. /\ action' = action \ {j} /\ frames' = [frames EXCEPT ![t] = <<Frame("run", j)>>]
      BY <2>1 DEF Run, j
    <3>2. Len(frames'[t]) = 1
      BY <1>1, <3>1 DEF IInv, Stacks
    <3>3. Replaced(t, 1, 1) /\ frames'[t][1] = Frame("run", j)
      BY <1>1, <1>2, <1>3, <3>1, TurnForm DEF IInv
    <3> QED
      BY <2>1, <3>1, <3>2, <3>3
  <2>2. CASE ~Alive[j]
    <3>1. /\ action' = action /\ frames' = [frames EXCEPT ![t] = <<>>]
      BY <2>2 DEF Run, j
    <3>2. Replaced(t, 0, 1)
      BY <1>1, <1>2, <3>1, ClearForm DEF IInv
    <3> QED
      BY <2>2, <3>1, <3>2
  <2> QED
    BY <2>1, <2>2
<1>5. \A k \in 1..a : k = 1 /\ a = 1
  BY <1>4
<1>6. ASSUME NEW u \in Threads, NEW k \in Places(u), Job(frames[u][k]), frames[u][k].at = j
      PROVE  u = t /\ k = 1
  BY <1>1, <1>2, <1>6 DEF IInv, Once, Same, Job
<1>7. Stacks'
  <2>1. ASSUME NEW k \in 1..a PROVE Sound(t, k)'
    <3>1. /\ k = 1 /\ frames'[t][k] = Frame("run", j) /\ Len(frames'[t]) = 1
          /\ j \notin action' /\ result' = result
      BY <1>1, <1>4, <1>5
    <3> QED
      BY <1>2, <1>3, <3>1 DEF Sound, Job
  <2>2. ASSUME NEW u \in Threads, NEW k \in Places(u), frames[u][k].op = "task", u # t
        PROVE  result'[frames[u][k].at] = "pending" /\ frames[u][k].at \in action'
    <3>1. frames[u][k].at # j
      BY <1>6, <2>2 DEF Job
    <3> QED
      BY <1>1, <1>4, <2>2, <3>1 DEF IInv, Stacks, Sound
  <2>3. \A k \in Places(t) : ~(k > 1)
    BY <1>2 DEF Places
  <2>4. action' \subseteq action /\ a \in Nat /\ 1 \in Nat
    BY <1>4
  <2> QED
    BY <1>1, <1>4, <2>1, <2>2, <2>3, <2>4, StacksKept DEF IInv
<1>8. Once'
  <2>1. ASSUME NEW k \in 1..a, NEW u \in Threads, NEW l \in Places(u)',
               Same(frames'[t][k], frames'[u][l])
        PROVE  u = t /\ l = k
    <3>1. Job(frames'[u][l]) /\ frames'[u][l].at = j /\ k = 1 /\ Len(frames'[t]) = 1
      BY <1>3, <1>4, <1>5, <2>1 DEF Same, Job
    <3>2. CASE u = t
      BY <3>1, <3>2 DEF Places
    <3>3. CASE u # t
      <4>1. l \in Places(u) /\ frames'[u][l] = frames[u][l]
        BY <1>4, <3>3 DEF Replaced, Places
      <4> QED
        BY <1>6, <3>1, <3>3, <4>1
    <3> QED
      BY <3>2, <3>3
  <2> QED
    BY <1>1, <1>4, <2>1, OnceKept DEF IInv
<1>9. \A i : /\ Todo(i)' <=> Todo(i)
             /\ Begun(i)' => Begun(i)
             /\ Begun(i) => Begun(i)' \/ (i = j /\ ~Alive[j])
             /\ i \in InUse' => i \in InUse \/ (i = j /\ Alive[j])
             /\ i \in Running' => i \in Running \/ (i = j /\ Alive[j])
  <2>1. \A k \in 1..1 : frames[t][k].todo = {} /\ frames[t][k].at = j
    BY <1>2
  <2>2. \A k \in 1..a : /\ frames'[t][k].todo = {} /\ Job(frames'[t][k])
                        /\ frames'[t][k].at = j /\ Alive[j]
    BY <1>3, <1>4, <1>5 DEF Job
  <2>3. Alive[j] => 1 \in 1..a
    BY <1>4
  <2>4. a \in Nat /\ 1 \in Nat
    BY <1>4
  <2> QED
    BY <1>1, <1>2, <1>4, <2>1, <2>2, <2>3, <2>4, PlacesKept DEF IInv
<1>10. \A i \in Futures : Alive'[i] => Alive[i]
  BY <1>1, <1>2, <1>4, <1>9, AliveDef, AliveShrinks
<1>11. \A i : InQueue(i)' = InQueue(i)
  BY <1>1 DEF InQueue, pvars
<1>12. Queued'
  <2>1. \A i \in action : i = j \/ i \in action'
    BY <1>4
  <2> QED
    BY <1>1, <1>2, <1>9, <1>11, <2>1 DEF IInv, Queued, pvars
<1>13. Shutdown'
  <2>1. \A u \in Threads \ {t} : frames'[u] = frames[u]
    BY <1>4 DEF Replaced
  <2> QED
    BY <1>1, <1>2, <2>1, ShutdownKept DEF pvars
<1>14. Explained' /\ Expected'
  BY <1>1, <1>2, <1>9, <1>10, <1>11, ExpectedKept DEF IInv, Explained, pvars
<1>15. TypeOK'
  <2>1. FramesTyped'
    BY FramesTyped, PTL
  <2>2. action' \subseteq action
    BY <1>4
  <2> QED
    BY <1>1, <1>7, <2>1, <2>2 DEF IInv, TypeOK, pvars
<1> QED
  BY <1>7, <1>8, <1>10, <1>12, <1>13, <1>14, <1>15 DEF IInv

\* Its run is over.
LEMMA EndRunStep ==
  ASSUME IInv, NEW t \in Workers, EndRun(t)
  PROVE  IInv' /\ \A i \in Futures : Alive'[i] => Alive[i]
<1> DEFINE j == At(t)
<1>1. /\ t \in Threads /\ t # Source /\ In(t, "run") /\ result[j] # "pending"
      /\ UNCHANGED <<fvars, pvars>> /\ frames' = [frames EXCEPT ![t] = <<>>]
  BY GraphAssumption DEF EndRun, Threads, GraphAssumption
<1>2. /\ 1 \in Places(t) /\ frames[t][1].at = j /\ frames[t][1].todo = {}
      /\ Len(frames[t]) = 1 /\ t \notin left /\ pool # "destroyed"
  BY <1>1, AloneForm, InCall DEF IInv, Sound
<1> HIDE DEF j
<1>3. Replaced(t, 0, 1)
  BY <1>1, <1>2, ClearForm DEF IInv
<1>4. Stacks'
  <2>1. \A k \in Places(t) : ~(k > 1)
    BY <1>2 DEF Places
  <2>2. ASSUME NEW u \in Threads, NEW k \in Places(u), frames[u][k].op = "task"
        PROVE  result'[frames[u][k].at] = "pending" /\ frames[u][k].at \in action'
    BY <1>1, <2>2 DEF IInv, Stacks, Sound, fvars
  <2>3. \A k \in 1..0 : Sound(t, k)'
    OBVIOUS
  <2> QED
    BY <1>1, <1>3, <2>1, <2>2, <2>3, StacksKept DEF IInv, fvars
<1>5. Once'
  <2>1. \A k \in 1..0 : \A u \in Threads : \A l \in Places(u)' :
          Same(frames'[t][k], frames'[u][l]) => u = t /\ l = k
    OBVIOUS
  <2> QED
    BY <1>1, <1>3, <2>1, OnceKept DEF IInv
<1>6. \A i : /\ Todo(i)' <=> Todo(i)
             /\ Begun(i)' => Begun(i)
             /\ Begun(i) => Begun(i)' \/ i = j
             /\ i \in InUse' => i \in InUse
             /\ i \in Running' => i \in Running
  <2>1. \A k \in 1..1 : frames[t][k].todo = {} /\ frames[t][k].at = j
    BY <1>2
  <2>2. 1..0 = {} /\ 0 \in Nat /\ 1 \in Nat
    OBVIOUS
  <2> QED
    BY <1>1, <1>3, <2>1, <2>2, PlacesKept DEF IInv
<1>7. \A i \in Futures : Alive'[i] => Alive[i]
  BY <1>1, <1>6, AliveDef, AliveShrinks DEF fvars
<1>8. \A i : InQueue(i)' = InQueue(i)
  BY <1>1 DEF InQueue, pvars
<1>9. Queued'
  BY <1>1, <1>6, <1>8 DEF IInv, Queued, pvars, fvars
<1>10. Shutdown'
  <2>1. \A u \in Threads \ {t} : frames'[u] = frames[u]
    BY <1>3 DEF Replaced
  <2> QED
    BY <1>1, <1>2, <2>1, ShutdownKept DEF pvars, fvars
<1>11. Explained' /\ Expected'
  BY <1>1, <1>6, <1>7, <1>8, ExpectedKept DEF IInv, Explained, pvars, fvars
<1>12. TypeOK'
  <2>1. FramesTyped'
    BY FramesTyped, PTL
  <2> QED
    BY <1>1, <1>4, <2>1 DEF IInv, TypeOK, pvars, fvars
<1> QED
  BY <1>4, <1>5, <1>7, <1>9, <1>10, <1>11, <1>12 DEF IInv

\* Resolving future i, which had no result: the call of its continuations on a
\* stack is new, and what is said of other futures stays.
LEMMA Resolve ==
  ASSUME IInv, NEW i \in Futures, result[i] = "pending",
         NEW r \in {"value", "broken"}, result' = [result EXCEPT ![i] = r]
  PROVE  /\ result' \in [Futures -> {"pending", "value", "broken"}]
         /\ result'[i] = r
         /\ \A k \in Futures : k # i => result'[k] = result[k]
         /\ \A k \in Futures : result[k] # "pending" => result'[k] # "pending"
         /\ \A k \in Futures : result'[k] = "pending" => result[k] = "pending" /\ k # i
         /\ \A j \in Stages : result'[Parent[j]] = "pending" =>
                                j = i \/ (result'[j] = "pending" /\ j \in action)
         /\ \A j \in Stages : result[Parent[j]] = "pending" => Parent[j] = i \/ result'[Parent[j]] = "pending"
         /\ \A j \in Stages : result'[j] = "broken" =>
              j = i \/ closed \/ result'[Parent[j]] = "broken"
<1>1. /\ result \in [Futures -> {"pending", "value", "broken"}]
      /\ \A j \in Stages : j \in Futures /\ Parent[j] \in Futures
      /\ \A j \in Stages : Parent[j] = i => j # i /\ j \in Children(i)
  BY Graph DEF IInv, TypeOK
<1>2. \A j \in Stages : result[Parent[j]] = "pending" => result[j] = "pending" /\ j \in action
  BY DEF IInv, Queued
<1>3. \A j \in Stages : result'[j] = "broken" => j = i \/ closed \/ result'[Parent[j]] = "broken"
  <2> SUFFICES ASSUME NEW j \in Stages, j # i, result'[j] = "broken", ~closed
               PROVE  result'[Parent[j]] = "broken"
    OBVIOUS
  <2>1. result[j] = "broken"
    BY <1>1
  <2>2. result[Parent[j]] = "broken"
    BY <2>1 DEF IInv, Explained
  <2> QED
    BY <1>1, <2>2
<1> QED
  BY <1>1, <1>2, <1>3

\* The function returns.
LEMMA SetResultStep ==
  ASSUME IInv, NEW t \in Workers, NEW r \in {"value", "broken"}, SetResult(t, r)
  PROVE  IInv' /\ \A i \in Futures : Alive'[i] => Alive[i]
<1> DEFINE j == At(t)
           f == Frame("execute", j)
<1>1. /\ t \in Threads /\ t # Source /\ In(t, "run") /\ result[j] = "pending"
      /\ r = "value" \/ r = result[Parent[j]]
      /\ result' = [result EXCEPT ![j] = r]
      /\ UNCHANGED <<action, held, pvars, promised>> /\ frames' = [frames EXCEPT ![t] = <<f>> \o @]
  BY GraphAssumption DEF SetResult, Outcomes, Threads, GraphAssumption
<1>2. /\ 1 \in Places(t) /\ frames[t][1].op = "run" /\ frames[t][1].at = j /\ j \in Stages
      /\ Len(frames[t]) = 1 /\ t \notin left /\ pool # "destroyed" /\ ~Idle(t)
      /\ j \in Futures /\ Parent[j] \in Futures /\ Parent[j] # j /\ result[Parent[j]] # "pending"
      /\ Begun(j) /\ j # 0
  BY <1>1, AloneForm, InCall, Graph DEF IInv, Sound, Job, Begun
<1>3. j \in InUse
  <2>1. frames[t][1] \in AllFrames
    BY <1>1, <1>2 DEF AllFrames, Places
  <2> HIDE DEF j
  <2> QED
    BY <1>2, <2>1 DEF InUse
<1>4. f \in FrameSet /\ f.op = "execute" /\ f.at = j /\ f.todo = Children(j)
  BY <1>2, Frames
<1> HIDE DEF j, f
<1>5. Replaced(t, 1, 0) /\ frames'[t][1] = f
  BY <1>1, <1>4, PushForm DEF IInv
<1>6. /\ result' \in [Futures -> {"pending", "value", "broken"}]
      /\ result'[j] = r
      /\ \A k \in Futures : k # j => result'[k] = result[k]
      /\ \A k \in Futures : result[k] # "pending" => result'[k] # "pending"
      /\ \A k \in Futures : result'[k] = "pending" => result[k] = "pending" /\ k # j
      /\ \A k \in Stages : result'[Parent[k]] = "pending" =>
                             k = j \/ (result'[k] = "pending" /\ k \in action)
      /\ \A k \in Stages : result[Parent[k]] = "pending" => Parent[k] = j \/ result'[Parent[k]] = "pending"
      /\ \A k \in Stages : result'[k] = "broken" =>
           k = j \/ closed \/ result'[Parent[k]] = "broken"
  BY <1>1, <1>2, Resolve
<1>7. /\ \A c \in Children(j) : /\ c \in Stages /\ c # j /\ result[c] = "pending" /\ c \in action
                                /\ ~Todo(c) /\ ~InQueue(c) /\ ~Begun(c)
      /\ \A u \in Threads : \A k \in Places(u) :
           frames[u][k].at = j => frames[u][k].op \notin {"execute", "abandon"}
  BY <1>1, <1>2, Fresh
<1>8. Stacks'
  <2>1. \A k \in 1..1 : Sound(t, k)'
    BY <1>4, <1>5, <1>6 DEF Sound, Job
  <2>2. ASSUME NEW u \in Threads, NEW k \in Places(u), frames[u][k].op = "task"
        PROVE  u = t \/ (result'[frames[u][k].at] = "pending" /\ frames[u][k].at \in action')
    <3>1. /\ frames[u][k].at = j => u = t
          /\ result[frames[u][k].at] = "pending" /\ frames[u][k].at \in action
          /\ frames[u][k].at \in Futures
      BY <1>1, <1>2, <2>2, Graph DEF IInv, Once, Same, Job, Stacks, Sound
    <3> QED
      BY <1>1, <1>6, <3>1
  <2>3. \A k \in Places(t) : frames[t][k].op # "task"
    BY <1>2 DEF Places
  <2> QED
    BY <1>1, <1>5, <1>6, <2>1, <2>2, <2>3, StacksKept DEF IInv
<1>9. Once'
  <2>1. ASSUME NEW k \in 1..1, NEW u \in Threads, NEW l \in Places(u)',
               Same(frames'[t][k], frames'[u][l])
        PROVE  u = t /\ l = k
    <3>1. frames'[u][l].op = "execute" /\ frames'[u][l].at = j /\ k = 1
      BY <1>4, <1>5, <2>1 DEF Same, Job
    <3>2. (u = t /\ l \in 1..1) \/ \E m \in Places(u) : frames'[u][l] = frames[u][m]
      <4>1. /\ 0 \in Nat /\ 1 \in Nat /\ Stacks /\ t \in Threads /\ u \in Threads
            /\ Replaced(t, 1, 0)
        BY <1>1, <1>5 DEF IInv
      <4>2. \/ u = t /\ l \in 1..1
            \/ \E m \in Places(u) : (u = t => m > 0) /\ frames'[u][l] = frames[u][m]
        BY ONLY <4>1, l \in Places(u)', Origin
      <4> QED
        BY <4>2
    <3> QED
      BY <1>7, <3>1, <3>2
  <2> QED
    BY <1>1, <1>5, <2>1, OnceKept DEF IInv
<1>10. \A i : /\ Todo(i)' <=> Todo(i) \/ i \in Children(j)
              /\ Begun(i)' <=> Begun(i)
              /\ i \in InUse' => i \in InUse
              /\ i \in Running' => i \in Running
  <2>1. \A k \in 1..1 : /\ frames'[t][k].todo = Children(j) /\ ~Job(frames'[t][k])
                        /\ frames'[t][k].op = "execute" /\ frames'[t][k].at = j
    BY <1>4, <1>5 DEF Job
  <2>2. 1 \in 1..1 /\ 1..0 = {}
    OBVIOUS
  <2> QED
    BY <1>1, <1>3, <1>5, <2>1, <2>2, PlacesKept DEF IInv
<1>11. \A i \in Futures : Alive'[i] => Alive[i]
  BY <1>1, <1>10, AliveDef, AliveShrinks
<1>12. \A i : InQueue(i)' = InQueue(i)
  BY <1>1 DEF InQueue, pvars
<1>13. Queued'
  <2>1. ~Todo(j) /\ ~InQueue(j)
    BY <1>2 DEF IInv, Queued
  <2>2. ASSUME NEW i \in Stages
        PROVE  /\ result'[Parent[i]] = "pending" => result'[i] = "pending" /\ i \in action'
               /\ Todo(i)' => result'[i] = "pending" /\ i \in action' /\ ~InQueue(i)' /\ ~Begun(i)'
               /\ InQueue(i)' => /\ result'[i] = "pending" /\ i \in action'
                                 /\ result'[Parent[i]] # "pending" /\ ~Begun(i)'
    <3>1. i \in Futures /\ Parent[i] \in Futures
      BY Graph
    <3>2. result'[Parent[i]] = "pending" => result'[i] = "pending" /\ i \in action'
      BY <1>1, <1>2, <1>6, <3>1
    <3>3. Todo(i)' => result'[i] = "pending" /\ i \in action' /\ ~InQueue(i)' /\ ~Begun(i)'
      BY <1>1, <1>6, <1>7, <1>10, <1>12, <2>1, <3>1 DEF IInv, Queued
    <3>4. InQueue(i)' => /\ result'[i] = "pending" /\ i \in action'
                         /\ result'[Parent[i]] # "pending" /\ ~Begun(i)'
      BY <1>1, <1>6, <1>10, <1>12, <2>1, <3>1 DEF IInv, Queued
    <3> QED
      BY <3>2, <3>3, <3>4
  <2> QED
    BY <1>1, <2>2 DEF IInv, Queued, pvars
<1>14. Shutdown'
  <2>1. \A u \in Threads \ {t} : frames'[u] = frames[u]
    BY <1>5 DEF Replaced
  <2>2. result'[0] = result[0]
    BY <1>2, <1>6, Graph DEF Futures
  <2> QED
    BY <1>1, <1>2, <2>1, <2>2, ShutdownKept DEF pvars
<1>15. Explained'
  <2>1. r = "broken" => result'[Parent[j]] = "broken"
    BY <1>1, <1>2, <1>6
  <2> QED
    BY <1>1, <1>6, <2>1 DEF Explained, pvars
<1>16. Expected'
  <2>1. \A i \in Stages : Parent[i] = j => i \in Children(j)
    BY DEF Children
  <2> QED
    BY <1>1, <1>6, <1>10, <1>11, <1>12, <2>1, ExpectedKept DEF IInv
<1>17. TypeOK'
  <2>1. FramesTyped'
    BY FramesTyped, PTL
  <2> QED
    BY <1>1, <1>6, <1>8, <2>1 DEF IInv, TypeOK, pvars
<1> QED
  BY <1>8, <1>9, <1>11, <1>13, <1>14, <1>15, <1>16, <1>17 DEF IInv

\* Steps that change neither results and actions nor the stacks and the queue.
LEMMA QuietStep ==
  ASSUME IInv, result' = result, action' = action, queue' = queue, frames' = frames,
         held' \subseteq held, closed => closed',
         promised => promised' \/ ~Alive[0], TypeOK', Shutdown'
  PROVE  IInv' /\ \A i \in Futures : Alive'[i] => Alive[i]
<1>1. /\ Stacks' = Stacks /\ Once' = Once /\ Queued' = Queued
      /\ \A i : Todo(i)' = Todo(i) /\ Begun(i)' = Begun(i) /\ InQueue(i)' = InQueue(i)
      /\ InUse' = InUse /\ Running' = Running
  BY DEF Stacks, Sound, Once, Queued, Todo, Begun, InQueue, InUse, Running, AllFrames, Places
<1>2. Explained'
  BY DEF IInv, Explained
<1>3. \A i \in Futures : Alive'[i] => Alive[i]
  <2>1. \A i \in held' \cup InUse' : i \in Futures => Alive[i]
    BY <1>1, AliveDef
  <2>2. action' \subseteq action /\ \A j \in Running' : j \in Running
    BY <1>1
  <2> QED
    BY <2>1, <2>2, AliveShrinks
<1>4. Expected'
  BY <1>1, <1>3, ExpectedKept
<1> QED
  BY <1>1, <1>2, <1>3, <1>4 DEF IInv

\* Everything a thread or the owner does without a future.
LEMMA OwnerStep ==
  ASSUME IInv,
         \/ \E t \in Workers : LeaveLoop(t)
         \/ Stop \/ Wait \/ Joined \/ Destroy \/ Destroyed
         \/ \E i \in Stages : DropFuture(i)
         \/ UNCHANGED vars
  PROVE  IInv' /\ \A i \in Futures : Alive'[i] => Alive[i]
<1>1. Source \in Threads /\ Owner \in Threads /\ Workers \subseteq Threads
  BY DEF Threads
<1>2. /\ UNCHANGED <<result, action, queue, frames, promised>>
      /\ held' \subseteq held
      /\ closed => closed'
  BY DEF LeaveLoop, Stop, Wait, Joined, Destroy, Destroyed, DropFuture, vars, fvars, pvars
<1>3. \A t : Idle(t)' = Idle(t)
  BY <1>2 DEF Idle
<1>4. TypeOK'
  <2>1. AllFrames' = AllFrames
    BY <1>2 DEF AllFrames
  <2>2. /\ closed' \in BOOLEAN /\ stopped' \in BOOLEAN /\ left' \subseteq Workers
        /\ pool' \in {"open", "join", "joined", "destroy", "destroyed"}
    BY DEF IInv, TypeOK, LeaveLoop, Stop, Wait, Joined, Destroy, Destroyed, DropFuture, vars, fvars, pvars
  <2>3. \A f \in AllFrames' : /\ f.op \in {"execute", "abandon", "task", "run"}
                               /\ f.at \in Futures
                               /\ f.todo \subseteq Children(f.at)
    BY <2>1 DEF IInv, TypeOK
  <2> QED
    BY <1>2, <2>2, <2>3 DEF IInv, TypeOK
<1>5. Shutdown'
  <2>1. CASE \E t \in Workers : LeaveLoop(t)
    <3>1. PICK t \in Workers : LeaveLoop(t)
      BY <2>1
    <3> QED
      BY <1>2, <1>3, <3>1 DEF IInv, Shutdown, LeaveLoop
  <2>2. CASE Stop \/ Wait \/ Joined
    BY <1>2, <1>3, <2>2 DEF IInv, Shutdown, Stop, Wait, Joined
  <2>3. CASE Destroy \/ Destroyed
    BY <1>2, <1>3, <2>3 DEF IInv, Shutdown, Destroy, Destroyed
  <2>4. CASE (\E i \in Stages : DropFuture(i)) \/ UNCHANGED vars
    BY <1>2, <1>3, <2>4 DEF IInv, Shutdown, DropFuture, vars, fvars, pvars
  <2> QED
    BY <2>1, <2>2, <2>3, <2>4
<1> QED
  BY <1>2, <1>4, <1>5, QuietStep

\* The promise is used or destroyed.
LEMMA UsePromiseStep ==
  ASSUME IInv, NEW r \in {"value", "broken"}, UsePromise(r)
  PROVE  IInv' /\ \A i \in Futures : Alive'[i] => Alive[i]
<1> DEFINE f == Frame("execute", 0)
<1>1. /\ promised /\ promised' = FALSE /\ UNCHANGED <<action, held, pvars>>
      /\ result[0] = "pending" /\ Idle(Source) /\ Source \in Threads /\ Source \notin left
      /\ pool \notin {"destroy", "destroyed"} /\ 0 \in Futures /\ 0 \notin Stages
  BY GraphAssumption, Graph
     DEF IInv, Shutdown, TypeOK, UsePromise, Threads, GraphAssumption, Futures, Stages
<1>2. CASE ~Alive[0]
  <2>1. UNCHANGED <<result, frames>>
    BY <1>2 DEF UsePromise
  <2>2. AllFrames' = AllFrames
    BY <2>1 DEF AllFrames
  <2>3. TypeOK'
    BY <1>1, <2>1, <2>2 DEF IInv, TypeOK, pvars
  <2>4. Shutdown'
    BY <1>1, <2>1 DEF IInv, Shutdown, Idle, pvars
  <2>5. UNCHANGED <<result, action, queue, frames>> /\ held' \subseteq held /\ (closed => closed')
    BY <1>1, <2>1 DEF pvars
  <2> QED
    BY <1>2, <2>3, <2>4, <2>5, QuietStep
<1>3. CASE Alive[0]
  <2>1. /\ result' = [result EXCEPT ![0] = r] /\ frames' = [frames EXCEPT ![Source] = <<f>>]
    BY <1>3 DEF UsePromise
  <2>2. f \in FrameSet /\ f.op = "execute" /\ f.at = 0 /\ f.todo = Children(0)
    BY <1>1, Frames
  <2> HIDE DEF f
  <2>3. Replaced(Source, 1, 0) /\ frames'[Source][1] = f /\ Places(Source) = {}
    <3>1. Places(Source) = {}
      BY <1>1 DEF Idle, Places
    <3> QED
      BY <1>1, <2>1, <2>2, <3>1, StartForm DEF IInv
  <2>4. /\ result' \in [Futures -> {"pending", "value", "broken"}]
        /\ result'[0] = r
        /\ \A k \in Futures : k # 0 => result'[k] = result[k]
        /\ \A k \in Futures : result[k] # "pending" => result'[k] # "pending"
        /\ \A k \in Futures : result'[k] = "pending" => result[k] = "pending" /\ k # 0
        /\ \A k \in Stages : result'[Parent[k]] = "pending" =>
                               k = 0 \/ (result'[k] = "pending" /\ k \in action)
        /\ \A k \in Stages : result[Parent[k]] = "pending" => Parent[k] = 0 \/ result'[Parent[k]] = "pending"
        /\ \A k \in Stages : result'[k] = "broken" =>
             k = 0 \/ closed \/ result'[Parent[k]] = "broken"
    BY <1>1, <2>1, Resolve
  <2>5. /\ \A c \in Children(0) : /\ c \in Stages /\ c # 0 /\ result[c] = "pending" /\ c \in action
                                  /\ ~Todo(c) /\ ~InQueue(c) /\ ~Begun(c)
        /\ \A u \in Threads : \A k \in Places(u) :
             frames[u][k].at = 0 => frames[u][k].op \notin {"execute", "abandon"}
    BY <1>1, Fresh
  <2>6. Stacks'
    <3>1. \A k \in 1..1 : Sound(Source, k)'
      BY <2>2, <2>3, <2>4 DEF Sound, Job
    <3>2. ASSUME NEW u \in Threads, NEW k \in Places(u), frames[u][k].op = "task"
          PROVE  result'[frames[u][k].at] = "pending" /\ frames[u][k].at \in action'
      <4>1. /\ result[frames[u][k].at] = "pending" /\ frames[u][k].at \in action
            /\ frames[u][k].at \in Stages
        BY <3>2 DEF IInv, Stacks, Sound
      <4> QED
        BY <1>1, <2>4, <4>1, Graph
    <3> QED
      BY <1>1, <2>3, <2>4, <3>1, <3>2, StacksKept DEF IInv
  <2>7. Once'
    <3>1. ASSUME NEW k \in 1..1, NEW u \in Threads, NEW l \in Places(u)',
                 Same(frames'[Source][k], frames'[u][l])
          PROVE  u = Source /\ l = k
      <4>1. frames'[u][l].op = "execute" /\ frames'[u][l].at = 0 /\ k = 1
        BY <2>2, <2>3, <3>1 DEF Same, Job
      <4>2. 0 \in Nat /\ 1 \in Nat /\ Stacks /\ Source \in Threads /\ Replaced(Source, 1, 0)
        BY <1>1, <2>3 DEF IInv
      <4>3. \/ u = Source /\ l \in 1..1
            \/ \E m \in Places(u) : (u = Source => m > 0) /\ frames'[u][l] = frames[u][m]
        BY <4>2, Origin
      <4> QED
        BY <2>5, <4>1, <4>3
    <3> QED
      BY <1>1, <2>3, <3>1, OnceKept DEF IInv
  <2>8. \A i : /\ Todo(i)' <=> Todo(i) \/ i \in Children(0)
               /\ Begun(i)' <=> Begun(i)
               /\ i \in InUse' => i \in InUse \/ i = 0
               /\ i \in Running' => i \in Running
    <3>1. \A k \in 1..1 : /\ frames'[Source][k].todo = Children(0) /\ ~Job(frames'[Source][k])
                          /\ frames'[Source][k].op = "execute" /\ frames'[Source][k].at = 0
      BY <2>2, <2>3 DEF Job
    <3>2. 1 \in 1..1 /\ 1..0 = {}
      OBVIOUS
    <3> QED
      BY <1>1, <2>3, <3>1, <3>2, PlacesKept DEF IInv
  <2>9. \A i \in Futures : Alive'[i] => Alive[i]
    BY <1>1, <1>3, <2>8, AliveDef, AliveShrinks
  <2>10. \A i : InQueue(i)' = InQueue(i)
    BY <1>1 DEF InQueue, pvars
  <2>11. Queued'
    <3>1. ASSUME NEW i \in Stages
          PROVE  /\ result'[Parent[i]] = "pending" => result'[i] = "pending" /\ i \in action'
                 /\ Todo(i)' => result'[i] = "pending" /\ i \in action' /\ ~InQueue(i)' /\ ~Begun(i)'
                 /\ InQueue(i)' => /\ result'[i] = "pending" /\ i \in action'
                                   /\ result'[Parent[i]] # "pending" /\ ~Begun(i)'
      <4>1. i \in Futures /\ Parent[i] \in Futures /\ i # 0
        BY <1>1, Graph
      <4>2. result'[Parent[i]] = "pending" => result'[i] = "pending" /\ i \in action'
        BY <1>1, <2>4, <4>1
      <4>3. Todo(i)' => result'[i] = "pending" /\ i \in action' /\ ~InQueue(i)' /\ ~Begun(i)'
        BY <1>1, <2>4, <2>5, <2>8, <2>10, <4>1 DEF IInv, Queued
      <4>4. InQueue(i)' => /\ result'[i] = "pending" /\ i \in action'
                           /\ result'[Parent[i]] # "pending" /\ ~Begun(i)'
        BY <1>1, <2>4, <2>8, <2>10, <4>1 DEF IInv, Queued
      <4> QED
        BY <4>2, <4>3, <4>4
    <3> QED
      BY <1>1, <3>1 DEF IInv, Queued, pvars
  <2>12. Shutdown'
    <3>1. \A u \in Threads \ {Source} : frames'[u] = frames[u]
      BY <2>3 DEF Replaced
    <3>2. UNCHANGED <<closed, left, pool>>
      BY <1>1 DEF pvars
    <3> QED
      BY <1>1, <3>1, <3>2, ShutdownKept
  <2>13. Explained'
    BY <1>1, <2>4 DEF Explained, pvars
  <2>14. Expected'
    <3>1. \A i \in Stages : Parent[i] = 0 => i \in Children(0)
      BY DEF Children
    <3>2. result'[0] # "pending"
      BY <2>4
    <3> QED
      BY <1>1, <2>4, <2>8, <2>9, <2>10, <3>1, <3>2, ExpectedKept DEF IInv
  <2>15. TypeOK'
    <3>1. FramesTyped'
      BY FramesTyped, PTL
    <3> QED
      BY <1>1, <2>4, <2>6, <3>1 DEF IInv, TypeOK, pvars
  <2> QED
    BY <2>6, <2>7, <2>9, <2>11, <2>12, <2>13, <2>14, <2>15 DEF IInv
<1> QED
  BY <1>2, <1>3

\* The queue is destroyed, a task after the other.
LEMMA DestroyTaskStep ==
  ASSUME IInv, DestroyTask
  PROVE  IInv' /\ \A i \in Futures : Alive'[i] => Alive[i]
<1> DEFINE j == Head(queue)
           f == Frame("execute", j)
           g == Frame("abandon", j)
<1>1. /\ pool = "destroy" /\ Idle(Owner) /\ queue # <<>> /\ queue' = Tail(queue)
      /\ UNCHANGED <<action, held, closed, stopped, left, pool, promised>>
      /\ Owner \in Threads /\ Owner # Source /\ Owner \notin left /\ closed /\ ~promised
  BY GraphAssumption DEF DestroyTask, IInv, Shutdown, TypeOK, Threads, GraphAssumption
<1>2. /\ queue' \in Seq(Stages) /\ j \in Stages /\ InQueue(j)
      /\ \A i : InQueue(i)' => InQueue(i) /\ i # j
      /\ \A i : InQueue(i) => InQueue(i)' \/ i = j
      /\ \A k, l \in 1..Len(queue') : queue'[k] = queue'[l] => k = l
  BY <1>1, TakeOut
<1>3. \/ /\ Alive[j] /\ Replaced(Owner, 2, 0)
         /\ frames'[Owner][1] = f /\ frames'[Owner][2] = g
         /\ result' = [result EXCEPT ![j] = "broken"]
      \/ ~Alive[j] /\ frames' = frames /\ result' = result
  BY <1>2, DestroyForm DEF IInv
<1>4. /\ f \in FrameSet /\ f.op = "execute" /\ f.at = j /\ f.todo = Children(j)
      /\ g \in FrameSet /\ g.op = "abandon" /\ g.at = j /\ g.todo = {}
  BY <1>2, Frames, Graph
<1> HIDE DEF j, f, g
<1>5. /\ result[j] = "pending" /\ j \in action /\ result[Parent[j]] # "pending"
      /\ ~Begun(j) /\ ~Todo(j) /\ j \in Futures /\ j # 0
      /\ Parent[j] \in Futures /\ Parent[j] # j
  BY <1>2, Graph DEF IInv, Queued
<1>6. CASE ~Alive[j] /\ frames' = frames /\ result' = result
  <2>1. /\ Stacks' = Stacks /\ Once' = Once
        /\ \A i : Todo(i)' = Todo(i) /\ Begun(i)' = Begun(i)
        /\ InUse' = InUse /\ Running' = Running /\ AllFrames' = AllFrames
    BY <1>1, <1>6 DEF Stacks, Sound, Once, Todo, Begun, InUse, Running, AllFrames, Places
  <2>2. Queued'
    BY <1>1, <1>2, <1>6, <2>1 DEF IInv, Queued
  <2>3. Shutdown' /\ Explained'
    BY <1>1, <1>6 DEF IInv, Shutdown, Explained, Idle
  <2>4. \A i \in Futures : Alive'[i] => Alive[i]
    BY <1>1, <2>1, AliveDef, AliveShrinks
  <2>5. Expected'
    BY <1>1, <1>2, <1>6, <2>1, <2>4, ExpectedKept
  <2>6. TypeOK'
    BY <1>1, <1>2, <1>6, <2>1 DEF IInv, TypeOK
  <2> QED
    BY <2>1, <2>2, <2>3, <2>4, <2>5, <2>6 DEF IInv
<1>7. CASE /\ Alive[j] /\ Replaced(Owner, 2, 0)
           /\ frames'[Owner][1] = f /\ frames'[Owner][2] = g
           /\ result' = [result EXCEPT ![j] = "broken"]
  <2>1. /\ result' \in [Futures -> {"pending", "value", "broken"}]
        /\ result'[j] = "broken"
        /\ \A k \in Futures : k # j => result'[k] = result[k]
        /\ \A k \in Futures : result[k] # "pending" => result'[k] # "pending"
        /\ \A k \in Futures : result'[k] = "pending" => result[k] = "pending" /\ k # j
        /\ \A k \in Stages : result'[Parent[k]] = "pending" =>
                               k = j \/ (result'[k] = "pending" /\ k \in action)
        /\ \A k \in Stages : result[Parent[k]] = "pending" => Parent[k] = j \/ result'[Parent[k]] = "pending"
    BY <1>5, <1>7, Resolve
  <2>2. /\ \A c \in Children(j) : /\ c \in Stages /\ c # j /\ result[c] = "pending" /\ c \in action
                                  /\ ~Todo(c) /\ ~InQueue(c) /\ ~Begun(c)
        /\ \A u \in Threads : \A k \in Places(u) :
             frames[u][k].at = j => frames[u][k].op \notin {"execute", "abandon"}
    BY <1>5, Fresh
  <2>3. \A k \in 1..2 : k = 1 \/ k = 2
    OBVIOUS
  <2>4. Places(Owner) = {}
    BY <1>1 DEF Idle, Places
  <2>5. Stacks'
    <3>1. ASSUME NEW k \in 1..2 PROVE Sound(Owner, k)'
      <4>1. CASE k = 1
        BY <1>4, <1>7, <2>1, <4>1 DEF Sound, Job
      <4>2. CASE k = 2
        BY <1>2, <1>4, <1>7, <2>1, <4>2 DEF Sound, Job
      <4> QED
        BY <2>3, <4>1, <4>2
    <3>2. ASSUME NEW u \in Threads, NEW k \in Places(u), frames[u][k].op = "task"
          PROVE  result'[frames[u][k].at] = "pending" /\ frames[u][k].at \in action'
      <4>1. /\ result[frames[u][k].at] = "pending" /\ frames[u][k].at \in action
            /\ frames[u][k].at \in Stages /\ Job(frames[u][k])
        BY <3>2 DEF IInv, Stacks, Sound, Job
      <4>2. frames[u][k].at # j
        BY <1>5, <4>1 DEF Begun
      <4> QED
        BY <1>1, <2>1, <4>1, <4>2, Graph
    <3>3. 2 \in Nat /\ 0 \in Nat /\ \A k \in Places(Owner) : k > 0 => frames[Owner][k].op # "task"
      BY <2>4
    <3>4. action' \subseteq action
      BY <1>1
    <3> QED
      BY <1>1, <1>7, <2>1, <3>1, <3>2, <3>3, <3>4, StacksKept DEF IInv
  <2>6. Once'
    <3>1. ASSUME NEW k \in 1..2, NEW u \in Threads, NEW l \in Places(u)',
                 Same(frames'[Owner][k], frames'[u][l])
          PROVE  u = Owner /\ l = k
      <4>1. frames'[u][l].op = "execute" /\ frames'[u][l].at = j /\ k = 1
        BY <1>4, <1>7, <2>3, <3>1 DEF Same, Job
      <4>2. 0 \in Nat /\ 2 \in Nat /\ Stacks
        BY DEF IInv
      <4>3. \/ u = Owner /\ l \in 1..2
            \/ \E m \in Places(u) : (u = Owner => m > 0) /\ frames'[u][l] = frames[u][m]
        BY <1>1, <1>7, <4>2, Origin
      <4>4. ~ \E m \in Places(u) : frames'[u][l] = frames[u][m]
        BY <2>2, <4>1
      <4>5. u = Owner /\ l # 2
        BY <1>4, <1>7, <4>1, <4>3, <4>4
      <4> QED
        BY <2>3, <4>1, <4>3, <4>4, <4>5
    <3> QED
      BY <1>1, <1>7, <3>1, OnceKept DEF IInv
  <2>7. \A i : /\ Todo(i)' <=> Todo(i) \/ i \in Children(j)
               /\ Begun(i)' <=> Begun(i)
               /\ i \in InUse' => i \in InUse \/ i = j
               /\ i \in Running' => i \in Running
    <3>1. \A k \in 1..2 : /\ frames'[Owner][k].todo \subseteq Children(j) /\ ~Job(frames'[Owner][k])
                          /\ frames'[Owner][k].op # "run" /\ frames'[Owner][k].at = j
      BY <1>4, <1>7, <2>3 DEF Job
    <3>2. 1 \in 1..2 /\ 1..0 = {} /\ frames'[Owner][1].todo = Children(j)
      BY <1>4, <1>7
    <3> QED
      BY <1>1, <1>7, <3>1, <3>2, PlacesKept DEF IInv
  <2>8. \A i \in Futures : Alive'[i] => Alive[i]
    BY <1>1, <1>7, <2>7, AliveDef, AliveShrinks
  <2>9. Queued'
    <3>1. ASSUME NEW i \in Stages
          PROVE  /\ result'[Parent[i]] = "pending" => result'[i] = "pending" /\ i \in action'
                 /\ Todo(i)' => result'[i] = "pending" /\ i \in action' /\ ~InQueue(i)' /\ ~Begun(i)'
                 /\ InQueue(i)' => /\ result'[i] = "pending" /\ i \in action'
                                   /\ result'[Parent[i]] # "pending" /\ ~Begun(i)'
      <4>1. i \in Futures /\ Parent[i] \in Futures
        BY Graph
      <4>2. result'[Parent[i]] = "pending" => result'[i] = "pending" /\ i \in action'
        BY <1>1, <1>5, <2>1, <4>1
      <4>3. Todo(i)' => result'[i] = "pending" /\ i \in action' /\ ~InQueue(i)' /\ ~Begun(i)'
        BY <1>1, <1>2, <1>5, <2>1, <2>2, <2>7, <4>1 DEF IInv, Queued
      <4>4. InQueue(i)' => /\ result'[i] = "pending" /\ i \in action'
                           /\ result'[Parent[i]] # "pending" /\ ~Begun(i)'
        BY <1>1, <1>2, <2>1, <2>7, <4>1 DEF IInv, Queued
      <4> QED
        BY <4>2, <4>3, <4>4
    <3> QED
      BY <1>2, <3>1 DEF Queued
  <2>10. Shutdown'
    <3>1. \A u \in Threads \ {Owner} : frames'[u] = frames[u]
      BY <1>7 DEF Replaced
    <3> QED
      BY <1>1, <3>1, ShutdownKept
  <2>11. Explained' /\ Expected'
    <3>1. \A i \in Stages : Parent[i] = j => i \in Children(j)
      BY DEF Children
    <3> QED
      BY <1>1, <1>2, <2>1, <2>7, <2>8, <3>1, ExpectedKept DEF IInv, Explained
  <2>12. TypeOK'
    <3>1. FramesTyped'
      BY FramesTyped, PTL
    <3> QED
      BY <1>1, <1>2, <2>1, <2>5, <3>1 DEF IInv, TypeOK
  <2> QED
    BY <2>5, <2>6, <2>8, <2>9, <2>10, <2>11, <2>12 DEF IInv
<1> QED
  BY <1>3, <1>6, <1>7

\* A thread calls a continuation: posted, or skipped as nobody wants it.
LEMMA PostStep ==
  ASSUME IInv, NEW t \in Threads, NEW j \in Stages, CallContinuation(t, j), ~closed \/ ~Alive[j]
  PROVE  IInv' /\ \A i \in Futures : Alive'[i] => Alive[i]
<1> DEFINE p == frames[t][1].at
<1>1. /\ 1 \in Places(t) /\ frames[t][1].op = "execute" /\ p \in Futures
      /\ j \in frames[t][1].todo /\ Sound(t, 1)
      /\ Replaced(t, 1, 1) /\ Marked(frames'[t][1], frames[t][1], j)
      /\ result' = result
      /\ queue' = IF Alive[j] THEN IF closed THEN queue ELSE Append(queue, j) ELSE queue
  BY CallForm DEF IInv
<1>2. UNCHANGED <<action, held, closed, stopped, left, pool, promised>> /\ In(t, "execute")
  BY DEF CallContinuation
<1>3. /\ ~Idle(t) /\ t \notin left /\ pool # "destroyed"
      /\ t = Source => ~promised /\ pool # "destroy"
  BY <1>2, InCall
<1>4. /\ Todo(j) /\ result[j] = "pending" /\ j \in action /\ ~InQueue(j) /\ ~Begun(j)
      /\ result[Parent[j]] # "pending"
  <2>1. Todo(j)
    BY <1>1 DEF Todo
  <2>2. p = Parent[j]
    BY <1>1, Graph DEF Sound
  <2> QED
    BY <1>1, <2>1, <2>2 DEF IInv, Queued, Sound
<1>5. /\ frames'[t][1].op = "execute" /\ frames'[t][1].at = p
      /\ frames'[t][1].todo = frames[t][1].todo \ {j}
  BY <1>1 DEF Marked
<1>6. \A k \in 1..1 : k = 1
  OBVIOUS
<1>7. Stacks'
  <2>1. ASSUME NEW k \in 1..1 PROVE Sound(t, k)'
    BY <1>1, <1>5, <1>6 DEF Sound, Job
  <2>2. ASSUME NEW u \in Threads, NEW k \in Places(u), frames[u][k].op = "task"
        PROVE  result'[frames[u][k].at] = "pending" /\ frames[u][k].at \in action'
    BY <1>1, <1>2, <2>2 DEF IInv, Stacks, Sound
  <2>3. \A k \in Places(t) : k > 1 => frames[t][k].op # "task"
    BY DEF IInv, Stacks, Sound
  <2> QED
    BY <1>1, <1>2, <2>1, <2>2, <2>3, StacksKept DEF IInv
<1>8. Once'
  <2>1. ASSUME NEW k \in 1..1, NEW u \in Threads, NEW l \in Places(u)',
               Same(frames'[t][k], frames'[u][l])
        PROVE  u = t /\ l = k
    <3>1. frames'[u][l].op = "execute" /\ frames'[u][l].at = p /\ k = 1
      BY <1>5, <1>6, <2>1 DEF Same, Job
    <3>2. 1 \in Nat /\ Stacks
      BY DEF IInv
    <3>3. \/ u = t /\ l \in 1..1
          \/ \E m \in Places(u) : (u = t => m > 1) /\ frames'[u][l] = frames[u][m]
      BY <1>1, <3>2, Origin
    <3>4. ASSUME NEW m \in Places(u), u = t => m > 1, frames'[u][l] = frames[u][m]
          PROVE  FALSE
      <4>1. Same(frames[t][1], frames[u][m])
        BY <1>1, <3>1, <3>4 DEF Same
      <4>2. u = t /\ m = 1
        BY <1>1, <4>1 DEF IInv, Once
      <4> QED
        BY <3>4, <4>2
    <3> QED
      BY <1>6, <3>1, <3>3, <3>4
  <2> QED
    BY <1>1, <2>1, OnceKept DEF IInv
<1>9. \A i : /\ Todo(i)' => Todo(i)
             /\ Todo(i) => Todo(i)' \/ i = j
             /\ Begun(i)' <=> Begun(i)
             /\ i \in InUse' => i \in InUse
             /\ i \in Running' => i \in Running
  <2>1. p \in InUse
    <3>1. frames[t][1] \in AllFrames
      BY <1>1 DEF AllFrames, Places
    <3> QED
      BY <1>1, <3>1 DEF InUse
  <2>2. \A i \in frames[t][1].todo : Todo(i) /\ (i # j => i \in frames'[t][1].todo)
    BY <1>1, <1>5 DEF Todo
  <2>3. /\ ~Job(frames[t][1]) /\ ~Job(frames'[t][1]) /\ frames'[t][1].todo \subseteq frames[t][1].todo
        /\ 1 \in 1..1
    BY <1>1, <1>5 DEF Job
  <2> HIDE DEF p
  <2> QED
    BY <1>1, <1>5, <1>6, <2>1, <2>2, <2>3, PlacesKept DEF IInv
<1>10. ~Todo(j)'
  <2> SUFFICES ASSUME NEW u \in Threads, NEW l \in Places(u)', j \in frames'[u][l].todo PROVE FALSE
    BY DEF Todo
  <2>1. 1 \in Nat /\ Stacks
    BY DEF IInv
  <2>2. \/ u = t /\ l \in 1..1
        \/ \E m \in Places(u) : (u = t => m > 1) /\ frames'[u][l] = frames[u][m]
    BY <1>1, <2>1, Origin
  <2>3. ~(u = t /\ l \in 1..1)
    BY <1>5, <1>6
  <2>4. PICK m \in Places(u) : (u = t => m > 1) /\ frames'[u][l] = frames[u][m]
    BY <2>2, <2>3
  <2>5. t = u /\ 1 = m
    BY <1>1, <2>4, TodoOnce
  <2> QED
    BY <2>4, <2>5
<1>11. \A i \in Futures : Alive'[i] => Alive[i]
  BY <1>2, <1>9, AliveDef, AliveShrinks
<1>12. /\ queue' \in Seq(Stages)
       /\ \A i : InQueue(i)' => InQueue(i) \/ i = j
       /\ \A i : InQueue(i) => InQueue(i)'
       /\ Alive[j] => InQueue(j)'
       /\ \A k, l \in 1..Len(queue') : queue'[k] = queue'[l] => k = l
  <2>1. CASE Alive[j]
    BY <1>1, <1>4, <2>1, PutIn
  <2>2. CASE ~Alive[j]
    BY <1>1, <2>2 DEF IInv, TypeOK, Queued, InQueue
  <2> QED
    BY <2>1, <2>2
<1>13. Queued'
  BY <1>1, <1>2, <1>4, <1>9, <1>10, <1>12 DEF IInv, Queued
<1>14. Shutdown'
  <2>1. \A u \in Threads \ {t} : frames'[u] = frames[u]
    BY <1>1 DEF Replaced
  <2> QED
    BY <1>1, <1>2, <1>3, <2>1, ShutdownKept
<1>15. Explained' /\ Expected'
  BY <1>1, <1>2, <1>9, <1>11, <1>12, ExpectedKept DEF IInv, Explained
<1>16. TypeOK'
  <2>1. FramesTyped'
    BY FramesTyped, PTL
  <2> QED
    BY <1>1, <1>2, <1>7, <1>12, <2>1 DEF IInv, TypeOK
<1> QED
  BY <1>7, <1>8, <1>11, <1>13, <1>14, <1>15, <1>16 DEF IInv

\* A closed queue refuses it: its future is resolved on top of the call.
LEMMA RefuseStep ==
  ASSUME IInv, NEW t \in Threads, NEW j \in Stages, CallContinuation(t, j), closed, Alive[j]
  PROVE  IInv' /\ \A i \in Futures : Alive'[i] => Alive[i]
<1> DEFINE p == frames[t][1].at
           f == Frame("execute", j)
           g == Frame("abandon", j)
<1>1. /\ 1 \in Places(t) /\ frames[t][1].op = "execute" /\ p \in Futures
      /\ j \in frames[t][1].todo /\ Sound(t, 1)
      /\ Replaced(t, 3, 1) /\ frames'[t][1] = f /\ frames'[t][2] = g
      /\ Marked(frames'[t][3], frames[t][1], j)
      /\ result' = [result EXCEPT ![j] = "broken"] /\ queue' = queue
  BY CallForm DEF IInv
<1>2. UNCHANGED <<action, held, closed, stopped, left, pool, promised>> /\ In(t, "execute")
  BY DEF CallContinuation
<1>3. /\ ~Idle(t) /\ t \notin left /\ pool # "destroyed"
      /\ t = Source => ~promised /\ pool # "destroy"
  BY <1>2, InCall
<1>4. /\ Todo(j) /\ result[j] = "pending" /\ j \in action /\ ~InQueue(j) /\ ~Begun(j)
      /\ p = Parent[j] /\ result[p] # "pending" /\ p # j /\ j \in Futures /\ j # 0
  <2>1. Todo(j)
    BY <1>1 DEF Todo
  <2>2. p = Parent[j] /\ p # j /\ j \in Futures /\ j # 0
    BY <1>1, Graph DEF Sound
  <2> QED
    BY <1>1, <2>1, <2>2 DEF IInv, Queued, Sound
<1>5. /\ frames'[t][3].op = "execute" /\ frames'[t][3].at = p
      /\ frames'[t][3].todo = frames[t][1].todo \ {j}
      /\ f.op = "execute" /\ f.at = j /\ f.todo = Children(j)
      /\ g.op = "abandon" /\ g.at = j /\ g.todo = {}
  BY <1>1, <1>4, Frames DEF Marked
<1> HIDE DEF p, f, g
<1>6. /\ \A k \in 1..3 : k = 1 \/ k = 2 \/ k = 3
      /\ \A k \in 1..1 : k = 1
      /\ 1 \in Nat /\ 3 \in Nat
  OBVIOUS
<1>7. /\ result' \in [Futures -> {"pending", "value", "broken"}]
      /\ result'[j] = "broken"
      /\ \A k \in Futures : k # j => result'[k] = result[k]
      /\ \A k \in Futures : result[k] # "pending" => result'[k] # "pending"
      /\ \A k \in Futures : result'[k] = "pending" => result[k] = "pending" /\ k # j
      /\ \A k \in Stages : result'[Parent[k]] = "pending" =>
                             k = j \/ (result'[k] = "pending" /\ k \in action)
      /\ \A k \in Stages : result[Parent[k]] = "pending" => Parent[k] = j \/ result'[Parent[k]] = "pending"
  BY <1>1, <1>4, Resolve
<1>8. /\ \A c \in Children(j) : /\ c \in Stages /\ c # j /\ result[c] = "pending" /\ c \in action
                                /\ ~Todo(c) /\ ~InQueue(c) /\ ~Begun(c)
      /\ \A u \in Threads : \A k \in Places(u) :
           frames[u][k].at = j => frames[u][k].op \notin {"execute", "abandon"}
  BY <1>4, Fresh
<1>9. Stacks'
  <2>1. ASSUME NEW k \in 1..3 PROVE Sound(t, k)'
    <3>1. CASE k = 1
      BY <1>1, <1>5, <1>7, <3>1 DEF Sound, Job
    <3>2. CASE k = 2
      BY <1>1, <1>5, <1>7, <3>2 DEF Sound, Job
    <3>3. CASE k = 3
      <4>1. result'[p] # "pending" /\ frames[t][1].todo \subseteq Children(p)
        BY <1>1, <1>4, <1>7 DEF Sound, p
      <4> QED
        BY <1>5, <3>3, <4>1 DEF Sound, Job
    <3> QED
      BY <1>6, <3>1, <3>2, <3>3
  <2>2. ASSUME NEW u \in Threads, NEW k \in Places(u), frames[u][k].op = "task"
        PROVE  result'[frames[u][k].at] = "pending" /\ frames[u][k].at \in action'
    <3>1. /\ result[frames[u][k].at] = "pending" /\ frames[u][k].at \in action
          /\ frames[u][k].at \in Stages /\ Job(frames[u][k])
      BY <2>2 DEF IInv, Stacks, Sound, Job
    <3>2. frames[u][k].at # j
      BY <1>4, <3>1 DEF Begun
    <3> QED
      BY <1>2, <1>7, <3>1, <3>2, Graph
  <2>3. \A k \in Places(t) : k > 1 => frames[t][k].op # "task"
    BY DEF IInv, Stacks, Sound
  <2> QED
    BY <1>1, <1>2, <1>6, <1>7, <2>1, <2>2, <2>3, StacksKept DEF IInv
<1>10. Once'
  <2>1. ASSUME NEW k \in 1..3, NEW u \in Threads, NEW l \in Places(u)',
               Same(frames'[t][k], frames'[u][l])
        PROVE  u = t /\ l = k
    <3>1. /\ \/ u = t /\ l \in 1..3
             \/ \E m \in Places(u) : (u = t => m > 1) /\ frames'[u][l] = frames[u][m]
      <4>1. Stacks
        BY DEF IInv
      <4> QED
        BY <1>1, <1>6, <4>1, Origin
    <3>2. frames'[u][l].op = "execute" /\ frames'[u][l].at = frames'[t][k].at
      BY <1>1, <1>5, <1>6, <2>1 DEF Same, Job
    <3>3. CASE k = 1
      <4>1. frames'[u][l].at = j
        BY <1>1, <1>5, <3>2, <3>3
      <4>2. ~ \E m \in Places(u) : frames'[u][l] = frames[u][m]
        BY <1>8, <3>2, <4>1
      <4>3. u = t /\ l \in 1..3
        BY <3>1, <4>2
      <4>4. l # 2 /\ l # 3
        BY <1>1, <1>4, <1>5, <3>2, <4>1, <4>3
      <4> QED
        BY <1>6, <3>3, <4>3, <4>4
    <3>4. k # 2
      BY <1>1, <1>5, <2>1 DEF Same, Job
    <3>5. CASE k = 3
      <4>1. frames'[u][l].at = p
        BY <1>5, <3>2, <3>5
      <4>2. ASSUME NEW m \in Places(u), u = t => m > 1, frames'[u][l] = frames[u][m]
            PROVE  FALSE
        <5>1. Same(frames[t][1], frames[u][m])
          BY <1>1, <3>2, <4>1, <4>2 DEF Same, p
        <5>2. u = t /\ m = 1
          BY <1>1, <5>1 DEF IInv, Once
        <5> QED
          BY <4>2, <5>2
      <4>3. u = t /\ l \in 1..3
        BY <3>1, <4>2
      <4>4. l # 1 /\ l # 2
        BY <1>1, <1>4, <1>5, <3>2, <4>1, <4>3
      <4> QED
        BY <1>6, <3>5, <4>3, <4>4
    <3> QED
      BY <1>6, <3>3, <3>4, <3>5
  <2> QED
    BY <1>1, <1>6, <2>1, OnceKept DEF IInv
<1>11. \A i : /\ Todo(i)' => Todo(i) \/ i \in Children(j)
              /\ i \in Children(j) => Todo(i)'
              /\ Todo(i) => Todo(i)' \/ i = j
              /\ Begun(i)' <=> Begun(i)
              /\ i \in InUse' => i \in InUse \/ i = j
              /\ i \in Running' => i \in Running
  <2>1. p \in InUse
    <3>1. frames[t][1] \in AllFrames
      BY <1>1 DEF AllFrames, Places
    <3> QED
      BY <1>1, <3>1 DEF InUse, p
  <2>2. \A i \in frames[t][1].todo : Todo(i) /\ (i # j => i \in frames'[t][3].todo)
    BY <1>1, <1>5 DEF Todo
  <2>3. \A k \in 1..3 : /\ \A i \in frames'[t][k].todo : Todo(i) \/ i \in Children(j)
                        /\ ~Job(frames'[t][k]) /\ frames'[t][k].op # "run"
                        /\ frames'[t][k].at = j \/ frames'[t][k].at = p
    <3>1. \A i \in frames'[t][3].todo : Todo(i)
      BY <1>5, <2>2
    <3> QED
      BY <1>1, <1>5, <1>6, <3>1 DEF Job
  <2>4. /\ \A k \in 1..1 : ~Job(frames[t][k]) /\ frames[t][k] = frames[t][1]
        /\ 1 \in 1..3 /\ 3 \in 1..3 /\ frames'[t][1].todo = Children(j)
    BY <1>1, <1>5, <1>6 DEF Job
  <2> QED
    BY <1>1, <1>6, <2>1, <2>2, <2>3, <2>4, PlacesKept DEF IInv
<1>12. ~Todo(j)'
  <2> SUFFICES ASSUME NEW u \in Threads, NEW l \in Places(u)', j \in frames'[u][l].todo PROVE FALSE
    BY DEF Todo
  <2>1. \/ u = t /\ l \in 1..3
        \/ \E m \in Places(u) : (u = t => m > 1) /\ frames'[u][l] = frames[u][m]
    <3>1. Stacks
      BY DEF IInv
    <3> QED
      BY <1>1, <1>6, <3>1, Origin
  <2>2. ~(u = t /\ l \in 1..3)
    BY <1>1, <1>5, <1>6, <1>8
  <2>3. PICK m \in Places(u) : (u = t => m > 1) /\ frames'[u][l] = frames[u][m]
    BY <2>1, <2>2
  <2>4. t = u /\ 1 = m
    BY <1>1, <2>3, TodoOnce
  <2> QED
    BY <2>3, <2>4
<1>13. \A i \in Futures : Alive'[i] => Alive[i]
  BY <1>2, <1>11, AliveDef, AliveShrinks
<1>14. \A i : InQueue(i)' = InQueue(i)
  BY <1>1 DEF InQueue
<1>15. Queued'
  <2>1. ASSUME NEW i \in Stages
        PROVE  /\ result'[Parent[i]] = "pending" => result'[i] = "pending" /\ i \in action'
               /\ Todo(i)' => result'[i] = "pending" /\ i \in action' /\ ~InQueue(i)' /\ ~Begun(i)'
               /\ InQueue(i)' => /\ result'[i] = "pending" /\ i \in action'
                                 /\ result'[Parent[i]] # "pending" /\ ~Begun(i)'
    <3>1. i \in Futures /\ Parent[i] \in Futures
      BY Graph
    <3>2. result'[Parent[i]] = "pending" => result'[i] = "pending" /\ i \in action'
      BY <1>2, <1>4, <1>7, <3>1
    <3>3. Todo(i)' => result'[i] = "pending" /\ i \in action' /\ ~InQueue(i)' /\ ~Begun(i)'
      BY <1>2, <1>7, <1>8, <1>11, <1>12, <1>14, <3>1 DEF IInv, Queued
    <3>4. InQueue(i)' => /\ result'[i] = "pending" /\ i \in action'
                         /\ result'[Parent[i]] # "pending" /\ ~Begun(i)'
      BY <1>2, <1>4, <1>7, <1>11, <1>14, <3>1 DEF IInv, Queued
    <3> QED
      BY <3>2, <3>3, <3>4
  <2> QED
    BY <1>1, <2>1 DEF IInv, Queued
<1>16. Shutdown'
  <2>1. \A u \in Threads \ {t} : frames'[u] = frames[u]
    BY <1>1 DEF Replaced
  <2>2. result'[0] = result[0]
    BY <1>4, <1>7, Graph DEF Futures
  <2> QED
    BY <1>2, <1>3, <2>1, <2>2, ShutdownKept
<1>17. Explained' /\ Expected'
  <2>1. \A i \in Stages : Parent[i] = j => i \in Children(j)
    BY DEF Children
  <2> QED
    BY <1>2, <1>7, <1>11, <1>13, <1>14, <2>1, ExpectedKept DEF IInv, Explained
<1>18. TypeOK'
  <2>1. FramesTyped'
    BY FramesTyped, PTL
  <2> QED
    BY <1>1, <1>2, <1>7, <1>9, <2>1 DEF IInv, TypeOK
<1> QED
  BY <1>9, <1>10, <1>13, <1>15, <1>16, <1>17, <1>18 DEF IInv
-----------------------------------------------------------------------------
\* The theorems.

LEMMA InitInv ==
  Init => IInv
<1> SUFFICES ASSUME Init PROVE IInv
  OBVIOUS
<1>1. frames \in [Threads -> Seq(FrameSet)] /\ \A t \in Threads : Places(t) = {} /\ Idle(t)
  BY DEF Init, Places, Idle
<1>2. queue = <<>> /\ queue \in Seq(Stages) /\ 1..Len(queue) = {}
  BY DEF Init
<1>3. \A j : ~Todo(j) /\ ~Begun(j) /\ ~InQueue(j)
  BY <1>1, <1>2 DEF Todo, Begun, InQueue
<1>4. AllFrames = {}
  BY <1>1 DEF AllFrames, Places
<1>5. /\ result = [i \in Futures |-> "pending"] /\ action = Stages /\ held \subseteq Stages
      /\ closed = FALSE /\ stopped = FALSE /\ left = {} /\ pool = "open" /\ promised = TRUE
  BY DEF Init, Leaves
<1>6. \A j \in Stages : result[j] = "pending" /\ result[Parent[j]] = "pending"
  BY <1>5, Graph
<1>7. TypeOK
  BY <1>2, <1>4, <1>5 DEF TypeOK
<1>8. Stacks /\ Once
  BY <1>1 DEF Stacks, Once
<1>9. Queued
  BY <1>2, <1>3, <1>5, <1>6 DEF Queued
<1>10. Shutdown
  BY <1>1, <1>5, Graph DEF Shutdown, Threads, Futures
<1>11. Explained /\ Expected
  BY <1>5, <1>6 DEF Explained, Expected
<1> QED
  BY <1>7, <1>8, <1>9, <1>10, <1>11 DEF IInv

LEMMA Inductive ==
  IInv /\ [Next]_vars => IInv' /\ \A i \in Futures : Alive'[i] => Alive[i]
<1> SUFFICES ASSUME IInv, [Next]_vars
             PROVE  IInv' /\ \A i \in Futures : Alive'[i] => Alive[i]
  OBVIOUS
<1>1. CASE \E r \in {"value", "broken"} : UsePromise(r)
  BY <1>1, UsePromiseStep
<1>2. ASSUME NEW t \in Threads, Resolving(t)
      PROVE  IInv' /\ \A i \in Futures : Alive'[i] => Alive[i]
  <2>1. CASE \E j \in Stages : CallContinuation(t, j)
    <3>1. PICK j \in Stages : CallContinuation(t, j)
      BY <2>1
    <3> QED
      BY <3>1, PostStep, RefuseStep
  <2>2. CASE EndExecute(t) \/ EndAbandon(t)
    BY <2>2, ReturnStep
  <2> QED
    BY <1>2, <2>1, <2>2 DEF Resolving
<1>3. ASSUME NEW t \in Workers, Working(t)
      PROVE  IInv' /\ \A i \in Futures : Alive'[i] => Alive[i]
  <2>1. CASE Take(t)
    BY <2>1, TakeStep
  <2>2. CASE Run(t)
    BY <2>2, RunStep
  <2>3. CASE \E r \in {"value", "broken"} : SetResult(t, r)
    BY <2>3, SetResultStep
  <2>4. CASE EndRun(t)
    BY <2>4, EndRunStep
  <2>5. CASE LeaveLoop(t)
    BY <2>5, OwnerStep
  <2> QED
    BY <1>3, <2>1, <2>2, <2>3, <2>4, <2>5 DEF Working
<1>4. CASE DestroyTask
  BY <1>4, DestroyTaskStep
<1>5. CASE \/ Stop \/ Wait \/ Joined \/ Destroy \/ Destroyed
           \/ \E i \in Stages : DropFuture(i)
           \/ UNCHANGED vars
  BY <1>5, OwnerStep
<1> QED
  BY <1>1, <1>2, <1>3, <1>4, <1>5 DEF Next, Owning, Terminated

\* Whatever the graph of continuations and the number of workers, the stacks
\* of the threads, the queue and the results fit together: post(), cnt_state::run
\* and abandon meet every continuation once, in this order, and a living future
\* without a result has somebody who will resolve it.
THEOREM GraphIsSound ==
  Spec => []IInv
<1>1. Init => IInv
  BY InitInv
<1>2. IInv /\ [Next]_vars => IInv'
  BY Inductive
<1> QED
  BY <1>1, <1>2, PTL DEF Spec

\* Everything that happens to a continuation follows from its parent's result
\* and the pool: schedule posts it after the parent is resolved and at most
\* once, and only a closed queue or a broken parent breaks its promise.
THEOREM GraphExplains ==
  Spec => []ResultsAreExplained
<1>1. IInv => ResultsAreExplained
  <2> SUFFICES ASSUME IInv PROVE ResultsAreExplained
    OBVIOUS
  <2>1. ASSUME NEW i \in Running PROVE result[Parent[i]] # "pending"
    <3>1. \E t \in Threads : \E k \in Places(t) : frames[t][k].op = "run" /\ frames[t][k].at = i
      BY DEF Running, AllFrames, Places
    <3> QED
      BY <3>1 DEF IInv, Stacks, Sound, Job
  <2>2. ASSUME NEW k \in 1..Len(queue)
        PROVE  result[queue[k]] = "pending" /\ queue[k] \notin InUse
    <3>1. queue[k] \in Stages /\ InQueue(queue[k]) /\ queue[k] \in Futures
      BY Graph DEF IInv, TypeOK, InQueue
    <3>2. result[queue[k]] = "pending" /\ ~Begun(queue[k])
      BY <3>1 DEF IInv, Queued
    <3>3. ASSUME NEW t \in Threads, NEW l \in Places(t), frames[t][l].op # "task",
                 frames[t][l].at = queue[k]
          PROVE  FALSE
      <4>1. frames[t][l] \in FrameSet
        BY DEF IInv, Stacks, Places
      <4>2. frames[t][l].op = "run"
        BY <3>1, <3>2, <3>3, <4>1, Fresh DEF FrameSet
      <4> QED
        BY <3>2, <3>3, <4>2 DEF Begun, Job
    <3>4. queue[k] \notin InUse
      BY <3>3 DEF InUse, AllFrames, Places
    <3> QED
      BY <3>2, <3>4
  <2> QED
    BY <2>1, <2>2 DEF IInv, Queued, Explained, ResultsAreExplained
<1> QED
  BY <1>1, GraphIsSound, PTL

\* After the destructor of static_thread_pool no thread is in a call, and no
\* held future waits for a task that was in the queue: the parent of a living
\* future without a result would be another one, with a lesser number.
THEOREM DestructionIsFinal ==
  Spec => []DestroyedIsFinal
<1>1. IInv => DestroyedIsFinal
  <2> SUFFICES ASSUME IInv, pool = "destroyed" PROVE DestroyedIsFinal
    BY DEF DestroyedIsFinal
  <2>1. \A t \in Threads : Idle(t)
    BY DEF IInv, Shutdown, Threads
  <2>2. ~promised /\ queue = <<>> /\ \A j : ~Todo(j) /\ ~InQueue(j) /\ ~Begun(j)
    BY <2>1 DEF IInv, Shutdown, Idle, Todo, InQueue, Begun, Places
  <2> DEFINE S == {i \in Futures : Alive[i] /\ result[i] = "pending"}
  <2>3. CASE S # {}
    <3>1. PICK m \in S : \A k \in S : m <= k
      <4>1. S \in SUBSET (0..N)
        BY Graph
      <4> HIDE DEF S
      <4> QED
        BY <2>3, <4>1, Least, Graph
    <3>2. m # 0
      BY <2>2, <3>1 DEF IInv, Expected
    <3>3. m \in Stages
      BY <3>1, <3>2, Graph
    <3>4. /\ result[Parent[m]] = "pending" /\ m \in action
          /\ Parent[m] \in Futures /\ Parent[m] < m /\ m \in Children(Parent[m])
      BY <2>2, <3>1, <3>3, Graph DEF IInv, Expected, Queued
    <3>5. Parent[m] \in S
      BY <3>1, <3>4, AliveDef
    <3>6. ~(m <= Parent[m])
      BY <3>1, <3>4, Graph
    <3> QED
      BY <3>1, <3>5, <3>6
  <2>4. CASE S = {}
    <3>1. \A i \in held : i \in Futures /\ Alive[i]
      BY AliveDef, Graph DEF IInv, TypeOK
    <3> QED
      BY <2>1, <2>4, <3>1 DEF DestroyedIsFinal
  <2> QED
    BY <2>3, <2>4
<1> QED
  BY <1>1, GraphIsSound, PTL

\* A future nobody owns has no way back: weak_ptr::lock in schedule, run and
\* abandon fails for ever after, so a continuation that was skipped once is
\* not missed by anybody.
THEOREM TheDeadStayDead ==
  Spec => [][\A i \in Futures : Alive'[i] => Alive[i]]_vars
<1>1. IInv /\ [Next]_vars => [\A i \in Futures : Alive'[i] => Alive[i]]_vars
  BY Inductive
<1> QED
  BY <1>1, GraphIsSound, PTL DEF Spec
=============================================================================
