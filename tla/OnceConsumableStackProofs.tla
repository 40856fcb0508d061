--------------------- MODULE OnceConsumableStackProofs ---------------------
(***************************************************************************)
(* Proofs about OnceConsumableStack for any set of pushers, finite or not. *)
(*                                                                         *)
(* The argument rests on the history variable order, the successful pushes *)
(* in the order of their compare-exchange.  Shape says that the pointer    *)
(* structure is exactly that sequence read backwards, Walk that the loop   *)
(* of execute and then the deleter go down it from the top, Views that     *)
(* head_ publishes everything that was done before it was last changed.    *)
(***************************************************************************)
EXTENDS OnceConsumableStack, TLAPS

\* The node at position i of the stack, counted from the bottom.
At(i) == IF i = 0 THEN NULL ELSE order[i]

\* Pushed nodes form the linked list order describes; a pusher owns its node
\* exactly while it tries to link it.
Shape ==
  /\ \A i, j \in 1..Len(order) : order[i] = order[j] => i = j
  /\ \A p \in Pushers :
       (\E i \in 1..Len(order) : order[i] = p) <=> node[p] \in {"linked", "freed"}
  /\ \A i \in 1..Len(order) : next[order[i]] = At(i - 1)
  /\ \A p \in Pushers :
       /\ node[p] = "owned" <=> pc[p] = "cas"
       /\ node[p] \in {"linked", "freed"} => pc[p] = "done"

\* Which node head_ and the detached list start at, and when the stack is
\* consumed or destroyed.
Anchors ==
  /\ head # CONSUMED => head = At(Len(order))
  /\ phase # "idle" => list = At(Len(order))
  /\ phase = "idle" => head # CONSUMED
  /\ phase # "idle" => head = CONSUMED \/ destroyed
  /\ phase = "run" => head = CONSUMED
  /\ destroyed => \A p \in Pushers : pc[p] \in {"start", "done"}
  /\ \A p \in Pushers :
       pc[p] = "call" \/ (pc[p] = "done" /\ node[p] = "none") \/ observed[p]
         => head = CONSUMED

\* Everything above position k has been called, nothing at or below it.
CalledDownTo(k) ==
  \A i \in 1..Len(order) : calls[order[i]] = IF i > k THEN 1 ELSE 0

\* Everything above position k has been deleted, nothing at or below it.
FreedDownTo(k) ==
  \A i \in 1..Len(order) :
    node[order[i]] = IF i > k THEN "freed" ELSE "linked"

\* Where execute's loop may have stopped; without a consume it never ran.
StopsAt(m) ==
  IF head = CONSUMED
    THEN m = 0 \/ (m < Len(order) /\ order[m + 1] \in Throwing)
    ELSE m = Len(order)

\* How far the loop and the deleter have come down the list.
Walk ==
  /\ \A p \in Pushers :
       node[p] \in {"none", "owned"} =>
         calls[p] = IF pc[p] = "done" THEN 1 ELSE 0
  /\ phase = "idle" => FreedDownTo(Len(order)) /\ CalledDownTo(Len(order))
  /\ phase = "run" =>
       /\ FreedDownTo(Len(order))
       /\ \E k \in 0..Len(order) : cursor = At(k) /\ CalledDownTo(k)
  /\ phase \in {"free", "done"} =>
       \E m \in 0..Len(order) : CalledDownTo(m) /\ StopsAt(m)
  /\ phase = "free" =>
       \E k \in 0..Len(order) : cursor = At(k) /\ FreedDownTo(k)
  /\ phase = "done" => FreedDownTo(0)

\* What the acquire and release accesses to head_ carry.
Views ==
  /\ \A t \in Threads : t \in sees[t]
  /\ head = CONSUMED => Consumer \in headView
  /\ \A i \in 1..Len(order) : order[i] \in headView
  /\ head = CONSUMED => \A i \in 1..Len(order) : order[i] \in sees[Consumer]
  /\ \A p \in Pushers :
       /\ observed[p] \/ pc[p] = "call" => Consumer \in sees[p]
       /\ observed[p] => node[p] = "none"

\* The inductive invariant.
IInv == TypeOK /\ Shape /\ Anchors /\ Walk /\ Views

-----------------------------------------------------------------------------

\* The elements of order are pushers, and their number is a natural.
LEMMA OrderType ==
  ASSUME TypeOK
  PROVE  /\ Len(order) \in Nat
         /\ \A i \in 1..Len(order) : order[i] \in Pushers
         /\ \A i \in 0..Len(order) : At(i) \in Pushers \cup {NULL}
BY DEF TypeOK, At

\* Appending a node leaves the older ones in place.
LEMMA AppendOrder ==
  ASSUME TypeOK, NEW p \in Pushers, order' = Append(order, p)
  PROVE  /\ Len(order') = Len(order) + 1
         /\ order' \in Seq(Pushers)
         /\ order'[Len(order) + 1] = p
         /\ \A i \in 1..Len(order) : order'[i] = order[i]
BY DEF TypeOK

\* The initial state satisfies the inductive invariant.
LEMMA InitInv == Init => IInv
<1> SUFFICES ASSUME Init PROVE IInv
  OBVIOUS
<1> USE StackAssumption DEF StackAssumption, Init
<1>1. order = <<>> /\ Len(order) = 0 /\ order \in Seq(Pushers)
  OBVIOUS
<1>2. TypeOK
  BY <1>1 DEF TypeOK, Threads
<1>3. Shape
  BY <1>1 DEF Shape
<1>4. Anchors
  BY <1>1 DEF Anchors, At
<1>5. Walk
  BY <1>1 DEF Walk, FreedDownTo, CalledDownTo
<1>6. Views
  BY <1>1 DEF Views, Threads
<1> QED
  BY <1>2, <1>3, <1>4, <1>5, <1>6 DEF IInv

\* Every step keeps the variables in their types; the interesting case is
\* consume, which must not take the marker for a list.
LEMMA TypeStep == IInv /\ [Next]_vars => TypeOK'
<1> SUFFICES ASSUME IInv, [Next]_vars PROVE TypeOK'
  OBVIOUS
<1> USE StackAssumption DEF StackAssumption, IInv, TypeOK, Threads
<1>1. ASSUME NEW p \in Pushers, PusherStep(p) PROVE TypeOK'
  <2>1. CASE IsConsumed(p)
    BY <2>1 DEF IsConsumed, AcquireHead
  <2>2. CASE PushLoad(p)
    <3>1. CASE head = CONSUMED
      BY <2>2, <3>1 DEF PushLoad, AcquireHead
    <3>2. CASE head # CONSUMED
      <4>1. next' \in [Pushers -> Pushers \cup {NULL}]
        BY <2>2, <3>2 DEF PushLoad
      <4>2. sees' \in [Threads -> SUBSET Threads] /\ UNCHANGED headView
        BY <2>2 DEF PushLoad, AcquireHead
      <4> QED
        BY <2>2, <3>2, <4>1, <4>2 DEF PushLoad
    <3> QED
      BY <3>1, <3>2
  <2>3. CASE PushCasSucceeds(p)
    BY <2>3, AppendOrder DEF PushCasSucceeds, AcqRelHead
  <2>4. CASE PushCasFails(p)
    BY <2>4 DEF PushCasFails, AcquireHead
  <2>5. CASE CallInline(p)
    BY <2>5 DEF CallInline
  <2> QED
    BY <1>1, <2>1, <2>2, <2>3, <2>4, <2>5 DEF PusherStep
<1>2. CASE Consume
  BY <1>2 DEF Consume, AcqRelHead, Anchors
<1>3. CASE CallNext
  BY <1>3 DEF CallNext
<1>4. CASE LoopEnds
  BY <1>4 DEF LoopEnds
<1>5. CASE DeleteNode
  BY <1>5 DEF DeleteNode
<1>6. CASE Destroy
  BY <1>6 DEF Destroy
<1>7. CASE UNCHANGED vars
  BY <1>7 DEF vars
<1> QED
  BY <1>1, <1>2, <1>3, <1>4, <1>5, <1>6, <1>7 DEF Next, ListStep, Terminated

\* The linked list stays the reverse of the push history.
LEMMA ShapeStep == IInv /\ [Next]_vars => Shape'
<1> SUFFICES ASSUME IInv, [Next]_vars PROVE Shape'
  OBVIOUS
<1> USE StackAssumption, OrderType DEF StackAssumption, IInv
<1>1. ASSUME NEW p \in Pushers, PusherStep(p) PROVE Shape'
  <2>1. CASE IsConsumed(p)
    BY <2>1 DEF IsConsumed, Shape, At
  <2>2. CASE PushLoad(p)
    BY <2>2 DEF PushLoad, Shape, At, TypeOK
  <2>3. CASE PushCasSucceeds(p)
    <3>1. /\ Len(order') = Len(order) + 1
          /\ order'[Len(order) + 1] = p
          /\ \A i \in 1..Len(order) : order'[i] = order[i]
      BY <2>3, AppendOrder DEF PushCasSucceeds
    <3>2. /\ node[p] = "owned"
          /\ \A i \in 1..Len(order) : order[i] # p
      BY <2>3 DEF PushCasSucceeds, Shape, TypeOK
    <3>3. next[p] = At(Len(order))
      BY <2>3 DEF PushCasSucceeds, Anchors, TypeOK
    <3>4. \A i \in 1..Len(order') :
            i \in 1..Len(order) \/ i = Len(order) + 1
      BY <3>1
    <3>5. \A i, j \in 1..Len(order') : order'[i] = order'[j] => i = j
      BY <3>1, <3>2, <3>4 DEF Shape
    <3>6. \A i \in 1..Len(order') : next'[order'[i]] = At(i - 1)'
      BY <2>3, <3>1, <3>3, <3>4 DEF PushCasSucceeds, Shape, At
    <3>7. \A q \in Pushers :
            (\E i \in 1..Len(order') : order'[i] = q)
              <=> node'[q] \in {"linked", "freed"}
      <4> SUFFICES ASSUME NEW q \in Pushers
                   PROVE (\E i \in 1..Len(order') : order'[i] = q)
                           <=> node'[q] \in {"linked", "freed"}
        OBVIOUS
      <4>1. CASE q = p
        BY <2>3, <3>1, <4>1 DEF PushCasSucceeds, TypeOK
      <4>2. CASE q # p
        <5>1. (\E i \in 1..Len(order') : order'[i] = q)
                <=> (\E i \in 1..Len(order) : order[i] = q)
          BY <3>1, <4>2
        <5> QED
          BY <2>3, <4>2, <5>1 DEF PushCasSucceeds, TypeOK, Shape
      <4> QED
        BY <4>1, <4>2
    <3>8. \A q \in Pushers :
            /\ node'[q] = "owned" <=> pc'[q] = "cas"
            /\ node'[q] \in {"linked", "freed"} => pc'[q] = "done"
      BY <2>3 DEF PushCasSucceeds, Shape, TypeOK
    <3> QED
      BY <3>5, <3>6, <3>7, <3>8 DEF Shape
  <2>4. CASE PushCasFails(p)
    <3>1. node[p] = "owned" /\ \A i \in 1..Len(order) : order[i] # p
      BY <2>4 DEF PushCasFails, Shape
    <3>2. /\ UNCHANGED order
          /\ node'[p] \in {"none", "owned"}
          /\ node'[p] = "owned" <=> pc'[p] = "cas"
          /\ \A q \in Pushers \ {p} :
               UNCHANGED <<next[q], node[q], pc[q]>>
      BY <2>4, <3>1 DEF PushCasFails, TypeOK
    <3>3. \A q \in Pushers :
            node'[q] \in {"linked", "freed"} <=> node[q] \in {"linked", "freed"}
      BY <3>1, <3>2
    <3>4. \A i \in 1..Len(order) : next'[order[i]] = next[order[i]]
      BY <3>1, <3>2
    <3> QED
      BY <3>1, <3>2, <3>3, <3>4 DEF Shape, At
  <2>5. CASE CallInline(p)
    <3>1. /\ node[p] # "owned" /\ pc'[p] = "done"
          /\ \A q \in Pushers \ {p} : pc'[q] = pc[q]
          /\ UNCHANGED <<order, next, node>>
      BY <2>5 DEF CallInline, Shape, TypeOK
    <3> QED
      BY <3>1 DEF Shape, At
  <2> QED
    BY <1>1, <2>1, <2>2, <2>3, <2>4, <2>5 DEF PusherStep
<1>2. CASE Consume
  BY <1>2 DEF Consume, Shape, At
<1>3. CASE CallNext
  BY <1>3 DEF CallNext, Shape, At
<1>4. CASE LoopEnds
  BY <1>4 DEF LoopEnds, Shape, At
<1>5. CASE DeleteNode
  <2>1. CASE cursor = NULL
    BY <1>5, <2>1 DEF DeleteNode, Shape, At
  <2>2. CASE cursor # NULL
    <3>1. node[cursor] = "linked" /\ cursor \in Pushers
      BY <1>5, <2>2 DEF DeleteNode, Walk, FreedDownTo, At, TypeOK
    <3> QED
      BY <1>5, <2>2, <3>1 DEF DeleteNode, Shape, At, TypeOK
  <2> QED
    BY <2>1, <2>2
<1>6. CASE Destroy
  BY <1>6 DEF Destroy, Shape, At
<1>7. CASE UNCHANGED vars
  BY <1>7 DEF vars, Shape, At
<1> QED
  BY <1>1, <1>2, <1>3, <1>4, <1>5, <1>6, <1>7 DEF Next, ListStep, Terminated

\* What head_ and the detached list point at does not drift from order.
LEMMA AnchorsStep == IInv /\ [Next]_vars => Anchors'
<1> SUFFICES ASSUME IInv, [Next]_vars PROVE Anchors'
  OBVIOUS
<1> USE StackAssumption, OrderType DEF StackAssumption, IInv, TypeOK
<1>1. ASSUME NEW p \in Pushers, PusherStep(p) PROVE Anchors'
  <2>1. CASE IsConsumed(p)
    BY <2>1 DEF IsConsumed, Anchors, At
  <2>2. CASE PushLoad(p)
    <3>1. \A q \in Pushers :
            pc'[q] = "call" \/ (pc'[q] = "done" /\ node'[q] = "none")
              => head = CONSUMED
      BY <2>2 DEF PushLoad, Anchors
    <3> QED
      BY <2>2, <3>1 DEF PushLoad, Anchors, At
  <2>3. CASE PushCasSucceeds(p)
    <3>1. head # CONSUMED /\ ~destroyed /\ phase = "idle"
      BY <2>3 DEF PushCasSucceeds, Anchors
    <3>2. head' = At(Len(order))'
      BY <2>3, AppendOrder DEF PushCasSucceeds, At
    <3> QED
      BY <2>3, <3>1, <3>2 DEF PushCasSucceeds, Anchors
  <2>4. CASE PushCasFails(p)
    <3>1. ~destroyed
      BY <2>4 DEF PushCasFails, Anchors
    <3>2. \A q \in Pushers :
            pc'[q] = "call" \/ (pc'[q] = "done" /\ node'[q] = "none")
              => head = CONSUMED
      BY <2>4 DEF PushCasFails, Anchors
    <3> QED
      BY <2>4, <3>1, <3>2 DEF PushCasFails, Anchors, At
  <2>5. CASE CallInline(p)
    BY <2>5 DEF CallInline, Anchors, At
  <2> QED
    BY <1>1, <2>1, <2>2, <2>3, <2>4, <2>5 DEF PusherStep
<1>2. CASE Consume
  BY <1>2 DEF Consume, Anchors, At
<1>3. CASE CallNext
  BY <1>3 DEF CallNext, Anchors, At
<1>4. CASE LoopEnds
  BY <1>4 DEF LoopEnds, Anchors, At
<1>5. CASE DeleteNode
  <2>1. CASE cursor = NULL
    BY <1>5, <2>1 DEF DeleteNode, Anchors, At
  <2>2. CASE cursor # NULL
    BY <1>5, <2>2 DEF DeleteNode, Anchors, At
  <2> QED
    BY <2>1, <2>2
<1>6. CASE Destroy
  BY <1>6 DEF Destroy, Anchors, At
<1>7. CASE UNCHANGED vars
  BY <1>7 DEF vars, Anchors, At
<1> QED
  BY <1>1, <1>2, <1>3, <1>4, <1>5, <1>6, <1>7 DEF Next, ListStep, Terminated

\* head_ publishes what came before its last change.
LEMMA ViewsStep == IInv /\ [Next]_vars => Views'
<1> SUFFICES ASSUME IInv, [Next]_vars PROVE Views'
  OBVIOUS
<1> USE StackAssumption, OrderType DEF StackAssumption, IInv, TypeOK, Threads
<1>1. ASSUME NEW p \in Pushers, PusherStep(p) PROVE Views'
  <2>1. CASE IsConsumed(p)
    <3>1. \A t \in Threads : sees[t] \subseteq sees'[t]
      BY <2>1 DEF IsConsumed, AcquireHead
    <3>2. sees'[p] = sees[p] \cup headView
      BY <2>1 DEF IsConsumed, AcquireHead
    <3>3. head = CONSUMED => node[p] = "none"
      BY <2>1 DEF IsConsumed, Shape
    <3> QED
      BY <2>1, <3>1, <3>2, <3>3 DEF IsConsumed, AcquireHead, Views
  <2>2. CASE PushLoad(p)
    <3>1. \A t \in Threads : sees[t] \subseteq sees'[t]
      BY <2>2 DEF PushLoad, AcquireHead
    <3>2. sees'[p] = sees[p] \cup headView
      BY <2>2 DEF PushLoad, AcquireHead
    <3>3. observed[p] => node'[p] = "none"
      BY <2>2 DEF PushLoad, Anchors, Views
    <3>4. pc'[p] = "call" => head = CONSUMED
      BY <2>2 DEF PushLoad
    <3>5. \A q \in Pushers \ {p} : pc'[q] = pc[q] /\ node'[q] = node[q]
      BY <2>2 DEF PushLoad
    <3> QED
      BY <2>2, <3>1, <3>2, <3>3, <3>4, <3>5 DEF PushLoad, AcquireHead, Views
  <2>3. CASE PushCasSucceeds(p)
    <3>1. /\ \A t \in Threads : sees[t] \subseteq sees'[t]
          /\ headView' = headView \cup sees[p]
          /\ p \in headView'
      BY <2>3 DEF PushCasSucceeds, AcqRelHead, Views
    <3>2. /\ Len(order') = Len(order) + 1
          /\ order'[Len(order) + 1] = p
          /\ \A i \in 1..Len(order) : order'[i] = order[i]
      BY <2>3, AppendOrder DEF PushCasSucceeds
    <3>3. \A i \in 1..Len(order') : order'[i] \in headView'
      <4> SUFFICES ASSUME NEW i \in 1..Len(order')
                   PROVE order'[i] \in headView'
        OBVIOUS
      <4>1. CASE i \in 1..Len(order)
        BY <3>1, <3>2, <4>1 DEF Views
      <4>2. CASE i = Len(order) + 1
        BY <3>1, <3>2, <4>2
      <4> QED
        BY <3>2, <4>1, <4>2
    <3>4. head' # CONSUMED /\ ~observed[p]
      BY <2>3 DEF PushCasSucceeds, Anchors
    <3> QED
      BY <2>3, <3>1, <3>3, <3>4 DEF PushCasSucceeds, Views
  <2>4. CASE PushCasFails(p)
    <3>1. \A t \in Threads : sees[t] \subseteq sees'[t]
      BY <2>4 DEF PushCasFails, AcquireHead
    <3>2. sees'[p] = sees[p] \cup headView
      BY <2>4 DEF PushCasFails, AcquireHead
    <3>3. ~observed[p]
      BY <2>4 DEF PushCasFails, Views, Shape
    <3>4. pc'[p] = "call" => head = CONSUMED
      BY <2>4 DEF PushCasFails
    <3>5. \A q \in Pushers \ {p} : pc'[q] = pc[q] /\ node'[q] = node[q]
      BY <2>4 DEF PushCasFails
    <3> QED
      BY <2>4, <3>1, <3>2, <3>3, <3>4, <3>5 DEF PushCasFails, AcquireHead, Views
  <2>5. CASE CallInline(p)
    BY <2>5 DEF CallInline, Views
  <2> QED
    BY <1>1, <2>1, <2>2, <2>3, <2>4, <2>5 DEF PusherStep
<1>2. CASE Consume
  <2>1. /\ \A t \in Threads : sees[t] \subseteq sees'[t]
        /\ sees'[Consumer] = sees[Consumer] \cup headView
        /\ headView' = headView \cup sees[Consumer]
    BY <1>2 DEF Consume, AcqRelHead
  <2>2. Consumer \in headView'
    BY <2>1 DEF Views
  <2> QED
    BY <1>2, <2>1, <2>2 DEF Consume, Views
<1>3. CASE CallNext
  BY <1>3 DEF CallNext, Views
<1>4. CASE LoopEnds
  BY <1>4 DEF LoopEnds, Views
<1>5. CASE DeleteNode
  <2>1. CASE cursor = NULL
    BY <1>5, <2>1 DEF DeleteNode, Views
  <2>2. CASE cursor # NULL
    <3>1. node[cursor] = "linked" /\ cursor \in Pushers
      BY <1>5, <2>2 DEF DeleteNode, Walk, FreedDownTo, At
    <3>2. \A q \in Pushers : node[q] = "none" => node'[q] = "none"
      BY <1>5, <2>2, <3>1 DEF DeleteNode
    <3> QED
      BY <1>5, <2>2, <3>2 DEF DeleteNode, Views
  <2> QED
    BY <2>1, <2>2
<1>6. CASE Destroy
  BY <1>6 DEF Destroy, Views
<1>7. CASE UNCHANGED vars
  BY <1>7 DEF vars, Views
<1> QED
  BY <1>1, <1>2, <1>3, <1>4, <1>5, <1>6, <1>7 DEF Next, ListStep, Terminated

\* Positions, not node names, tell the pushed nodes apart.
LEMMA PositionsDistinct ==
  ASSUME IInv, NEW k \in 1..Len(order)
  PROVE  /\ At(k) = order[k] /\ order[k] \in Pushers
         /\ next[order[k]] = At(k - 1)
         /\ \A i \in 1..Len(order) : order[i] = order[k] <=> i = k
         /\ pc[order[k]] = "done"
         /\ node[order[k]] \in {"linked", "freed"}
BY OrderType, StackAssumption DEF IInv, Shape, At

\* The loop calls the nodes from the top down and the deleter frees them
\* from the top down, wherever the loop stopped.
LEMMA WalkStep == IInv /\ [Next]_vars => Walk'
<1> SUFFICES ASSUME IInv, [Next]_vars PROVE Walk'
  OBVIOUS
<1> USE StackAssumption, OrderType DEF StackAssumption, IInv, TypeOK
<1> DEFINE Same == /\ UNCHANGED <<order, phase, cursor>>
                   /\ \A m \in 0..Len(order) : StopsAt(m) => StopsAt(m)'
                   /\ \A i \in 1..Len(order) :
                        /\ calls'[order[i]] = calls[order[i]]
                        /\ node'[order[i]] = node[order[i]]
                   /\ \A p \in Pushers :
                        node'[p] \in {"none", "owned"} =>
                          calls'[p] = IF pc'[p] = "done" THEN 1 ELSE 0
\* A step that leaves the pushed nodes and the walk alone.
<1>0. ASSUME Same PROVE Walk'
  <2>1. \A k \in 0..Len(order) : /\ CalledDownTo(k)' <=> CalledDownTo(k)
                                 /\ FreedDownTo(k)' <=> FreedDownTo(k)
                                 /\ At(k)' = At(k)
    BY <1>0 DEF CalledDownTo, FreedDownTo, At
  <2> QED
    BY <1>0, <2>1 DEF Walk
<1>1. ASSUME NEW p \in Pushers, PusherStep(p) PROVE Walk'
  <2>1. CASE IsConsumed(p)
    <3>1. Same
      BY <2>1 DEF IsConsumed, Walk, StopsAt
    <3> QED
      BY <1>0, <3>1
  <2>2. CASE PushLoad(p)
    <3>1. \A i \in 1..Len(order) : order[i] # p
      BY <2>2 DEF PushLoad, Shape
    <3>2. calls[p] = 0
      BY <2>2 DEF PushLoad, Walk, Shape
    <3>3. /\ \A q \in Pushers \ {p} : node'[q] = node[q] /\ pc'[q] = pc[q]
          /\ pc'[p] # "done"
          /\ UNCHANGED <<order, phase, cursor, calls, head>>
      BY <2>2 DEF PushLoad
    <3>4. Same
      BY <3>1, <3>2, <3>3 DEF Walk, StopsAt
    <3> QED
      BY <1>0, <3>4
  <2>3. CASE PushCasSucceeds(p)
    <3>1. /\ Len(order') = Len(order) + 1
          /\ order'[Len(order) + 1] = p
          /\ \A i \in 1..Len(order) : order'[i] = order[i]
      BY <2>3, AppendOrder DEF PushCasSucceeds
    <3>2. /\ phase = "idle" /\ phase' = "idle" /\ calls' = calls
          /\ node[p] = "owned" /\ pc[p] = "cas"
      <4>1. pc[p] = "cas" /\ node[p] = "owned"
        BY <2>3 DEF PushCasSucceeds, Shape
      <4>2. head # CONSUMED /\ ~destroyed
        BY <2>3, <4>1 DEF PushCasSucceeds, Anchors
      <4> QED
        BY <2>3, <4>1, <4>2 DEF PushCasSucceeds, Anchors
    <3>3. calls[p] = 0
      BY <3>2 DEF Walk
    <3>4. /\ \A i \in 1..Len(order) : order[i] # p
          /\ node'[p] = "linked"
          /\ \A q \in Pushers \ {p} : node'[q] = node[q] /\ pc'[q] = pc[q]
      BY <2>3, <3>2 DEF PushCasSucceeds, Shape
    <3>5. FreedDownTo(Len(order)) /\ CalledDownTo(Len(order))
      BY <3>2 DEF Walk
    <3>6. \A i \in 1..Len(order') :
            node'[order'[i]] = "linked" /\ calls'[order'[i]] = 0
      <4> SUFFICES ASSUME NEW i \in 1..Len(order')
                   PROVE node'[order'[i]] = "linked" /\ calls'[order'[i]] = 0
        OBVIOUS
      <4>1. CASE i \in 1..Len(order)
        BY <3>1, <3>2, <3>4, <3>5, <4>1 DEF FreedDownTo, CalledDownTo
      <4>2. CASE i = Len(order) + 1
        BY <3>1, <3>2, <3>3, <3>4, <4>2
      <4> QED
        BY <3>1, <4>1, <4>2
    <3>7. FreedDownTo(Len(order))' /\ CalledDownTo(Len(order))'
      BY <3>1, <3>6 DEF FreedDownTo, CalledDownTo
    <3>8. \A q \in Pushers :
            node'[q] \in {"none", "owned"} =>
              calls'[q] = IF pc'[q] = "done" THEN 1 ELSE 0
      BY <3>2, <3>4 DEF Walk
    <3> QED
      BY <3>2, <3>7, <3>8 DEF Walk
  <2>4. CASE PushCasFails(p)
    <3>1. node[p] = "owned" /\ \A i \in 1..Len(order) : order[i] # p
      BY <2>4 DEF PushCasFails, Shape
    <3>2. calls[p] = 0
      BY <2>4, <3>1 DEF PushCasFails, Walk
    <3>3. /\ \A q \in Pushers \ {p} : node'[q] = node[q] /\ pc'[q] = pc[q]
          /\ pc'[p] # "done"
          /\ UNCHANGED <<order, phase, cursor, calls, head>>
      BY <2>4 DEF PushCasFails
    <3>4. Same
      BY <3>1, <3>2, <3>3 DEF Walk, StopsAt
    <3> QED
      BY <1>0, <3>4
  <2>5. CASE CallInline(p)
    <3>1. \A i \in 1..Len(order) : order[i] # p
      BY <2>5 DEF CallInline, Shape
    <3>2. calls[p] = 0
      BY <2>5, <3>1 DEF CallInline, Walk, Shape
    <3>3. /\ \A q \in Pushers \ {p} : calls'[q] = calls[q] /\ pc'[q] = pc[q]
          /\ pc'[p] = "done" /\ calls'[p] = 1
          /\ UNCHANGED <<order, phase, cursor, node, head>>
      BY <2>5, <3>2 DEF CallInline
    <3>4. Same
      BY <3>1, <3>2, <3>3 DEF Walk, StopsAt
    <3> QED
      BY <1>0, <3>4
  <2> QED
    BY <1>1, <2>1, <2>2, <2>3, <2>4, <2>5 DEF PusherStep
<1>2. CASE Consume
  <2>1. /\ phase = "idle" /\ phase' = "run"
        /\ UNCHANGED <<order, calls, node, pc>>
        /\ cursor' = At(Len(order))
    BY <1>2 DEF Consume, Anchors
  <2>2. FreedDownTo(Len(order))' /\ CalledDownTo(Len(order))'
    BY <2>1 DEF Walk, FreedDownTo, CalledDownTo
  <2>3. cursor' = At(Len(order))' /\ Len(order)' = Len(order)
    BY <2>1 DEF At
  <2> QED
    BY <2>1, <2>2, <2>3 DEF Walk
<1>3. CASE CallNext
  <2>1. phase = "run" /\ cursor # NULL /\ FreedDownTo(Len(order))
    BY <1>3 DEF CallNext, Walk
  <2>2. PICK k \in 0..Len(order) : cursor = At(k) /\ CalledDownTo(k)
    BY <2>1 DEF Walk
  <2>3. k \in 1..Len(order) /\ cursor = order[k]
    BY <2>1, <2>2 DEF At
  <2>4. /\ next[cursor] = At(k - 1)
        /\ pc[cursor] = "done" /\ node[cursor] = "linked"
        /\ \A i \in 1..Len(order) : order[i] = cursor <=> i = k
    BY <2>1, <2>3, PositionsDistinct DEF FreedDownTo
  <2>5. UNCHANGED <<order, node, pc, head>>
    BY <1>3 DEF CallNext
  <2>6. CalledDownTo(k - 1)'
    BY <1>3, <2>2, <2>3, <2>4 DEF CallNext, CalledDownTo
  <2>7. FreedDownTo(Len(order))'
    BY <2>1, <2>5 DEF FreedDownTo
  <2>8. \A q \in Pushers :
          node'[q] \in {"none", "owned"} =>
            calls'[q] = IF pc'[q] = "done" THEN 1 ELSE 0
    BY <1>3, <2>4 DEF CallNext, Walk
  <2>9. CASE cursor \in Throwing
    <3>1. phase' = "free" /\ cursor' = At(Len(order))'
      BY <1>3, <2>9 DEF CallNext, Anchors, At
    <3>2. StopsAt(k - 1)' /\ k - 1 \in 0..Len(order)
      BY <2>1, <2>3, <2>5, <2>9 DEF StopsAt, Anchors
    <3> QED
      BY <2>5, <2>6, <2>7, <2>8, <3>1, <3>2 DEF Walk
  <2>10. CASE cursor \notin Throwing
    <3>1. phase' = "run" /\ cursor' = At(k - 1)'
      BY <1>3, <2>4, <2>10 DEF CallNext, At
    <3>2. k - 1 \in 0..Len(order)
      BY <2>3
    <3> QED
      BY <2>5, <2>6, <2>7, <2>8, <3>1, <3>2 DEF Walk
  <2> QED
    BY <2>9, <2>10
<1>4. CASE LoopEnds
  <2>1. phase = "run" /\ phase' = "free" /\ cursor = NULL
    BY <1>4 DEF LoopEnds
  <2>2. UNCHANGED <<order, calls, node, pc>> /\ cursor' = At(Len(order))
    BY <1>4 DEF LoopEnds, Anchors
  <2>3. PICK k \in 0..Len(order) : cursor = At(k) /\ CalledDownTo(k)
    BY <2>1 DEF Walk
  <2>4. k = 0
    BY <2>1, <2>3 DEF At
  <2>5. CalledDownTo(0)' /\ StopsAt(0)'
    BY <1>4, <2>1, <2>2, <2>3, <2>4
       DEF LoopEnds, CalledDownTo, StopsAt, Anchors
  <2>6. FreedDownTo(Len(order))' /\ cursor' = At(Len(order))'
    BY <2>1, <2>2 DEF Walk, FreedDownTo, At
  <2> QED
    BY <2>1, <2>2, <2>5, <2>6 DEF Walk
<1>5. CASE DeleteNode
  <2>1. PICK k \in 0..Len(order) : cursor = At(k) /\ FreedDownTo(k)
    BY <1>5 DEF DeleteNode, Walk
  <2>2. PICK m \in 0..Len(order) : CalledDownTo(m) /\ StopsAt(m)
    BY <1>5 DEF DeleteNode, Walk
  <2>3. phase = "free" /\ UNCHANGED <<order, calls, pc, head>>
    BY <1>5 DEF DeleteNode
  <2>4. CalledDownTo(m)' /\ StopsAt(m)'
    BY <2>2, <2>3 DEF CalledDownTo, StopsAt
  <2>5. CASE cursor = NULL
    <3>1. k = 0 /\ phase' = "done" /\ UNCHANGED node
      BY <1>5, <2>1, <2>5 DEF DeleteNode, At
    <3>2. FreedDownTo(0)'
      BY <2>1, <2>3, <3>1 DEF FreedDownTo
    <3> QED
      BY <2>3, <2>4, <3>1, <3>2 DEF Walk
  <2>6. CASE cursor # NULL
    <3>1. k \in 1..Len(order) /\ cursor = order[k]
      BY <2>1, <2>6 DEF At
    <3>2. /\ next[cursor] = At(k - 1)
          /\ node[cursor] = "linked"
          /\ cursor \in Pushers
          /\ \A i \in 1..Len(order) : order[i] = cursor <=> i = k
      <4>1. node[order[k]] = "linked"
        BY <2>1, <3>1 DEF FreedDownTo
      <4> QED
        BY <3>1, <4>1, PositionsDistinct
    <3>3. phase' = "free" /\ cursor' = At(k - 1)'
      BY <1>5, <2>3, <2>6, <3>2 DEF DeleteNode, At
    <3>4. node' = [node EXCEPT ![cursor] = "freed"]
      BY <1>5, <2>6 DEF DeleteNode
    <3>5. FreedDownTo(k - 1)' /\ k - 1 \in 0..Len(order)
      BY <2>1, <2>3, <3>1, <3>2, <3>4 DEF FreedDownTo
    <3>6. \A q \in Pushers :
            node'[q] \in {"none", "owned"} =>
              calls'[q] = IF pc'[q] = "done" THEN 1 ELSE 0
      BY <2>3, <3>2, <3>4 DEF Walk
    <3> QED
      BY <2>3, <2>4, <3>3, <3>5, <3>6 DEF Walk
  <2> QED
    BY <2>5, <2>6
<1>6. CASE Destroy
  <2>1. UNCHANGED <<order, calls, node, pc, head>>
    BY <1>6 DEF Destroy
  <2>2. CASE head \in {NULL, CONSUMED}
    <3>1. Same
      BY <1>6, <2>1, <2>2 DEF Destroy, Walk, StopsAt
    <3> QED
      BY <1>0, <3>1
  <2>3. CASE head \notin {NULL, CONSUMED}
    <3>1. phase = "idle" /\ phase' = "free" /\ cursor' = At(Len(order))
      BY <1>6, <2>3 DEF Destroy, Anchors
    <3>2. /\ FreedDownTo(Len(order))' /\ CalledDownTo(Len(order))'
          /\ StopsAt(Len(order))' /\ cursor' = At(Len(order))'
      BY <2>1, <2>3, <3>1 DEF Walk, FreedDownTo, CalledDownTo, StopsAt, At
    <3> QED
      BY <2>1, <3>1, <3>2 DEF Walk
  <2> QED
    BY <2>2, <2>3
<1>7. CASE UNCHANGED vars
  <2>1. Same
    BY <1>7 DEF vars, Walk, StopsAt
  <2> QED
    BY <1>0, <2>1
<1> QED
  BY <1>1, <1>2, <1>3, <1>4, <1>5, <1>6, <1>7 DEF Next, ListStep, Terminated

-----------------------------------------------------------------------------

\* Every reachable state satisfies the inductive invariant.
THEOREM InductiveInvariant == Spec => []IInv
<1>1. Init => IInv
  BY InitInv
<1>2. IInv /\ [Next]_vars => IInv'
  BY TypeStep, ShapeStep, AnchorsStep, WalkStep, ViewsStep DEF IInv
<1> QED
  BY <1>1, <1>2, PTL DEF Spec

\* Every variable keeps its type: in particular execute never takes the
\* consumed marker for a node.
THEOREM TypeCorrect == Spec => []TypeOK
<1>1. IInv => TypeOK
  BY DEF IInv
<1> QED
  BY <1>1, InductiveInvariant, PTL

\* No continuation is called twice or before the stack is consumed, whatever
\* the number of concurrent pushes.
THEOREM CallOnce == Spec => []CalledAtMostOnce
<1>1. IInv => CalledAtMostOnce
  <2> SUFFICES ASSUME IInv, NEW p \in Pushers
               PROVE calls[p] <= 1 /\ (calls[p] = 1 => head = CONSUMED)
    BY DEF CalledAtMostOnce
  <2> USE OrderType DEF IInv, TypeOK
  <2>1. CASE node[p] \in {"none", "owned"}
    BY <2>1 DEF Walk, Anchors, Shape
  <2>2. CASE node[p] \in {"linked", "freed"}
    <3>1. PICK i \in 1..Len(order) : order[i] = p
      BY <2>2 DEF Shape
    <3>2. CASE phase = "idle"
      BY <3>1, <3>2 DEF Walk, CalledDownTo
    <3>3. CASE phase = "run"
      BY <3>1, <3>3 DEF Walk, Anchors, CalledDownTo
    <3>4. CASE phase \in {"free", "done"}
      <4>1. CASE head = CONSUMED
        BY <3>1, <3>4, <4>1 DEF Walk, CalledDownTo
      <4>2. CASE head # CONSUMED
        BY <3>1, <3>4, <4>2 DEF Walk, CalledDownTo, StopsAt
      <4> QED
        BY <4>1, <4>2
    <3> QED
      BY <3>2, <3>3, <3>4
  <2> QED
    BY <2>1, <2>2
<1> QED
  BY <1>1, InductiveInvariant, PTL

\* The third promise of once_consumable_stack's class comment, and its
\* converse for the node contents the consumer reads.
THEOREM SideEffectsVisible == Spec => []Visibility
<1>1. IInv => Visibility
  <2> SUFFICES ASSUME IInv PROVE Visibility
    OBVIOUS
  <2>1. ASSUME phase = "run", cursor # NULL PROVE cursor \in sees[Consumer]
    <3>1. PICK k \in 0..Len(order) : cursor = At(k)
      BY <2>1 DEF IInv, Walk
    <3>2. k \in 1..Len(order) /\ cursor = order[k]
      BY <2>1, <3>1, OrderType DEF IInv, At
    <3> QED
      BY <2>1, <3>2 DEF IInv, Views, Anchors
  <2> QED
    BY <2>1 DEF IInv, Views, Visibility
<1> QED
  BY <1>1, InductiveInvariant, PTL

\* head_, the iterator and the deleter only ever point to live nodes.
THEOREM NoDanglingNode == Spec => []NoUseAfterFree
<1>1. IInv => NoUseAfterFree
  <2> SUFFICES ASSUME IInv PROVE NoUseAfterFree
    OBVIOUS
  <2> USE StackAssumption, OrderType DEF StackAssumption, IInv
  <2>1. ASSUME ~destroyed, head \in Pushers PROVE node[head] = "linked"
    <3>1. phase = "idle" /\ head = At(Len(order))
      BY <2>1 DEF Anchors
    <3>2. Len(order) \in 1..Len(order) /\ head = order[Len(order)]
      BY <2>1, <3>1 DEF At
    <3> QED
      BY <3>1, <3>2 DEF Walk, FreedDownTo
  <2>2. ASSUME phase \in {"run", "free"}, cursor # NULL
        PROVE  node[cursor] = "linked"
    BY <2>2 DEF Walk, FreedDownTo, At
  <2> QED
    BY <2>1, <2>2 DEF NoUseAfterFree
<1> QED
  BY <1>1, InductiveInvariant, PTL

\* All nodes are reclaimed; a pushed continuation is lost only behind a
\* throwing one or in a stack that was never consumed.
THEOREM NoContinuationLost == Spec => []NothingLost
<1>1. IInv => NothingLost
  <2> SUFFICES ASSUME IInv, phase = "done", NEW i \in 1..Len(order)
               PROVE  /\ node[order[i]] = "freed"
                      /\ \/ calls[order[i]] = 1
                         \/ head # CONSUMED
                         \/ \E j \in i+1..Len(order) :
                              order[j] \in Throwing /\ calls[order[j]] = 1
    BY DEF NothingLost
  <2> USE OrderType DEF IInv
  <2>1. node[order[i]] = "freed"
    BY DEF Walk, FreedDownTo
  <2>2. PICK m \in 0..Len(order) : CalledDownTo(m) /\ StopsAt(m)
    BY DEF Walk
  <2>3. CASE i > m
    BY <2>1, <2>2, <2>3 DEF CalledDownTo
  <2>4. CASE i <= m
    <3>1. CASE head # CONSUMED
      BY <2>1, <3>1
    <3>2. CASE head = CONSUMED
      <4>1. m < Len(order) /\ order[m + 1] \in Throwing
        BY <2>2, <2>4, <3>2 DEF StopsAt
      <4>2. m + 1 \in i+1..Len(order) /\ calls[order[m + 1]] = 1
        BY <2>2, <2>4, <4>1 DEF CalledDownTo
      <4> QED
        BY <2>1, <4>1, <4>2
    <3> QED
      BY <3>1, <3>2
  <2> QED
    BY <2>3, <2>4
<1> QED
  BY <1>1, InductiveInvariant, PTL

\* A thread that has seen is_ready() never leaves a continuation behind.
THEOREM ObservationIsFinal == Spec => []ObservedIsFinal
<1>1. IInv => ObservedIsFinal
  BY DEF IInv, Anchors, Views, ObservedIsFinal
<1> QED
  BY <1>1, InductiveInvariant, PTL

-----------------------------------------------------------------------------
\* Refinement of the contract.

Statuses == [p \in Pushers |-> CntStatus(p)]

\* A step that changes the fate of one continuation only.
LEMMA OneStatusChanges ==
  ASSUME NEW p \in Pushers,
         \A q \in Pushers \ {p} : CntStatus(q)' = CntStatus(q)
  PROVE  Statuses' = [Statuses EXCEPT ![p] = CntStatus(p)']
BY DEF Statuses

\* A step that changes no continuation's fate.
LEMMA NoStatusChanges ==
  ASSUME \A q \in Pushers : CntStatus(q)' = CntStatus(q)
  PROVE  Statuses' = Statuses
BY DEF Statuses

\* The continuation the cursor stands at, in the loop and in the deleter.
LEMMA AtCursor ==
  ASSUME IInv, phase \in {"run", "free"}, cursor # NULL
  PROVE  /\ cursor \in Pushers
         /\ node[cursor] = "linked" /\ pc[cursor] = "done"
         /\ phase = "run" => head = CONSUMED /\ calls[cursor] = 0
         /\ phase = "free" =>
              \/ calls[cursor] > 0
              \/ destroyed /\ head # CONSUMED
              \/ \E d \in Pushers : d \in Throwing /\ calls[d] > 0
<1> USE OrderType DEF IInv, TypeOK
<1>1. PICK k \in 1..Len(order) : cursor = order[k]
  BY DEF Walk, At
<1>2. cursor \in Pushers /\ node[cursor] = "linked" /\ pc[cursor] = "done"
  <2>1. cursor \in Pushers /\ node[cursor] = "linked"
    BY <1>1 DEF Walk, FreedDownTo, At
  <2> QED
    BY <2>1 DEF Shape
<1>3. ASSUME phase = "run" PROVE head = CONSUMED /\ calls[cursor] = 0
  <2>1. PICK i \in 0..Len(order) : cursor = At(i) /\ CalledDownTo(i)
    BY <1>3 DEF Walk
  <2>2. i \in 1..Len(order) /\ cursor = order[i]
    BY <2>1 DEF At
  <2> QED
    BY <1>3, <2>1, <2>2 DEF CalledDownTo, Anchors
<1>4. ASSUME phase = "free"
      PROVE  \/ calls[cursor] > 0
             \/ destroyed /\ head # CONSUMED
             \/ \E d \in Pushers : d \in Throwing /\ calls[d] > 0
  <2>1. PICK m \in 0..Len(order) : CalledDownTo(m) /\ StopsAt(m)
    BY <1>4 DEF Walk
  <2>2. CASE head # CONSUMED
    BY <1>4, <2>2 DEF Anchors
  <2>3. CASE head = CONSUMED /\ m = 0
    BY <1>1, <2>1, <2>3 DEF CalledDownTo
  <2>4. CASE head = CONSUMED /\ m # 0
    <3>1. m + 1 \in 1..Len(order) /\ order[m + 1] \in Throwing
      BY <2>1, <2>4 DEF StopsAt
    <3>2. calls[order[m + 1]] = 1
      BY <2>1, <3>1 DEF CalledDownTo
    <3> QED
      BY <3>1, <3>2
  <2> QED
    BY <2>2, <2>3, <2>4
<1> QED
  BY <1>2, <1>3, <1>4

\* A pusher in the middle of push owns or has given back its node, and its
\* continuation has not been called.
LEMMA InPush ==
  ASSUME IInv, NEW p \in Pushers
  PROVE  /\ pc[p] = "start" => node[p] = "none" /\ calls[p] = 0
         /\ pc[p] = "cas" => node[p] = "owned" /\ calls[p] = 0 /\ ~destroyed
         /\ pc[p] = "call" => /\ node[p] = "none" /\ calls[p] = 0
                              /\ head = CONSUMED /\ ~destroyed
<1> USE DEF IInv, TypeOK
<1>1. pc[p] # "done" => node[p] \in {"none", "owned"}
  BY DEF Shape
<1>2. pc[p] # "done" => calls[p] = 0
  BY <1>1 DEF Walk
<1> QED
  BY <1>1, <1>2 DEF Shape, Anchors

\* Every step of the stack is a step of the contract or changes nothing in it.
LEMMA ContractStep ==
  IInv /\ [Next]_vars => [Contract!Next]_(Contract!cvars)
<1> SUFFICES ASSUME IInv, [Next]_vars
             PROVE  Contract!Next \/ UNCHANGED Contract!cvars
  OBVIOUS
<1> USE StackAssumption DEF StackAssumption
<1>0. TypeOK /\ TypeOK'
  BY TypeStep DEF IInv
<1>s. ASSUME UNCHANGED <<head, destroyed>>,
             \A q \in Pushers : CntStatus(q)' = CntStatus(q)
      PROVE  UNCHANGED Contract!cvars
  BY <1>s, NoStatusChanges DEF Statuses, Contract!cvars
<1>1. ASSUME NEW p \in Pushers, PusherStep(p)
      PROVE  Contract!Next \/ UNCHANGED Contract!cvars
  <2>1. CASE IsConsumed(p)
    <3>1. \A q \in Pushers : CntStatus(q)' = CntStatus(q)
      BY <2>1 DEF IsConsumed, CntStatus
    <3> QED
      BY <1>s, <2>1, <3>1 DEF IsConsumed
  <2>2. CASE PushLoad(p)
    <3>1. \A q \in Pushers \ {p} : CntStatus(q)' = CntStatus(q)
      BY <1>0, <2>2 DEF PushLoad, CntStatus, TypeOK
    <3>2. CntStatus(p) = "idle"
      BY <2>2, InPush DEF PushLoad, CntStatus
    <3>3. CASE head = CONSUMED
      <4>1. CntStatus(p)' = "attached"
        BY <1>0, <2>2, <3>3, InPush DEF PushLoad, CntStatus, TypeOK
      <4>2. Contract!Attach(p)
        BY <2>2, <3>1, <3>2, <4>1, OneStatusChanges
           DEF PushLoad, Contract!Attach, Statuses
      <4> QED
        BY <4>2 DEF Contract!Next
    <3>4. CASE head # CONSUMED
      <4>1. CntStatus(p)' = "idle"
        BY <1>0, <2>2, <3>4, InPush DEF PushLoad, CntStatus, TypeOK
      <4> QED
        BY <1>s, <2>2, <3>1, <3>2, <4>1 DEF PushLoad
    <3> QED
      BY <3>3, <3>4
  <2>3. CASE PushCasSucceeds(p)
    <3>1. \A q \in Pushers \ {p} : CntStatus(q)' = CntStatus(q)
      BY <1>0, <2>3 DEF PushCasSucceeds, CntStatus, TypeOK
    <3>2. CntStatus(p) = "idle" /\ ~destroyed
      BY <2>3, InPush DEF PushCasSucceeds, CntStatus
    <3>3. CntStatus(p)' = "attached"
      BY <1>0, <2>3, InPush DEF PushCasSucceeds, CntStatus, TypeOK
    <3>4. (head = CONSUMED)' <=> head = CONSUMED
      BY <1>0, <2>3 DEF PushCasSucceeds, TypeOK
    <3>5. Contract!Attach(p)
      BY <2>3, <3>1, <3>2, <3>3, <3>4, OneStatusChanges
         DEF PushCasSucceeds, Contract!Attach, Statuses
    <3> QED
      BY <3>5 DEF Contract!Next
  <2>4. CASE PushCasFails(p)
    <3>1. \A q \in Pushers \ {p} : CntStatus(q)' = CntStatus(q)
      BY <1>0, <2>4 DEF PushCasFails, CntStatus, TypeOK
    <3>2. CntStatus(p) = "idle" /\ ~destroyed
      BY <2>4, InPush DEF PushCasFails, CntStatus
    <3>3. CASE head = CONSUMED
      <4>1. CntStatus(p)' = "attached"
        BY <1>0, <2>4, <3>3, InPush DEF PushCasFails, CntStatus, TypeOK
      <4>2. Contract!Attach(p)
        BY <2>4, <3>1, <3>2, <4>1, OneStatusChanges
           DEF PushCasFails, Contract!Attach, Statuses
      <4> QED
        BY <4>2 DEF Contract!Next
    <3>4. CASE head # CONSUMED
      <4>1. CntStatus(p)' = CntStatus(p)
        BY <2>4, <3>4 DEF PushCasFails, CntStatus
      <4> QED
        BY <1>s, <2>4, <3>1, <4>1 DEF PushCasFails
    <3> QED
      BY <3>3, <3>4
  <2>5. CASE CallInline(p)
    <3>1. \A q \in Pushers \ {p} : CntStatus(q)' = CntStatus(q)
      BY <1>0, <2>5 DEF CallInline, CntStatus, TypeOK
    <3>2. CntStatus(p) = "attached" /\ head = CONSUMED
      BY <2>5, InPush DEF CallInline, CntStatus
    <3>3. CntStatus(p)' = "called"
      BY <1>0, <2>5, InPush DEF CallInline, CntStatus, TypeOK
    <3>4. Contract!Call(p)
      BY <2>5, <3>1, <3>2, <3>3, OneStatusChanges
         DEF CallInline, Contract!Call, Statuses
    <3> QED
      BY <3>4 DEF Contract!Next
  <2> QED
    BY <1>1, <2>1, <2>2, <2>3, <2>4, <2>5 DEF PusherStep
<1>2. CASE Consume
  <2>1. \A q \in Pushers : CntStatus(q)' = CntStatus(q)
    BY <1>2 DEF Consume, CntStatus
  <2>2. /\ ~destroyed /\ UNCHANGED destroyed
        /\ head # CONSUMED /\ head' = CONSUMED
    BY <1>2 DEF Consume, IInv, Anchors
  <2>3. Contract!MakeReady
    BY <2>1, <2>2, NoStatusChanges DEF Contract!MakeReady, Statuses
  <2> QED
    BY <2>3 DEF Contract!Next
<1>3. CASE CallNext
  <2>1. /\ cursor \in Pushers /\ node[cursor] = "linked" /\ pc[cursor] = "done"
        /\ head = CONSUMED /\ calls[cursor] = 0
    BY <1>3, AtCursor DEF CallNext
  <2>2. \A q \in Pushers \ {cursor} : CntStatus(q)' = CntStatus(q)
    BY <1>0, <1>3 DEF CallNext, CntStatus, TypeOK
  <2>3. CntStatus(cursor) = "attached"
    BY <2>1 DEF CntStatus
  <2>4. calls'[cursor] = 1
    BY <1>0, <1>3, <2>1 DEF CallNext, TypeOK
  <2>5. Statuses' = [Statuses EXCEPT ![cursor] = "called"]
    <3>1. \A q \in Pushers : CntStatus(q)' =
                               IF q = cursor THEN "called" ELSE CntStatus(q)
      <4> SUFFICES ASSUME NEW q \in Pushers, q = cursor
                   PROVE  CntStatus(q)' = "called"
        BY <2>2
      <4> QED
        BY <2>4 DEF CntStatus
    <3> QED
      BY <2>1, <3>1 DEF Statuses
  <2>6. Contract!Call(cursor)
    BY <1>3, <2>1, <2>3, <2>5 DEF CallNext, Contract!Call, Statuses
  <2> QED
    BY <2>1, <2>6 DEF Contract!Next
<1>4. CASE LoopEnds
  <2>1. \A q \in Pushers : CntStatus(q)' = CntStatus(q)
    BY <1>4 DEF LoopEnds, CntStatus
  <2> QED
    BY <1>s, <1>4, <2>1 DEF LoopEnds
<1>5. CASE DeleteNode
  <2>1. CASE cursor = NULL
    <3>1. \A q \in Pushers : CntStatus(q)' = CntStatus(q)
      BY <1>5, <2>1 DEF DeleteNode, CntStatus
    <3> QED
      BY <1>s, <1>5, <3>1 DEF DeleteNode
  <2>2. CASE cursor # NULL
    <3>1. /\ cursor \in Pushers /\ node[cursor] = "linked" /\ pc[cursor] = "done"
          /\ \/ calls[cursor] > 0
             \/ destroyed /\ head # CONSUMED
             \/ \E d \in Pushers : d \in Throwing /\ calls[d] > 0
      BY <1>5, <2>2, AtCursor DEF DeleteNode
    <3>2. node' = [node EXCEPT ![cursor] = "freed"]
          /\ UNCHANGED <<head, destroyed, calls, pc>>
      BY <1>5, <2>2 DEF DeleteNode
    <3>3. \A q \in Pushers \ {cursor} : CntStatus(q)' = CntStatus(q)
      BY <1>0, <3>2 DEF CntStatus, TypeOK
    <3>4. CASE calls[cursor] > 0
      <4>1. \A q \in Pushers : CntStatus(q)' = CntStatus(q)
        <5> SUFFICES ASSUME NEW q \in Pushers, q = cursor
                     PROVE  CntStatus(q)' = CntStatus(q)
          BY <3>3
        <5> QED
          BY <3>2, <3>4 DEF CntStatus
      <4> QED
        BY <1>s, <3>2, <4>1
    <3>5. CASE ~(calls[cursor] > 0)
      <4>1. CntStatus(cursor) = "attached"
        BY <3>1, <3>5 DEF CntStatus
      <4>2. node'[cursor] = "freed"
        BY <1>0, <3>1, <3>2 DEF TypeOK
      <4>3. Statuses' = [Statuses EXCEPT ![cursor] = "dropped"]
        BY <3>1, <3>2, <3>3, <3>5, <4>2 DEF Statuses, CntStatus
      <4>4. \/ destroyed /\ head # CONSUMED
            \/ \E d \in Throwing : Statuses[d] = "called"
        BY <3>1, <3>5 DEF Statuses, CntStatus
      <4>5. Contract!Drop(cursor)
        BY <3>1, <3>2, <4>1, <4>3, <4>4 DEF Contract!Drop, Statuses
      <4> QED
        BY <3>1, <4>5 DEF Contract!Next
    <3> QED
      BY <3>4, <3>5
  <2> QED
    BY <2>1, <2>2
<1>6. CASE Destroy
  <2>1. ~destroyed /\ destroyed' /\ UNCHANGED <<head, node, pc, calls>>
    BY <1>6 DEF Destroy
  <2>2. \A q \in Pushers : CntStatus(q)' = CntStatus(q)
    BY <2>1 DEF CntStatus
  <2>3. ASSUME head = CONSUMED, NEW q \in Pushers
        PROVE  CntStatus(q) # "attached"
    <3>1. phase = "done"
      BY <1>6, <2>3 DEF Destroy, IInv, Anchors
    <3>2. pc[q] \in {"start", "done"}
      BY <1>6 DEF Destroy
    <3>3. node[q] # "linked"
      BY <3>1, OrderType DEF IInv, Shape, Walk, FreedDownTo
    <3>4. pc[q] = "done" /\ node[q] # "freed" => calls[q] = 1
      BY <1>0, <3>3 DEF IInv, Shape, Walk, TypeOK
    <3> QED
      BY <3>2, <3>4 DEF CntStatus
  <2>4. Contract!Close
    BY <2>1, <2>2, <2>3, NoStatusChanges DEF Contract!Close, Statuses
  <2> QED
    BY <2>4 DEF Contract!Next
<1>7. CASE UNCHANGED vars
  <2>1. \A q \in Pushers : CntStatus(q)' = CntStatus(q)
    BY <1>7 DEF vars, CntStatus
  <2> QED
    BY <1>s, <1>7, <2>1 DEF vars
<1> QED
  BY <1>1, <1>2, <1>3, <1>4, <1>5, <1>6, <1>7 DEF Next, ListStep, Terminated

\* The lock-free stack implements the abstract one-shot event.
THEOREM Refinement == Spec => ImplementsContract
<1>1. Init => Contract!Init
  BY StackAssumption
     DEF StackAssumption, Init, Contract!Init, CntStatus
<1>2. IInv /\ [Next]_vars => [Contract!Next]_(Contract!cvars)
  BY ContractStep
<1> QED
  BY <1>1, <1>2, InductiveInvariant, PTL DEF Spec, ImplementsContract, Contract!Spec
=============================================================================
