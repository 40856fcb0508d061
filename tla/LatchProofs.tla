---------------------------- MODULE LatchProofs ----------------------------
(***************************************************************************)
(* Proofs about Latch for any finite number of threads and any amounts.    *)
(*                                                                         *)
(* Outstanding says what counter_ still stands for, Inside what waiters_   *)
(* counts.  Closing says who may be in the destructor, and that no call    *)
(* begins from then on: when ~latch finds waiters_ at zero nobody is       *)
(* inside, and nobody comes back.                                          *)
(***************************************************************************)
EXTENDS Latch, FiniteSetTheorems, TLAPS

\* The threads whose call has not begun.
Late == {t \in Threads : pc[t] = "start"}

Counts == counter = Outstanding /\ waiters = Cardinality(Inside)

Open == \A t \in Arrivers \cup Watchers :
          pc[t] \notin {"start", "asleep", "woken"} => counter = 0

\* Only the owner destroys the latch, when every call has begun and the
\* threads it has joined are through; ~latch returns with nobody inside.
Closing ==
  \A t \in Threads :
    /\ pc[t] = "notify" => t \in Counters
    /\ pc[t] \in {"closing", "parked", "destroyed"} =>
         /\ t = owner
         /\ Late = {}
         /\ \A u \in Joined : u # t => pc[u] = "returned"
    /\ pc[t] = "destroyed" => Inside = {}

\* The inductive invariant.
IInv == TypeOK /\ Counts /\ Open /\ Closing

-----------------------------------------------------------------------------
\* What Outstanding and Inside count.

\* Every call subtracts a natural number, and what some calls subtract is the
\* size of a finite set.
LEMMA UnitsFinite ==
  ASSUME amount \in [Counters -> Amounts], NEW S \in SUBSET Threads
  PROVE  /\ IsFiniteSet(Units(S))
         /\ Cardinality(Units(S)) \in Nat
<1>1. IsFiniteSet(S)
  BY LatchAssumption, FS_Subset DEF LatchAssumption, Threads
<1> DEFINE f == [t \in S |-> {t} \X (1..Share(t))]
           T == {{t} \X (1..Share(t)) : t \in S}
<1>2. \A t \in S : IsFiniteSet({t} \X (1..Share(t)))
  <2> SUFFICES ASSUME NEW t \in S PROVE IsFiniteSet({t} \X (1..Share(t)))
    OBVIOUS
  <2>1. Share(t) \in Nat
    BY LatchAssumption DEF Share, LatchAssumption
  <2>2. IsFiniteSet({t})
    BY FS_Singleton
  <2>3. IsFiniteSet(1..Share(t))
    BY <2>1, FS_Interval
  <2> QED
    BY <2>2, <2>3, FS_Product
<1>3. f \in Surjection(S, T)
  BY DEF Surjection
<1>4. IsFiniteSet(T)
  BY <1>1, <1>3, FS_Surjection
<1>5. IsFiniteSet(UNION T)
  BY <1>2, <1>4, FS_UNION
<1> QED
  BY <1>5, FS_CardinalityType DEF Units

\* A call that begins takes its share away.
LEMMA UnitsRemove ==
  ASSUME TypeOK, NEW S \in SUBSET Threads, NEW t \in S
  PROVE  /\ Share(t) \in Nat
         /\ Cardinality(Units(S \ {t})) = Cardinality(Units(S)) - Share(t)
<1> DEFINE P == {t} \X (1..Share(t))
<1>1. Share(t) \in Nat
  BY LatchAssumption DEF TypeOK, Share, LatchAssumption
<1>2. IsFiniteSet(P) /\ Cardinality(P) = Share(t)
  <2>1. IsFiniteSet({t}) /\ Cardinality({t}) = 1
    BY FS_Singleton
  <2>2. IsFiniteSet(1..Share(t)) /\ Cardinality(1..Share(t)) = Share(t)
    BY <1>1, FS_Interval
  <2>3. IsFiniteSet(P) /\ Cardinality(P) = 1 * Share(t)
    BY <2>1, <2>2, FS_Product
  <2> QED
    BY <1>1, <2>3
<1>3. Units(S \ {t}) = Units(S) \ P
  BY DEF Units
<1>4. Units(S) \cap P = P
  BY DEF Units
<1>5. IsFiniteSet(Units(S)) /\ Cardinality(Units(S)) \in Nat
  BY UnitsFinite DEF TypeOK
<1> HIDE DEF P
<1>6. Cardinality(Units(S) \ P) = Cardinality(Units(S)) - Cardinality(Units(S) \cap P)
  BY <1>2, <1>5, FS_Difference
<1> QED
  BY <1>1, <1>2, <1>3, <1>4, <1>6

\* A set of threads has a number of elements, which one more or one less
\* changes by one.
LEMMA ThreadsCount ==
  ASSUME NEW S \in SUBSET Threads
  PROVE  /\ Cardinality(S) \in Nat
         /\ Cardinality(S) = 0 <=> S = {}
         /\ \A t \in Threads \ S : Cardinality(S \cup {t}) = Cardinality(S) + 1
         /\ \A t \in S : Cardinality(S \ {t}) = Cardinality(S) - 1
<1>1. IsFiniteSet(S)
  BY LatchAssumption, FS_Subset DEF LatchAssumption, Threads
<1> QED
  BY <1>1, FS_CardinalityType, FS_EmptySet, FS_AddElement, FS_RemoveElement

-----------------------------------------------------------------------------
\* The condition variable.

States == {"start", "asleep", "woken", "notify", "returned", "closing", "parked",
           "destroyed"}

\* Every thread is where at says, but for sleepers that have been woken.
Wakes(at) ==
  /\ pc' \in [Threads -> States]
  /\ \A t \in Threads : \/ pc'[t] = at[t]
                        \/ at[t] = "asleep" /\ pc'[t] = "woken"
                        \/ at[t] = "parked" /\ pc'[t] = "closing"

\* A notification wakes sleepers on their condition variable and does nothing else.
LEMMA NotifyEffect ==
  ASSUME NEW at \in [Threads -> States], NotifyAll(at) \/ NotifyOne(at) \/ pc' = at
  PROVE  Wakes(at)
<1> USE DEF Wakes, Woken, States
<1>1. CASE NotifyAll(at)
  BY <1>1 DEF NotifyAll
<1>2. CASE NotifyOne(at)
  BY <1>2 DEF NotifyOne
<1> QED
  BY <1>1, <1>2

\* A call begins: counter_ drops by its share, and waiters_ counts it unless
\* it need not wait.  Nobody is in the destructor yet.
LEMMA BeginStep ==
  ASSUME IInv, NEW t \in Threads, pc[t] = "start",
         NEW x \in {"asleep", "notify", "returned"},
         Wakes([pc EXCEPT ![t] = x]),
         counter' = counter - Share(t),
         waiters' = IF x = "asleep" THEN waiters + 1 ELSE waiters,
         x = "notify" => t \in Counters,
         x = "returned" => counter' = 0 \/ t \in Counters,
         UNCHANGED <<amount, owner>>
  PROVE  IInv'
<1> DEFINE at == [pc EXCEPT ![t] = x]
<1>1. /\ pc \in [Threads -> States] /\ at \in [Threads -> States]
      /\ \A u \in Threads : at[u] = IF u = t THEN x ELSE pc[u]
  BY DEF IInv, TypeOK, States
<1>2. /\ Late \in SUBSET Threads /\ t \in Late /\ Late' = Late \ {t}
  BY <1>1 DEF Late, Wakes
<1>3. \A S : Units(S)' = Units(S')
  BY DEF Units, Share
<1>4. Outstanding' = Cardinality(Units(Late \ {t})) /\ Outstanding = Cardinality(Units(Late))
  BY <1>2 DEF Outstanding, Late, Units, Share
<1>5. counter' = Outstanding' /\ counter' \in Nat /\ counter = counter' + Share(t) /\ Share(t) \in Nat
  BY <1>2, <1>4, UnitsRemove, UnitsFinite DEF IInv, Counts, TypeOK
<1>6. /\ Inside \in SUBSET Threads
      /\ Inside' = IF x = "asleep" THEN Inside \cup {t} ELSE Inside
      /\ t \notin Inside
  BY <1>1 DEF Inside, Wakes
<1>7. waiters' = Cardinality(Inside') /\ waiters' \in Nat
  BY <1>6, ThreadsCount DEF IInv, Counts, TypeOK
<1>8. TypeOK'
  BY <1>5, <1>7 DEF IInv, TypeOK, Wakes, States
<1>9. Open'
  <2> SUFFICES ASSUME NEW u \in Arrivers \cup Watchers,
                      pc'[u] \notin {"start", "asleep", "woken"}
               PROVE  counter' = 0
    BY DEF Open
  <2>1. u \in Threads /\ u \notin Counters
    BY LatchAssumption DEF LatchAssumption, Threads
  <2>2. CASE u = t
    <3>1. x = "returned"
      BY <1>1, <2>1, <2>2 DEF Wakes
    <3> QED
      BY <2>1, <2>2, <3>1
  <2>3. CASE u # t
    <3>1. pc[u] \notin {"start", "asleep", "woken"}
      BY <1>1, <2>1, <2>3 DEF Wakes
    <3>2. counter = 0
      BY <3>1 DEF IInv, Open
    <3>3. \A m, n \in Nat : m + n = 0 => m = 0
      OBVIOUS
    <3> QED
      BY <1>5, <3>2, <3>3
  <2> QED
    BY <2>2, <2>3
<1>10. Closing'
  <2>1. \A u \in Threads : pc[u] \notin {"closing", "parked", "destroyed"}
    BY <1>2 DEF IInv, Closing
  <2> QED
    BY <1>1, <2>1 DEF IInv, Closing, Wakes
<1> QED
  BY <1>5, <1>7, <1>8, <1>9, <1>10 DEF IInv, Counts

\* A thread inside the latch goes on, and may get out.
LEMMA GoOnStep ==
  ASSUME IInv, NEW t \in Threads, NEW x \in States,
         Wakes([pc EXCEPT ![t] = x]),
         \/ pc[t] = "notify" /\ x = "returned" /\ waiters' = waiters
         \/ pc[t] = "woken" /\ x = "returned" /\ counter = 0 /\ waiters' = waiters - 1
         \/ pc[t] \in {"asleep", "woken"} /\ x \in {"asleep", "woken"} /\ waiters' = waiters
         \/ pc[t] \in {"closing", "parked"} /\ x \in {"closing", "parked"} /\ waiters' = waiters
         \/ pc[t] = "closing" /\ x = "destroyed" /\ waiters = 0 /\ waiters' = waiters
         \/ /\ pc[t] = "returned" /\ x = "closing" /\ waiters' = waiters
            /\ t = owner /\ Late = {}
            /\ \A u \in Joined : pc[u] = "returned",
         UNCHANGED <<counter, amount, owner>>
  PROVE  IInv'
<1> DEFINE at == [pc EXCEPT ![t] = x]
<1>1. /\ pc \in [Threads -> States] /\ at \in [Threads -> States]
      /\ \A u \in Threads : at[u] = IF u = t THEN x ELSE pc[u]
  BY DEF IInv, TypeOK, States
<1>2. Late' = Late
  BY <1>1 DEF Late, Wakes
<1>3. counter' = Outstanding'
  <2>1. Outstanding' = Outstanding
    BY <1>2 DEF Outstanding, Late, Units, Share
  <2> QED
    BY <2>1 DEF IInv, Counts
<1>4. /\ Inside \in SUBSET Threads
      /\ Inside' = IF pc[t] = "woken" /\ x = "returned" THEN Inside \ {t} ELSE Inside
      /\ pc[t] = "woken" => t \in Inside
  BY <1>1 DEF Inside, Wakes
<1>5. waiters' = Cardinality(Inside') /\ waiters' \in Nat
  <2>1. waiters = Cardinality(Inside) /\ waiters \in Nat
    BY DEF IInv, Counts, TypeOK
  <2>2. CASE pc[t] = "woken" /\ x = "returned"
    <3>1. Inside' = Inside \ {t} /\ t \in Inside
      BY <1>4, <2>2
    <3>2. Cardinality(Inside \ {t}) = Cardinality(Inside) - 1 /\ Cardinality(Inside \ {t}) \in Nat
      BY <1>4, <3>1, ThreadsCount
    <3>3. waiters' = waiters - 1
      BY <2>2
    <3> QED
      BY <2>1, <3>1, <3>2, <3>3
  <2>3. CASE ~(pc[t] = "woken" /\ x = "returned")
    BY <1>4, <2>1, <2>3
  <2> QED
    BY <2>2, <2>3
<1>6. TypeOK'
  BY <1>5 DEF IInv, TypeOK, Wakes, States
<1>7. Open'
  <2> SUFFICES ASSUME NEW u \in Arrivers \cup Watchers,
                      pc'[u] \notin {"start", "asleep", "woken"}
               PROVE  counter = 0
    BY DEF Open
  <2>1. u \in Threads /\ u \notin Counters
    BY LatchAssumption DEF LatchAssumption, Threads
  <2>2. pc[u] \notin {"start", "asleep", "woken"} \/ (u = t /\ counter = 0)
    BY <1>1, <2>1 DEF Wakes
  <2> QED
    BY <2>2 DEF IInv, Open
<1>8. Closing'
  <2>1. waiters = 0 => Inside = {}
    BY <1>4, ThreadsCount DEF IInv, Counts
  <2>2. Inside = {} => Inside' = {}
    BY <1>4
  <2> QED
    BY <1>1, <1>2, <2>1, <2>2, LatchAssumption DEF IInv, Closing, Wakes, LatchAssumption, Threads
<1> QED
  BY <1>3, <1>5, <1>6, <1>7, <1>8 DEF IInv, Counts

-----------------------------------------------------------------------------
\* Every action is one of these steps.
LEMMA InvStep == IInv /\ [Next]_vars => IInv'
<1> SUFFICES ASSUME IInv, [Next]_vars PROVE IInv'
  OBVIOUS
<1>0. /\ pc \in [Threads -> States]
      /\ \A t \in Threads, x \in States : [pc EXCEPT ![t] = x] \in [Threads -> States]
  BY DEF IInv, TypeOK, States
<1>1. ASSUME NEW t \in Threads, Step(t) \/ SpuriousWakeUp(t) \/ Destroy(t) PROVE IInv'
  <2>1. CASE CountDownAndWait(t)
    <3>1. pc[t] = "start" /\ Share(t) = 1 /\ counter' = counter - 1 /\ UNCHANGED <<amount, owner>>
      BY <2>1, LatchAssumption DEF CountDownAndWait, Share, LatchAssumption
    <3>2. CASE counter = 1
      <4>1. Wakes([pc EXCEPT ![t] = "returned"]) /\ UNCHANGED waiters
        BY <1>0, <2>1, <3>2, NotifyEffect DEF CountDownAndWait, States
      <4>2. counter' = 0 /\ counter' = counter - Share(t)
        BY <3>1, <3>2
      <4> QED
        BY <3>1, <4>1, <4>2, BeginStep
    <3>3. CASE counter # 1
      <4>1. Wakes([pc EXCEPT ![t] = "asleep"]) /\ waiters' = waiters + 1
        BY <1>0, <2>1, <3>3, NotifyEffect DEF CountDownAndWait, States
      <4> QED
        BY <3>1, <4>1, BeginStep
    <3> QED
      BY <3>2, <3>3
  <2>2. CASE CountDown(t)
    <3> DEFINE x == IF counter' > 0 THEN "returned" ELSE "notify"
    <3>1. /\ pc[t] = "start" /\ t \in Counters /\ Share(t) = amount[t]
          /\ counter' = counter - amount[t] /\ UNCHANGED <<waiters, amount, owner>>
          /\ x \in {"notify", "returned"}
      BY <2>2 DEF CountDown, Share
    <3>2. Wakes([pc EXCEPT ![t] = x])
      BY <1>0, <2>2, NotifyEffect DEF CountDown, States
    <3> HIDE DEF x
    <3> QED
      BY <3>1, <3>2, BeginStep
  <2>3. CASE CountDownNotifies(t)
    <3>1. Wakes([pc EXCEPT ![t] = "returned"])
      BY <1>0, <2>3, NotifyEffect DEF CountDownNotifies, States
    <3> QED
      BY <2>3, <3>1, GoOnStep DEF CountDownNotifies, States
  <2>4. CASE Wait(t)
    <3>1. pc[t] = "start" /\ Share(t) = 0 /\ UNCHANGED <<counter, amount, owner>>
      BY <2>4, LatchAssumption DEF Wait, Share, LatchAssumption
    <3>2. counter' = counter - Share(t)
      BY <3>1 DEF IInv, TypeOK
    <3>3. CASE counter = 0
      <4>1. Wakes([pc EXCEPT ![t] = "returned"]) /\ UNCHANGED waiters
        BY <1>0, <2>4, <3>3, NotifyEffect DEF Wait, States
      <4> QED
        BY <3>1, <3>2, <3>3, <4>1, BeginStep
    <3>4. CASE counter # 0
      <4>1. Wakes([pc EXCEPT ![t] = "asleep"]) /\ waiters' = waiters + 1
        BY <1>0, <2>4, <3>4, NotifyEffect DEF Wait, States
      <4> QED
        BY <3>1, <3>2, <4>1, BeginStep
    <3> QED
      BY <3>3, <3>4
  <2>5. CASE WakeUp(t)
    <3>1. CASE counter = 0
      <4>1. Wakes([pc EXCEPT ![t] = "returned"]) /\ waiters' = waiters - 1
        BY <1>0, <2>5, <3>1, NotifyEffect DEF WakeUp, States
      <4> QED
        BY <2>5, <3>1, <4>1, GoOnStep DEF WakeUp, States
    <3>2. CASE counter # 0
      <4>1. Wakes([pc EXCEPT ![t] = "asleep"]) /\ UNCHANGED waiters
        BY <1>0, <2>5, <3>2, NotifyEffect DEF WakeUp, States
      <4> QED
        BY <2>5, <4>1, GoOnStep DEF WakeUp, States
    <3> QED
      BY <3>1, <3>2
  <2>6. CASE Close(t)
    <3>1. CASE waiters = 0
      <4>1. Wakes([pc EXCEPT ![t] = "destroyed"])
        BY <1>0, <2>6, <3>1, NotifyEffect DEF Close, States
      <4> QED
        BY <2>6, <3>1, <4>1, GoOnStep DEF Close, States
    <3>2. CASE waiters # 0
      <4>1. Wakes([pc EXCEPT ![t] = "parked"])
        BY <1>0, <2>6, <3>2, NotifyEffect DEF Close, States
      <4> QED
        BY <2>6, <4>1, GoOnStep DEF Close, States
    <3> QED
      BY <3>1, <3>2
  <2>7. CASE SpuriousWakeUp(t)
    <3>1. CASE pc[t] = "asleep"
      <4>1. pc' = [pc EXCEPT ![t] = "woken"]
        BY <2>7, <3>1 DEF SpuriousWakeUp, Woken
      <4>2. Wakes([pc EXCEPT ![t] = "woken"])
        BY <1>0, <4>1, NotifyEffect DEF States
      <4> QED
        BY <2>7, <3>1, <4>2, GoOnStep DEF SpuriousWakeUp, States
    <3>2. CASE pc[t] = "parked"
      <4>1. pc' = [pc EXCEPT ![t] = "closing"]
        BY <2>7, <3>2 DEF SpuriousWakeUp, Woken
      <4>2. Wakes([pc EXCEPT ![t] = "closing"])
        BY <1>0, <4>1, NotifyEffect DEF States
      <4> QED
        BY <2>7, <3>2, <4>2, GoOnStep DEF SpuriousWakeUp, States
    <3> QED
      BY <2>7, <3>1, <3>2 DEF SpuriousWakeUp, Woken
  <2>8. CASE Destroy(t)
    <3>1. Wakes([pc EXCEPT ![t] = "closing"])
      BY <1>0, <2>8, NotifyEffect DEF Destroy, States
    <3>2. Late = {}
      BY <2>8 DEF Destroy, Late
    <3> QED
      BY <2>8, <3>1, <3>2, GoOnStep DEF Destroy, States
  <2> QED
    BY <1>1, <2>1, <2>2, <2>3, <2>4, <2>5, <2>6, <2>7, <2>8 DEF Step
<1>2. CASE UNCHANGED vars
  BY <1>2 DEF vars, IInv, TypeOK, Counts, Outstanding, Units, Share, Inside, Open, Closing, Late
<1> QED
  BY <1>1, <1>2 DEF Next, Terminated

\* At first every unit of the counter belongs to a thread.
LEMMA InitInv == Init => IInv
<1> SUFFICES ASSUME Init PROVE IInv
  OBVIOUS
<1>1. Late = Threads /\ Inside = {}
  BY DEF Init, Late, Inside
<1>2. TypeOK
  <2>1. counter = Cardinality(Units(Threads)) /\ amount \in [Counters -> Amounts]
    BY DEF Init
  <2> QED
    BY <2>1, UnitsFinite DEF Init, TypeOK
<1>3. Counts
  BY <1>1, ThreadsCount DEF Init, Counts, Outstanding, Late
<1>4. Open /\ Closing
  BY DEF Init, Open, Closing, Threads
<1> QED
  BY <1>2, <1>3, <1>4 DEF IInv

\* The counter is what the threads still owe, and the destructor finds nobody.
THEOREM InductiveInvariant == Spec => []IInv
BY InitInv, InvStep, PTL DEF Spec

\* The latch is a barrier: counter_ and waiters_ are what they are taken for,
\* and nobody gets out of wait() or count_down_and_wait() before every call
\* has counted down.
THEOREM Barrier == Spec => []BarrierHolds
<1>1. IInv => BarrierHolds
  BY DEF IInv, Counts, Open, BarrierHolds, IsReady
<1> QED
  BY InductiveInvariant, <1>1, PTL

\* ~latch returns when no thread will touch mutex_ or cv_ any more, provided
\* that the threads that call count_down, which notifies after its unlock,
\* have been joined.
THEOREM Destruction ==
  ASSUME Counters \subseteq Joined
  PROVE  Spec => []NoUseAfterDestruction
<1>1. IInv => NoUseAfterDestruction
  <2> SUFFICES ASSUME IInv, pc[owner] = "destroyed", NEW t \in Threads
               PROVE  pc[t] \notin {"asleep", "woken", "notify"}
    BY DEF NoUseAfterDestruction
  <2>1. owner \in Threads
    BY DEF IInv, TypeOK
  <2>2. Inside = {} /\ \A u \in Joined : u # owner => pc[u] = "returned"
    BY <2>1 DEF IInv, Closing
  <2>3. pc[t] = "notify" => t \in Joined /\ t # owner
    BY DEF IInv, Closing
  <2> QED
    BY <2>2, <2>3 DEF Inside
<1> QED
  BY InductiveInvariant, <1>1, PTL

=============================================================================
