------------------------------- MODULE Latch -------------------------------
(***************************************************************************)
(* latch: a counter that threads decrement and wait for, and whose         *)
(* destructor waits for the threads still inside wait().  Sleepers with    *)
(* different conditions, the counter at zero and nobody inside, share one  *)
(* condition variable.  A critical section of mutex_ is one step; only     *)
(* count_down notifies outside of it.                                      *)
(*                                                                         *)
(* Each thread makes one call.  The calls count exactly to zero, as the    *)
(* assertions of the code demand, and the latch is destroyed by one of the *)
(* threads after its own call, when every other call has begun (the        *)
(* threads in Joined: has ended).                                          *)
(***************************************************************************)
EXTENDS Integers, FiniteSets

CONSTANTS
  Arrivers,  \* threads that call count_down_and_wait()
  Counters,  \* threads that call count_down(n)
  Watchers,  \* threads that call wait()
  Amounts,   \* values of n
  Joined     \* threads that whoever destroys the latch has joined

ASSUME LatchAssumption ==
  /\ Arrivers \cap Counters = {}
  /\ Watchers \cap (Arrivers \cup Counters) = {}
  /\ Amounts \subseteq Nat
  /\ Joined \subseteq Arrivers \cup Counters \cup Watchers
  /\ IsFiniteSet(Arrivers \cup Counters \cup Watchers)

Threads == Arrivers \cup Counters \cup Watchers

VARIABLES
  counter,  \* counter_
  waiters,  \* waiters_
  pc,       \* where each thread stands in its call
  amount,   \* the n of each count_down
  owner     \* the thread that destroys the latch

vars == <<counter, waiters, pc, amount, owner>>

\* What a call subtracts from the counter.
Share(t) == IF t \in Counters THEN amount[t] ELSE IF t \in Arrivers THEN 1 ELSE 0

\* One unit for everything a call of the threads in S subtracts.
Units(S) == UNION {{t} \X (1..Share(t)) : t \in S}

\* What the calls that have not begun will subtract from the counter.
Outstanding == Cardinality(Units({t \in Threads : pc[t] = "start"}))

Inside == {t \in Threads : pc[t] \in {"asleep", "woken"}}

Init ==
  /\ amount \in [Counters -> Amounts]
  /\ counter = Cardinality(Units(Threads))
  /\ waiters = 0
  /\ pc = [t \in Threads |-> "start"]
  /\ owner \in Threads

-----------------------------------------------------------------------------
\* cv_ and its sleepers: threads inside wait(), and the destructor.

Woken == [asleep |-> "woken", parked |-> "closing"]

NotifyAll(at) ==
  pc' = [t \in Threads |-> IF at[t] \in DOMAIN Woken THEN Woken[at[t]] ELSE at[t]]

NotifyOne(at) ==
  IF \A t \in Threads : at[t] \notin DOMAIN Woken
    THEN pc' = at
    ELSE \E t \in Threads : /\ at[t] \in DOMAIN Woken
                            /\ pc' = [at EXCEPT ![t] = Woken[@]]

SpuriousWakeUp(t) ==
  /\ pc[t] \in DOMAIN Woken
  /\ pc' = [pc EXCEPT ![t] = Woken[@]]
  /\ UNCHANGED <<counter, waiters, amount, owner>>

-----------------------------------------------------------------------------

\* Mutant: an arriving thread does not count as a waiter.
CountDownAndWait_NotCounted(t) ==
  /\ t \in Arrivers
  /\ pc[t] = "start"
  /\ counter' = counter - 1
  /\ IF counter = 1
       THEN NotifyAll([pc EXCEPT ![t] = "returned"])
       ELSE pc' = [pc EXCEPT ![t] = "asleep"]
  /\ UNCHANGED <<waiters, amount, owner>>

\* count_down_and_wait: the last one to arrive does not sleep.
CountDownAndWait(t) ==
  /\ t \in Arrivers
  /\ pc[t] = "start"
  /\ counter' = counter - 1
  /\ IF counter = 1
       THEN NotifyAll([pc EXCEPT ![t] = "returned"]) /\ UNCHANGED waiters
       ELSE pc' = [pc EXCEPT ![t] = "asleep"] /\ waiters' = waiters + 1
  /\ UNCHANGED <<amount, owner>>

\* count_down(n), up to the end of its critical section.
CountDown(t) ==
  /\ t \in Counters
  /\ pc[t] = "start"
  /\ counter' = counter - amount[t]
  /\ pc' = [pc EXCEPT ![t] = IF counter' > 0 THEN "returned" ELSE "notify"]
  /\ UNCHANGED <<waiters, amount, owner>>

\* cv_.notify_all() after the unlock.
CountDownNotifies(t) ==
  /\ pc[t] = "notify"
  /\ NotifyAll([pc EXCEPT ![t] = "returned"])
  /\ UNCHANGED <<counter, waiters, amount, owner>>

\* wait(): in and out at once if the latch is open.
Wait(t) ==
  /\ t \in Watchers
  /\ pc[t] = "start"
  /\ IF counter = 0
       THEN /\ IF waiters = 0
                 THEN NotifyOne([pc EXCEPT ![t] = "returned"])
                 ELSE pc' = [pc EXCEPT ![t] = "returned"]
            /\ UNCHANGED waiters
       ELSE /\ pc' = [pc EXCEPT ![t] = "asleep"]
            /\ waiters' = waiters + 1
  /\ UNCHANGED <<counter, amount, owner>>

\* Mutant: a thread that was woken does not look at the counter again.
WakeUp_NoRecheck(t) ==
  /\ pc[t] = "woken"
  /\ waiters' = waiters - 1
  /\ IF waiters' = 0
       THEN NotifyOne([pc EXCEPT ![t] = "returned"])
       ELSE pc' = [pc EXCEPT ![t] = "returned"]
  /\ UNCHANGED <<counter, amount, owner>>

\* Mutant: the last one out does not notify the destructor.
WakeUp_LeavesQuietly(t) ==
  /\ pc[t] = "woken"
  /\ IF counter = 0
       THEN pc' = [pc EXCEPT ![t] = "returned"] /\ waiters' = waiters - 1
       ELSE pc' = [pc EXCEPT ![t] = "asleep"] /\ UNCHANGED waiters
  /\ UNCHANGED <<counter, amount, owner>>

\* cv_.wait evaluates its predicate again; the last one out tells ~latch.
WakeUp(t) ==
  /\ pc[t] = "woken"
  /\ IF counter = 0
       THEN /\ waiters' = waiters - 1
            /\ IF waiters' = 0
                 THEN NotifyOne([pc EXCEPT ![t] = "returned"])
                 ELSE pc' = [pc EXCEPT ![t] = "returned"]
       ELSE /\ pc' = [pc EXCEPT ![t] = "asleep"]
            /\ UNCHANGED waiters
  /\ UNCHANGED <<counter, amount, owner>>

\* is_ready().
IsReady == counter = 0

-----------------------------------------------------------------------------

\* The program may destroy the latch.
Destroy(t) ==
  /\ t = owner
  /\ pc[t] = "returned"
  /\ \A u \in Threads : pc[u] # "start"
  /\ \A u \in Joined : pc[u] = "returned"
  /\ pc' = [pc EXCEPT ![t] = "closing"]
  /\ UNCHANGED <<counter, waiters, amount, owner>>

\* ~latch waits until nobody is inside.
Close(t) ==
  /\ pc[t] = "closing"
  /\ pc' = [pc EXCEPT ![t] = IF waiters = 0 THEN "destroyed" ELSE "parked"]
  /\ UNCHANGED <<counter, waiters, amount, owner>>

\* Every call is over (not a step of the code).
Terminated ==
  /\ \A t \in Threads : pc[t] = IF t = owner THEN "destroyed" ELSE "returned"
  /\ UNCHANGED vars

\* What a call does without being woken for no reason.
Step(t) ==
  \/ CountDownAndWait(t) \/ CountDown(t) \/ CountDownNotifies(t)
  \/ Wait(t) \/ WakeUp(t) \/ Close(t)

Next ==
  \/ \E t \in Threads : Step(t) \/ SpuriousWakeUp(t) \/ Destroy(t)
  \/ Terminated

Spec == Init /\ [][Next]_vars

\* Threads are scheduled; the latch need not be destroyed.
FairSpec == Spec /\ \A t \in Threads : WF_vars(Step(t))

-----------------------------------------------------------------------------

TypeOK ==
  /\ counter \in Nat
  /\ waiters \in Nat
  /\ pc \in [Threads -> {"start", "asleep", "woken", "notify", "returned",
                         "closing", "parked", "destroyed"}]
  /\ amount \in [Counters -> Amounts]
  /\ owner \in Threads

\* A single-use barrier: counter_ is what has still to be counted down,
\* waiters_ (unsigned) is the number of threads inside, and nobody leaves
\* wait() or count_down_and_wait() before everybody has counted down, spurious
\* wake-ups notwithstanding.
BarrierHolds ==
  /\ TypeOK
  /\ counter = Outstanding
  /\ waiters = Cardinality(Inside)
  /\ \A t \in Arrivers \cup Watchers : pc[t] \notin {"start", "asleep", "woken"} => IsReady

\* ~latch returns only when no thread will touch mutex_ or cv_ again.
NoUseAfterDestruction ==
  pc[owner] = "destroyed" =>
    \A t \in Threads : pc[t] \notin {"asleep", "woken", "notify"}

\* Once the counter is zero every thread inside wait() gets out, and a
\* destructor that has begun ends: the notification for the one is not
\* consumed by the other.
CallsReturn ==
  \A t \in Threads :
    /\ IsReady /\ pc[t] \in {"asleep", "woken"} ~> pc[t] = "returned"
    /\ pc[t] = "closing" ~> pc[t] = "destroyed"
=============================================================================
