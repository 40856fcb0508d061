------------------------- MODULE TimedWaiterProofs -------------------------
(***************************************************************************)
(* Proofs about TimedWaiter for any number of threads and waiters.         *)
(*                                                                         *)
(* Calls follows each notification from the state's stack to the one call  *)
(* it gets.  Flags ties the flag to that call, so that a flag is only set  *)
(* by a state that is ready, and Lives says who keeps the waiter until     *)
(* then: the notification itself if it owns a timed_waiter, otherwise the  *)
(* frame of a thread that cannot return before its flag is set.            *)
(***************************************************************************)
EXTENDS TimedWaiter, TLAPS

\* Somebody is calling a notification exactly when he has one to call.  The
\* same notification is not called twice, nor while it is in the list.
Calls ==
  /\ \A a \in Actors : job[a] # NONE <=> step[a] \in {"set", "notify", "free"}
  /\ \A a, b \in Actors : job[a] # NONE /\ job[a] = job[b] => a = b
  /\ \A a \in Actors : job[a] # NONE => job[a] \notin list
  /\ stack # {} => state = "pending"
  /\ list # {} => state = "ready"
  /\ state # "ready" => \A a \in Actors : step[a] = "none"

\* The notification of w has still to set its flag.
Unset(w) == w \in stack \cup list \/ \E a \in Actors : job[a] = w /\ step[a] = "set"

\* The notification of w exists.
Exists(w) == w \in stack \cup list \/ \E a \in Actors : job[a] = w

Flags ==
  \A w \in Waiters :
    /\ notified[w] => state = "ready"
    /\ Unset(w) => ~notified[w]
    /\ kind[w] = "none" => ~notified[w] /\ ~Exists(w)

\* A notification owns its timed_waiter.  A frame lives until its flag is
\* set, and its notification touches nothing afterwards.
Lives ==
  /\ \A w \in Waiters :
       /\ Exists(w) /\ kind[w] # "frame" => "notification" \in refs[w]
       /\ kind[w] = "frame" /\ ~notified[w] =>
            \E t \in Threads : t \in refs[w] /\ at[t] = w /\ tpc[t] \in {"check", "asleep"}
  /\ \A a \in Actors : step[a] = "notify" => kind[job[a]] # "frame"

\* A thread that waits holds its waiter.  It does not sleep before it has
\* called a notification that came late, and its flag is set then.
Waits ==
  \A t \in Threads :
    /\ tpc[t] # "idle" => t \in refs[at[t]] /\ kind[at[t]] # "none"
    /\ tpc[t] \in {"asleep", "expired"} => job[t] = NONE
    /\ tpc[t] = "expired" => kind[at[t]] # "frame"
    /\ tpc[t] # "idle" /\ late[t] => notified[at[t]] \/ (job[t] = at[t] /\ step[t] = "set")

\* The inductive invariant.
IInv == TypeOK /\ Calls /\ Flags /\ Lives /\ Waits /\ StatusIsTruthful

Kinds == {"timed", "call", "frame"}

-----------------------------------------------------------------------------
\* The variables keep their types.
LEMMA TypeStep == IInv /\ [Next]_vars => TypeOK'
<1> SUFFICES ASSUME IInv, [Next]_vars PROVE TypeOK'
  OBVIOUS
<1> USE WaiterAssumption DEF WaiterAssumption, Actors, nvars, wvars, tvars, IInv, TypeOK
<1>1. CASE MakeReady
  BY <1>1 DEF MakeReady
<1>2. CASE DropState
  BY <1>2 DEF DropState
<1>3. CASE FreeList
  BY <1>3 DEF FreeList
<1>4. ASSUME NEW w \in Waiters, CallNext(w) PROVE TypeOK'
  BY <1>4 DEF CallNext
<1>5. ASSUME NEW a \in Actors, SetFlag(a) PROVE TypeOK'
  BY <1>5 DEF SetFlag, Wake
<1>6. ASSUME NEW a \in Actors, NotifyAll(a) PROVE TypeOK'
  BY <1>6 DEF NotifyAll, Wake
<1>7. ASSUME NEW a \in Actors, EndCall(a) PROVE TypeOK'
  BY <1>7 DEF EndCall
<1>8. ASSUME NEW t \in Threads, NEW w \in Waiters, NEW k \in Kinds, Construct(t, w, k) PROVE TypeOK'
  <2>1. /\ kind' = [kind EXCEPT ![w] = k] /\ refs' = [refs EXCEPT ![w] = Owners(t, k)]
        /\ UNCHANGED <<state, list, notified, status>>
    BY <1>8 DEF Construct
  <2>2. Owners(t, k) \in SUBSET (Threads \cup {"notification"})
    BY DEF Owners
  <2>3. /\ stack' \subseteq Waiters
        /\ job' \in [Actors -> Waiters \cup {NONE}]
        /\ step' \in [Actors -> {"none", "set", "notify", "free", "loop", "over"}]
        /\ \A a \in Actors : step'[a] \in {"set", "notify", "free"} => job'[a] # NONE
    BY <1>8 DEF Construct
  <2>4. /\ tpc' \in [Threads -> {"idle", "check", "asleep", "expired"}]
        /\ at' \in [Threads -> Waiters \cup {NONE}]
        /\ \A u \in Threads : tpc'[u] # "idle" => at'[u] # NONE
    BY <1>8 DEF Construct
  <2>5. late' \in [Threads -> BOOLEAN]
    <3>1. (state = "ready") \in BOOLEAN /\ late \in [Threads -> BOOLEAN]
      OBVIOUS
    <3>2. late' = late \/ late' = [late EXCEPT ![t] = (state = "ready")]
      BY <1>8 DEF Construct
    <3> QED
      BY <3>1, <3>2
  <2> HIDE DEF Owners
  <2> QED
    BY <2>1, <2>2, <2>3, <2>4, <2>5 DEF Kinds
<1>9. ASSUME NEW t \in Threads, NEW u \in Threads, NEW w \in Waiters, Copy(t, u, w) PROVE TypeOK'
  BY <1>9 DEF Copy
<1>10. ASSUME NEW t \in Threads, NEW w \in Waiters, DropWaiter(t, w) PROVE TypeOK'
  BY <1>10 DEF DropWaiter
<1>11. ASSUME NEW t \in Threads, NEW w \in Waiters, BeginWait(t, w) PROVE TypeOK'
  BY <1>11 DEF BeginWait
<1>12. ASSUME NEW t \in Threads, CheckSleeps(t) PROVE TypeOK'
  BY <1>12 DEF CheckSleeps
<1>13. ASSUME NEW t \in Threads, CheckReturns(t) PROVE TypeOK'
  BY <1>13 DEF CheckReturns, Return
<1>14. ASSUME NEW t \in Threads, Expire(t) PROVE TypeOK'
  BY <1>14 DEF Expire, Return
<1>15. ASSUME NEW t \in Threads, TimeOut(t) PROVE TypeOK'
  BY <1>15 DEF TimeOut
<1>16. ASSUME NEW t \in Threads, SpuriousWakeUp(t) PROVE TypeOK'
  BY <1>16 DEF SpuriousWakeUp
<1>17. CASE UNCHANGED vars
  BY <1>17 DEF vars
<1> HIDE DEF TypeOK, IInv
<1> QED
  BY <1>1, <1>2, <1>3, <1>4, <1>5, <1>6, <1>7, <1>8, <1>9,
     <1>10, <1>11, <1>12, <1>13, <1>14, <1>15, <1>16, <1>17
     DEF Next, ProducerStep, NotificationStep, WaitStep, Use, Terminated, Kinds

\* A notification is called once.
LEMMA CallsStep == IInv /\ [Next]_vars => Calls'
<1> SUFFICES ASSUME IInv, [Next]_vars PROVE Calls'
  OBVIOUS
<1> USE WaiterAssumption DEF WaiterAssumption, Actors, nvars, wvars, tvars, IInv, TypeOK, Calls
<1>1. CASE MakeReady
  BY <1>1 DEF MakeReady
<1>2. CASE DropState
  BY <1>2 DEF DropState
<1>3. CASE FreeList
  BY <1>3 DEF FreeList
<1>4. ASSUME NEW w \in Waiters, CallNext(w) PROVE Calls'
  BY <1>4 DEF CallNext
<1>5. ASSUME NEW a \in Actors, SetFlag(a) PROVE Calls'
  BY <1>5 DEF SetFlag, Wake
<1>6. ASSUME NEW a \in Actors, NotifyAll(a) PROVE Calls'
  BY <1>6 DEF NotifyAll, Wake
<1>7. ASSUME NEW a \in Actors, EndCall(a) PROVE Calls'
  BY <1>7 DEF EndCall
<1>8. ASSUME NEW t \in Threads, NEW w \in Waiters, NEW k \in Kinds, Construct(t, w, k) PROVE Calls'
  BY <1>8 DEF Construct, Owners, Kinds, Flags, Exists
<1>9. ASSUME NEW t \in Threads, NEW u \in Threads, NEW w \in Waiters, Copy(t, u, w) PROVE Calls'
  BY <1>9 DEF Copy
<1>10. ASSUME NEW t \in Threads, NEW w \in Waiters, DropWaiter(t, w) PROVE Calls'
  BY <1>10 DEF DropWaiter
<1>11. ASSUME NEW t \in Threads, NEW w \in Waiters, BeginWait(t, w) PROVE Calls'
  BY <1>11 DEF BeginWait
<1>12. ASSUME NEW t \in Threads, CheckSleeps(t) PROVE Calls'
  BY <1>12 DEF CheckSleeps
<1>13. ASSUME NEW t \in Threads, CheckReturns(t) PROVE Calls'
  BY <1>13 DEF CheckReturns, Return
<1>14. ASSUME NEW t \in Threads, Expire(t) PROVE Calls'
  BY <1>14 DEF Expire, Return
<1>15. ASSUME NEW t \in Threads, TimeOut(t) PROVE Calls'
  BY <1>15 DEF TimeOut
<1>16. ASSUME NEW t \in Threads, SpuriousWakeUp(t) PROVE Calls'
  BY <1>16 DEF SpuriousWakeUp
<1>17. CASE UNCHANGED vars
  BY <1>17 DEF vars
<1> QED
  BY <1>1, <1>2, <1>3, <1>4, <1>5, <1>6, <1>7, <1>8, <1>9,
     <1>10, <1>11, <1>12, <1>13, <1>14, <1>15, <1>16, <1>17
     DEF Next, ProducerStep, NotificationStep, WaitStep, Use, Terminated, Kinds

\* A flag is set by the one call of its notification.
LEMMA FlagsStep == IInv /\ [Next]_vars => Flags'
<1> SUFFICES ASSUME IInv, [Next]_vars PROVE Flags'
  OBVIOUS
<1> USE WaiterAssumption DEF WaiterAssumption, Actors, nvars, wvars, tvars, IInv, TypeOK, Calls,
           Flags, Unset, Exists
<1>1. CASE MakeReady
  BY <1>1 DEF MakeReady
<1>2. CASE DropState
  BY <1>2 DEF DropState
<1>3. CASE FreeList
  BY <1>3 DEF FreeList
<1>4. ASSUME NEW w \in Waiters, CallNext(w) PROVE Flags'
  BY <1>4 DEF CallNext
<1>5. ASSUME NEW a \in Actors, SetFlag(a) PROVE Flags'
  BY <1>5 DEF SetFlag, Wake
<1>6. ASSUME NEW a \in Actors, NotifyAll(a) PROVE Flags'
  BY <1>6 DEF NotifyAll, Wake
<1>7. ASSUME NEW a \in Actors, EndCall(a) PROVE Flags'
  BY <1>7 DEF EndCall
<1>8. ASSUME NEW t \in Threads, NEW w \in Waiters, NEW k \in Kinds, Construct(t, w, k) PROVE Flags'
  BY <1>8 DEF Construct, Owners, Kinds
<1>9. ASSUME NEW t \in Threads, NEW u \in Threads, NEW w \in Waiters, Copy(t, u, w) PROVE Flags'
  BY <1>9 DEF Copy
<1>10. ASSUME NEW t \in Threads, NEW w \in Waiters, DropWaiter(t, w) PROVE Flags'
  BY <1>10 DEF DropWaiter
<1>11. ASSUME NEW t \in Threads, NEW w \in Waiters, BeginWait(t, w) PROVE Flags'
  BY <1>11 DEF BeginWait
<1>12. ASSUME NEW t \in Threads, CheckSleeps(t) PROVE Flags'
  BY <1>12 DEF CheckSleeps
<1>13. ASSUME NEW t \in Threads, CheckReturns(t) PROVE Flags'
  BY <1>13 DEF CheckReturns, Return
<1>14. ASSUME NEW t \in Threads, Expire(t) PROVE Flags'
  BY <1>14 DEF Expire, Return
<1>15. ASSUME NEW t \in Threads, TimeOut(t) PROVE Flags'
  BY <1>15 DEF TimeOut
<1>16. ASSUME NEW t \in Threads, SpuriousWakeUp(t) PROVE Flags'
  BY <1>16 DEF SpuriousWakeUp
<1>17. CASE UNCHANGED vars
  BY <1>17 DEF vars
<1> QED
  BY <1>1, <1>2, <1>3, <1>4, <1>5, <1>6, <1>7, <1>8, <1>9,
     <1>10, <1>11, <1>12, <1>13, <1>14, <1>15, <1>16, <1>17
     DEF Next, ProducerStep, NotificationStep, WaitStep, Use, Terminated, Kinds

\* Whoever owns a waiter keeps it.
LEMMA LivesStep == IInv /\ [Next]_vars => Lives'
<1> SUFFICES ASSUME IInv, [Next]_vars PROVE Lives'
  OBVIOUS
<1> USE WaiterAssumption DEF WaiterAssumption, Actors, nvars, wvars, tvars, IInv, TypeOK, Calls, Lives, Exists
<1>1. CASE MakeReady
  BY <1>1 DEF MakeReady, Flags, Waits, Unset
<1>2. CASE DropState
  BY <1>2 DEF DropState, Flags, Waits, Unset
<1>3. CASE FreeList
  BY <1>3 DEF FreeList, Flags, Waits, Unset
<1>4. ASSUME NEW w \in Waiters, CallNext(w) PROVE Lives'
  BY <1>4 DEF CallNext, Flags, Waits, Unset
<1>5. ASSUME NEW a \in Actors, SetFlag(a) PROVE Lives'
  BY <1>5 DEF SetFlag, Wake, Flags, Unset
<1>6. ASSUME NEW a \in Actors, NotifyAll(a) PROVE Lives'
  BY <1>6 DEF NotifyAll, Wake, Flags, Waits, Unset
<1>7. ASSUME NEW a \in Actors, EndCall(a) PROVE Lives'
  BY <1>7 DEF EndCall, Flags, Waits, Unset
<1>8. ASSUME NEW t \in Threads, NEW w \in Waiters, NEW k \in Kinds, Construct(t, w, k) PROVE Lives'
  <2>1. /\ kind[w] = "none" /\ k \in Kinds /\ tpc[t] = "idle" /\ job[t] = NONE
        /\ kind' = [kind EXCEPT ![w] = k] /\ refs' = [refs EXCEPT ![w] = Owners(t, k)]
        /\ UNCHANGED <<state, list, notified, status>>
    BY <1>8 DEF Construct
  <2>2. \A v \in Waiters : Exists(v)' => v = w \/ Exists(v)
    BY <1>8 DEF Construct
  <2>3. \A u \in Threads : u # t \/ k = "timed" => tpc'[u] = tpc[u] /\ at'[u] = at[u]
    BY <1>8 DEF Construct
  <2>4. k = "frame" => tpc'[t] = "check" /\ at'[t] = w /\ t \in Owners(t, k)
    BY <1>8 DEF Construct, Owners
  <2>5. k # "frame" => "notification" \in Owners(t, k)
    BY DEF Owners
  <2>6. \A a \in Actors : step'[a] = "notify" => step[a] = "notify" /\ job'[a] = job[a] /\ job[a] # w
    BY <1>8 DEF Construct, Flags
  <2> HIDE DEF Exists
  <2>7. \A v \in Waiters : v # w =>
          /\ Exists(v)' /\ kind'[v] # "frame" => "notification" \in refs'[v]
          /\ kind'[v] = "frame" /\ ~notified[v] =>
               \E u \in Threads : u \in refs'[v] /\ at'[u] = v /\ tpc'[u] \in {"check", "asleep"}
    BY <2>1, <2>2, <2>3
  <2>8. kind'[w] = k /\ refs'[w] = Owners(t, k)
    BY <2>1
  <2>9. \A a \in Actors : step'[a] = "notify" => kind'[job'[a]] # "frame"
    BY <2>1, <2>6
  <2> QED
    BY <2>1, <2>4, <2>5, <2>7, <2>8, <2>9
<1>9. ASSUME NEW t \in Threads, NEW u \in Threads, NEW w \in Waiters, Copy(t, u, w) PROVE Lives'
  BY <1>9 DEF Copy, Flags, Waits, Unset
<1>10. ASSUME NEW t \in Threads, NEW w \in Waiters, DropWaiter(t, w) PROVE Lives'
  BY <1>10 DEF DropWaiter, Flags, Waits, Unset
<1>11. ASSUME NEW t \in Threads, NEW w \in Waiters, BeginWait(t, w) PROVE Lives'
  BY <1>11 DEF BeginWait, Flags, Waits, Unset
<1>12. ASSUME NEW t \in Threads, CheckSleeps(t) PROVE Lives'
  BY <1>12 DEF CheckSleeps, Flags, Waits, Unset
<1>13. ASSUME NEW t \in Threads, CheckReturns(t) PROVE Lives'
  BY <1>13 DEF CheckReturns, Return, Flags, Waits, Unset
<1>14. ASSUME NEW t \in Threads, Expire(t) PROVE Lives'
  BY <1>14 DEF Expire, Return, Flags, Waits, Unset
<1>15. ASSUME NEW t \in Threads, TimeOut(t) PROVE Lives'
  BY <1>15 DEF TimeOut, Flags, Waits, Unset
<1>16. ASSUME NEW t \in Threads, SpuriousWakeUp(t) PROVE Lives'
  BY <1>16 DEF SpuriousWakeUp, Flags, Waits, Unset
<1>17. CASE UNCHANGED vars
  BY <1>17 DEF vars
<1> QED
  BY <1>1, <1>2, <1>3, <1>4, <1>5, <1>6, <1>7, <1>8, <1>9,
     <1>10, <1>11, <1>12, <1>13, <1>14, <1>15, <1>16, <1>17
     DEF Next, ProducerStep, NotificationStep, WaitStep, Use, Terminated, Kinds

\* Threads stay on the waiters they hold.
LEMMA WaitsStep == IInv /\ [Next]_vars => Waits'
<1> SUFFICES ASSUME IInv, [Next]_vars PROVE Waits'
  OBVIOUS
<1> USE WaiterAssumption DEF WaiterAssumption, Actors, nvars, wvars, tvars, IInv, TypeOK, Calls, Waits
<1>1. CASE MakeReady
  BY <1>1 DEF MakeReady
<1>2. CASE DropState
  BY <1>2 DEF DropState
<1>3. CASE FreeList
  BY <1>3 DEF FreeList
<1>4. ASSUME NEW w \in Waiters, CallNext(w) PROVE Waits'
  BY <1>4 DEF CallNext
<1>5. ASSUME NEW a \in Actors, SetFlag(a) PROVE Waits'
  BY <1>5 DEF SetFlag, Wake
<1>6. ASSUME NEW a \in Actors, NotifyAll(a) PROVE Waits'
  BY <1>6 DEF NotifyAll, Wake
<1>7. ASSUME NEW a \in Actors, EndCall(a) PROVE Waits'
  BY <1>7 DEF EndCall
<1>8. ASSUME NEW t \in Threads, NEW w \in Waiters, NEW k \in Kinds, Construct(t, w, k) PROVE Waits'
  BY <1>8 DEF Construct, Owners, Kinds
<1>9. ASSUME NEW t \in Threads, NEW u \in Threads, NEW w \in Waiters, Copy(t, u, w) PROVE Waits'
  BY <1>9 DEF Copy
<1>10. ASSUME NEW t \in Threads, NEW w \in Waiters, DropWaiter(t, w) PROVE Waits'
  BY <1>10 DEF DropWaiter
<1>11. ASSUME NEW t \in Threads, NEW w \in Waiters, BeginWait(t, w) PROVE Waits'
  BY <1>11 DEF BeginWait
<1>12. ASSUME NEW t \in Threads, CheckSleeps(t) PROVE Waits'
  BY <1>12 DEF CheckSleeps
<1>13. ASSUME NEW t \in Threads, CheckReturns(t) PROVE Waits'
  BY <1>13 DEF CheckReturns, Return
<1>14. ASSUME NEW t \in Threads, Expire(t) PROVE Waits'
  BY <1>14 DEF Expire, Return
<1>15. ASSUME NEW t \in Threads, TimeOut(t) PROVE Waits'
  BY <1>15 DEF TimeOut
<1>16. ASSUME NEW t \in Threads, SpuriousWakeUp(t) PROVE Waits'
  BY <1>16 DEF SpuriousWakeUp
<1>17. CASE UNCHANGED vars
  BY <1>17 DEF vars
<1> QED
  BY <1>1, <1>2, <1>3, <1>4, <1>5, <1>6, <1>7, <1>8, <1>9,
     <1>10, <1>11, <1>12, <1>13, <1>14, <1>15, <1>16, <1>17
     DEF Next, ProducerStep, NotificationStep, WaitStep, Use, Terminated, Kinds

\* A call returns ready when its flag is set, and only then.
LEMMA StatusStep == IInv /\ [Next]_vars => StatusIsTruthful'
<1> SUFFICES ASSUME IInv, [Next]_vars PROVE StatusIsTruthful'
  OBVIOUS
<1> USE WaiterAssumption DEF WaiterAssumption, Actors, nvars, wvars, tvars, IInv, TypeOK, Calls,
           Waits, StatusIsTruthful
<1>1. CASE MakeReady
  BY <1>1 DEF MakeReady
<1>2. CASE DropState
  BY <1>2 DEF DropState
<1>3. CASE FreeList
  BY <1>3 DEF FreeList
<1>4. ASSUME NEW w \in Waiters, CallNext(w) PROVE StatusIsTruthful'
  BY <1>4 DEF CallNext
<1>5. ASSUME NEW a \in Actors, SetFlag(a) PROVE StatusIsTruthful'
  BY <1>5 DEF SetFlag, Wake
<1>6. ASSUME NEW a \in Actors, NotifyAll(a) PROVE StatusIsTruthful'
  BY <1>6 DEF NotifyAll, Wake
<1>7. ASSUME NEW a \in Actors, EndCall(a) PROVE StatusIsTruthful'
  BY <1>7 DEF EndCall
<1>8. ASSUME NEW t \in Threads, NEW w \in Waiters, NEW k \in Kinds, Construct(t, w, k) PROVE StatusIsTruthful'
  BY <1>8 DEF Construct, Owners, Kinds
<1>9. ASSUME NEW t \in Threads, NEW u \in Threads, NEW w \in Waiters, Copy(t, u, w) PROVE StatusIsTruthful'
  BY <1>9 DEF Copy
<1>10. ASSUME NEW t \in Threads, NEW w \in Waiters, DropWaiter(t, w) PROVE StatusIsTruthful'
  BY <1>10 DEF DropWaiter
<1>11. ASSUME NEW t \in Threads, NEW w \in Waiters, BeginWait(t, w) PROVE StatusIsTruthful'
  BY <1>11 DEF BeginWait
<1>12. ASSUME NEW t \in Threads, CheckSleeps(t) PROVE StatusIsTruthful'
  BY <1>12 DEF CheckSleeps
<1>13. ASSUME NEW t \in Threads, CheckReturns(t) PROVE StatusIsTruthful'
  BY <1>13 DEF CheckReturns, Return, Flags
<1>14. ASSUME NEW t \in Threads, Expire(t) PROVE StatusIsTruthful'
  BY <1>14 DEF Expire, Return, Flags
<1>15. ASSUME NEW t \in Threads, TimeOut(t) PROVE StatusIsTruthful'
  BY <1>15 DEF TimeOut
<1>16. ASSUME NEW t \in Threads, SpuriousWakeUp(t) PROVE StatusIsTruthful'
  BY <1>16 DEF SpuriousWakeUp
<1>17. CASE UNCHANGED vars
  BY <1>17 DEF vars
<1> QED
  BY <1>1, <1>2, <1>3, <1>4, <1>5, <1>6, <1>7, <1>8, <1>9,
     <1>10, <1>11, <1>12, <1>13, <1>14, <1>15, <1>16, <1>17
     DEF Next, ProducerStep, NotificationStep, WaitStep, Use, Terminated, Kinds

-----------------------------------------------------------------------------
\* The invariant holds before the wait begins.
LEMMA InitInv == Init => IInv
BY WaiterAssumption DEF WaiterAssumption, Init, IInv, TypeOK, Calls, Flags, Lives, Waits,
   StatusIsTruthful, Unset, Exists, Actors

\* The waiter lives as long as somebody may touch it, and its flag tells of
\* the notification.
THEOREM InductiveInvariant == Spec => []IInv
<1>1. IInv /\ [Next]_vars => IInv'
  BY TypeStep, CallsStep, FlagsStep, LivesStep, WaitsStep, StatusStep DEF IInv
<1> QED
  BY InitInv, <1>1, PTL DEF Spec

\* What wait_for and wait_until return is true: ready only if the state is,
\* and no timeout from a call that began after the notification.
THEOREM StatusTrue == Spec => []StatusIsTruthful
<1>1. IInv => StatusIsTruthful
  BY DEF IInv
<1> QED
  BY InductiveInvariant, <1>1, PTL

\* Nobody locks, notifies or waits on a waiter that is gone, be it a
\* timed_waiter or the stack frame of wait().
THEOREM WaiterAlive == Spec => []AliveWhileNotified
<1>1. IInv => AliveWhileNotified
  <2> SUFFICES ASSUME IInv PROVE AliveWhileNotified
    OBVIOUS
  <2>1. ASSUME NEW a \in Actors, step[a] \in {"set", "notify"} PROVE refs[job[a]] # {}
    <3>1. job[a] \in Waiters /\ Exists(job[a])
      BY <2>1 DEF IInv, TypeOK, Exists
    <3>2. CASE kind[job[a]] = "frame"
      <4>1. Unset(job[a])
        BY <2>1, <3>2 DEF IInv, Lives, Unset
      <4> QED
        BY <3>1, <3>2, <4>1 DEF IInv, Flags, Lives
    <3>3. CASE kind[job[a]] # "frame"
      BY <3>1, <3>3 DEF IInv, Lives
    <3> QED
      BY <3>2, <3>3
  <2>2. \A t \in Threads : tpc[t] # "idle" => t \in refs[at[t]]
    BY DEF IInv, Waits
  <2> QED
    BY <2>1, <2>2 DEF AliveWhileNotified, IInv
<1> QED
  BY InductiveInvariant, <1>1, PTL

=============================================================================
