---------------------------- MODULE TimedWaiter ----------------------------
(***************************************************************************)
(* How threads block until a shared state is ready: timed_waiter, whose    *)
(* copies share a mutex, a condition variable and a flag with the          *)
(* notification they attach; the deprecated wait_for and wait_until of a   *)
(* future, which make a timed_waiter for one call; and wait(), which keeps *)
(* the three in its stack frame.                                           *)
(*                                                                         *)
(* A timed_waiter does not own the shared state, which may die before it   *)
(* is ready.  A critical section of the waiter's mutex is one step.  Each  *)
(* member of Waiters is constructed at most once: their number bounds the  *)
(* waiters made, not the calls.                                            *)
(***************************************************************************)
EXTENDS FiniteSets

CONSTANTS
  Threads,   \* threads that wait
  Waiters,   \* the objects they wait on
  Producer,  \* the thread that makes the state ready
  NONE       \* no waiter

ASSUME WaiterAssumption ==
  /\ {Producer, "notification"} \cap Threads = {}
  /\ NONE \notin Waiters

VARIABLES
  state,     \* the shared state is "pending", "ready" or "destroyed"
  stack,     \* notifications attached to it
  list,      \* notifications its execute still has to call
  kind,      \* what each waiter is
  notified,  \* waiter::notified, or the flag of wait()
  refs,      \* owners of each waiter
  job,       \* the waiter whose notification a thread is calling
  step,      \* how far that call has got
  tpc,       \* where each thread stands in wait, wait_for or wait_until
  at,        \* the waiter it waits on
  status,    \* the future_status its last call has returned
  late       \* the notification was over before that call waited

nvars == <<state, stack, list, job, step>>
wvars == <<kind, notified, refs>>
tvars == <<tpc, at, status, late>>
vars == <<nvars, wvars, tvars>>

Actors == Threads \cup {Producer}

Init ==
  /\ state = "pending"
  /\ stack = {}
  /\ list = {}
  /\ kind = [w \in Waiters |-> "none"]
  /\ notified = [w \in Waiters |-> FALSE]
  /\ refs = [w \in Waiters |-> {}]
  /\ job = [a \in Actors |-> NONE]
  /\ step = [a \in Actors |-> "none"]
  /\ tpc = [t \in Threads |-> "idle"]
  /\ at = [t \in Threads |-> NONE]
  /\ status = [t \in Threads |-> "none"]
  /\ late = [t \in Threads |-> FALSE]

-----------------------------------------------------------------------------
\* Construction.

\* The notification of a timed_waiter owns the waiter, that of wait() refers
\* to its caller's stack frame.
Owners(t, k) == IF k = "frame" THEN {t} ELSE {t, "notification"}

\* Mutant: a push that the ready state refuses is forgotten.
Construct_RefusedIgnored(t, w, k) ==
  /\ tpc[t] = "idle"
  /\ job[t] = NONE
  /\ kind[w] = "none"
  /\ state # "destroyed"
  /\ kind' = [kind EXCEPT ![w] = k]
  /\ refs' = [refs EXCEPT ![w] = Owners(t, k)]
  /\ stack' = IF state = "pending" THEN stack \cup {w} ELSE stack
  /\ UNCHANGED <<job, step>>
  /\ IF k = "timed"
       THEN UNCHANGED <<tpc, at, late>>
       ELSE /\ tpc' = [tpc EXCEPT ![t] = "check"]
            /\ at' = [at EXCEPT ![t] = w]
            /\ late' = [late EXCEPT ![t] = (state = "ready")]
  /\ UNCHANGED <<state, list, notified, status>>

\* notify() attaches the notification; if the state is ready already this
\* thread calls it.  A timed_waiter of the user is kept for later calls.
Construct(t, w, k) ==
  /\ tpc[t] = "idle"
  /\ job[t] = NONE
  /\ kind[w] = "none"
  /\ state # "destroyed"
  /\ kind' = [kind EXCEPT ![w] = k]
  /\ refs' = [refs EXCEPT ![w] = Owners(t, k)]
  /\ IF state = "pending"
       THEN stack' = stack \cup {w} /\ UNCHANGED <<job, step>>
       ELSE /\ job' = [job EXCEPT ![t] = w]
            /\ step' = [step EXCEPT ![t] = "set"]
            /\ UNCHANGED stack
  /\ IF k = "timed"
       THEN UNCHANGED <<tpc, at, late>>
       ELSE /\ tpc' = [tpc EXCEPT ![t] = "check"]
            /\ at' = [at EXCEPT ![t] = w]
            /\ late' = [late EXCEPT ![t] = (state = "ready")]
  /\ UNCHANGED <<state, list, notified, status>>

\* A copy of the timed_waiter for another thread.
Copy(t, u, w) ==
  /\ kind[w] = "timed"
  /\ t \in refs[w]
  /\ job[t] = NONE
  /\ refs' = [refs EXCEPT ![w] = @ \cup {u}]
  /\ UNCHANGED <<nvars, kind, notified, tvars>>

DropWaiter(t, w) ==
  /\ kind[w] = "timed"
  /\ t \in refs[w]
  /\ tpc[t] = "idle"
  /\ job[t] = NONE
  /\ refs' = [refs EXCEPT ![w] = @ \ {t}]
  /\ UNCHANGED <<nvars, kind, notified, tvars>>

-----------------------------------------------------------------------------
\* The notification, called by the producer or by the thread that came late.

Wake(w) ==
  tpc' = [t \in Threads |-> IF at[t] = w /\ tpc[t] = "asleep" THEN "check" ELSE tpc[t]]

\* Mutant: wait()'s notification, too, notifies after the unlock.
SetFlag_NotifiesLater(a) ==
  /\ step[a] = "set"
  /\ notified' = [notified EXCEPT ![job[a]] = TRUE]
  /\ step' = [step EXCEPT ![a] = "notify"]
  /\ UNCHANGED <<state, stack, list, kind, refs, job, tpc, at, status, late>>

\* Under the lock.  wait() notifies before it unlocks, timed_waiter after.
SetFlag(a) ==
  /\ step[a] = "set"
  /\ notified' = [notified EXCEPT ![job[a]] = TRUE]
  /\ IF kind[job[a]] = "frame"
       THEN Wake(job[a]) /\ step' = [step EXCEPT ![a] = "free"]
       ELSE step' = [step EXCEPT ![a] = "notify"] /\ UNCHANGED tpc
  /\ UNCHANGED <<state, stack, list, kind, refs, job, at, status, late>>

NotifyAll(a) ==
  /\ step[a] = "notify"
  /\ Wake(job[a])
  /\ step' = [step EXCEPT ![a] = "free"]
  /\ UNCHANGED <<state, stack, list, job, wvars, at, status, late>>

\* The call is over.  A late thread destroys the notification at once, the
\* producer keeps it until its list is freed.
EndCall(a) ==
  /\ step[a] = "free"
  /\ refs' = IF a = Producer THEN refs ELSE [refs EXCEPT ![job[a]] = @ \ {"notification"}]
  /\ job' = [job EXCEPT ![a] = NONE]
  /\ step' = [step EXCEPT ![a] = IF a = Producer THEN "loop" ELSE "none"]
  /\ UNCHANGED <<state, stack, list, kind, notified, tvars>>

MakeReady ==
  /\ state = "pending"
  /\ state' = "ready"
  /\ list' = stack
  /\ stack' = {}
  /\ step' = [step EXCEPT ![Producer] = "loop"]
  /\ UNCHANGED <<job, wvars, tvars>>

CallNext(w) ==
  /\ step[Producer] = "loop"
  /\ w \in list
  /\ list' = list \ {w}
  /\ job' = [job EXCEPT ![Producer] = w]
  /\ step' = [step EXCEPT ![Producer] = "set"]
  /\ UNCHANGED <<state, stack, wvars, tvars>>

FreeList ==
  /\ step[Producer] = "loop"
  /\ list = {}
  /\ step' = [step EXCEPT ![Producer] = "over"]
  /\ refs' = [w \in Waiters |->
                IF \E t \in Threads : job[t] = w THEN refs[w] ELSE refs[w] \ {"notification"}]
  /\ UNCHANGED <<state, stack, list, job, kind, notified, tvars>>

\* The last future is dropped: the notifications die with the state.  A
\* thread inside the future's own wait functions has not dropped it.
DropState ==
  /\ state = "pending"
  /\ \A t \in Threads : at[t] # NONE => kind[at[t]] = "timed"
  /\ state' = "destroyed"
  /\ stack' = {}
  /\ refs' = [w \in Waiters |-> refs[w] \ {"notification"}]
  /\ UNCHANGED <<list, job, step, kind, notified, tvars>>

-----------------------------------------------------------------------------
\* wait, wait_for and wait_until.

\* A call of timed_waiter::wait_for or wait_until.
BeginWait(t, w) ==
  /\ tpc[t] = "idle"
  /\ job[t] = NONE
  /\ kind[w] = "timed"
  /\ t \in refs[w]
  /\ tpc' = [tpc EXCEPT ![t] = "check"]
  /\ at' = [at EXCEPT ![t] = w]
  /\ late' = [late EXCEPT ![t] = notified[w]]
  /\ UNCHANGED <<nvars, wvars, status>>

\* The predicate is evaluated under the lock.
CheckSleeps(t) ==
  /\ tpc[t] = "check"
  /\ job[t] = NONE
  /\ ~notified[at[t]]
  /\ tpc' = [tpc EXCEPT ![t] = "asleep"]
  /\ UNCHANGED <<nvars, wvars, at, status, late>>

\* The call returns s.  A waiter made for one call goes with it.
Return(t, s) ==
  /\ tpc' = [tpc EXCEPT ![t] = "idle"]
  /\ at' = [at EXCEPT ![t] = NONE]
  /\ status' = [status EXCEPT ![t] = s]
  /\ refs' = IF kind[at[t]] = "timed" THEN refs ELSE [refs EXCEPT ![at[t]] = @ \ {t}]

\* Mutant: any wake-up is taken for the notification.
CheckReturns_NoPredicate(t) ==
  /\ tpc[t] = "check"
  /\ job[t] = NONE
  /\ Return(t, "ready")
  /\ UNCHANGED <<nvars, kind, notified, late>>

CheckReturns(t) ==
  /\ tpc[t] = "check"
  /\ job[t] = NONE
  /\ notified[at[t]]
  /\ Return(t, "ready")
  /\ UNCHANGED <<nvars, kind, notified, late>>

\* wait_for and wait_until: the time is up; wait has no time limit.
TimeOut(t) ==
  /\ tpc[t] = "asleep"
  /\ kind[at[t]] # "frame"
  /\ tpc' = [tpc EXCEPT ![t] = "expired"]
  /\ UNCHANGED <<nvars, wvars, at, status, late>>

SpuriousWakeUp(t) ==
  /\ tpc[t] = "asleep"
  /\ tpc' = [tpc EXCEPT ![t] = "check"]
  /\ UNCHANGED <<nvars, wvars, at, status, late>>

\* It is the predicate that decides, not the clock.
Expire(t) ==
  /\ tpc[t] = "expired"
  /\ Return(t, IF notified[at[t]] THEN "ready" ELSE "timeout")
  /\ UNCHANGED <<nvars, kind, notified, late>>

-----------------------------------------------------------------------------

NotificationStep(a) == SetFlag(a) \/ NotifyAll(a) \/ EndCall(a)

ProducerStep ==
  NotificationStep(Producer) \/ (\E w \in Waiters : CallNext(w)) \/ FreeList

WaitStep(t) ==
  NotificationStep(t) \/ CheckSleeps(t) \/ CheckReturns(t) \/ Expire(t)

\* The user's calls.
Use(t) ==
  \E w \in Waiters :
    \/ \E k \in {"timed", "call", "frame"} : Construct(t, w, k)
    \/ \E u \in Threads : Copy(t, u, w)
    \/ DropWaiter(t, w)
    \/ BeginWait(t, w)

\* Nobody waits or will wait any more (not a step of the code).
Terminated ==
  /\ state = "destroyed" \/ step[Producer] = "over"
  /\ \A t \in Threads : tpc[t] = "idle" /\ job[t] = NONE
  /\ \A w \in Waiters : refs[w] = {} /\ (state = "ready" => kind[w] # "none")
  /\ UNCHANGED vars

Next ==
  \/ MakeReady \/ DropState
  \/ ProducerStep
  \/ \E t \in Threads : Use(t) \/ WaitStep(t) \/ TimeOut(t) \/ SpuriousWakeUp(t)
  \/ Terminated

Spec == Init /\ [][Next]_vars

\* Threads go on.  The clock need not: no deadline has to be reached, so
\* that only a notification can be what ends a call.
FairSpec ==
  /\ Spec
  /\ WF_vars(ProducerStep)
  /\ \A t \in Threads : WF_vars(WaitStep(t))

-----------------------------------------------------------------------------

\* Every variable has its type, and a thread that calls a notification or
\* waits has a waiter to do it on.
TypeOK ==
  /\ state \in {"pending", "ready", "destroyed"}
  /\ stack \subseteq Waiters
  /\ list \subseteq Waiters
  /\ kind \in [Waiters -> {"none", "timed", "call", "frame"}]
  /\ notified \in [Waiters -> BOOLEAN]
  /\ refs \in [Waiters -> SUBSET (Threads \cup {"notification"})]
  /\ job \in [Actors -> Waiters \cup {NONE}]
  /\ step \in [Actors -> {"none", "set", "notify", "free", "loop", "over"}]
  /\ \A a \in Actors : step[a] \in {"set", "notify", "free"} => job[a] # NONE
  /\ tpc \in [Threads -> {"idle", "check", "asleep", "expired"}]
  /\ at \in [Threads -> Waiters \cup {NONE}]
  /\ \A t \in Threads : tpc[t] # "idle" => at[t] # NONE
  /\ status \in [Threads -> {"none", "ready", "timeout"}]
  /\ late \in [Threads -> BOOLEAN]

\* "future_is_ready_after_waiter_returns_ready", and a call that begins after
\* the notification never reports a timeout, however short its time limit.
StatusIsTruthful ==
  \A t \in Threads :
    /\ status[t] = "ready" => state = "ready"
    /\ status[t] = "timeout" /\ tpc[t] = "idle" => ~late[t]

\* Nobody locks or notifies a waiter that is gone: a notification may come
\* after the last timed_waiter was dropped, and wait() may return as soon as
\* its flag is set.
AliveWhileNotified ==
  /\ TypeOK
  /\ \A a \in Actors : step[a] \in {"set", "notify"} => refs[job[a]] # {}
  /\ \A t \in Threads : tpc[t] # "idle" => t \in refs[at[t]]

\* A thread that waits for a state that has become ready is woken, whatever
\* its time limit: no notification is lost between the flag and the sleep.
WaiterWakes ==
  \A t \in Threads : tpc[t] # "idle" /\ state = "ready" ~> tpc[t] = "idle"
=============================================================================
