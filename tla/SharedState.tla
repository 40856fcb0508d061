---------------------------- MODULE SharedState ----------------------------
(***************************************************************************)
(* The life of one shared state between its producer and its futures:      *)
(* detail::shared_state and cancellable_state, promise and packaged_task   *)
(* (async included), and the members of future<T> and shared_future<T>     *)
(* that work on the state itself.  One producer thread owns the promise or *)
(* task, every client thread owns at most one future or shared_future.     *)
(*                                                                         *)
(* A shared_ptr to the state is a member of refs; the state dies with its  *)
(* last member.  The continuation stack is taken at the level of           *)
(* ContinuationsContract, which OnceConsumableStack implements: attaching  *)
(* is one step, the order in which continuations run is left open, and a   *)
(* notification may throw: those behind it in the list are then lost.      *)
(*                                                                         *)
(* A task whose function returns a future ("unwrapping") stores the inner  *)
(* future's state in its own and gets ready when that one does, on the     *)
(* thread that resolves it.  The inner state is one future of              *)
(* FutureContract here: a result that comes or does not, and the one       *)
(* continuation unwrap attaches to it, which no other continuation of the  *)
(* inner state keeps from being called.                                    *)
(***************************************************************************)
EXTENDS Naturals, FiniteSets

CONSTANTS
  Clients,   \* threads that may own a future
  First,     \* the client that gets the future of the producer
  Sources,   \* the kinds of producers considered
  Copied     \* those whose shared_futures may be copied (a bound)

ASSUME FirstAssumption == First \in Clients
ASSUME SourcesAssumption == Sources \subseteq {"promise", "task", "unwrapping"}

VARIABLES
  source,    \* the producer: a "promise", a packaged "task", or one whose
             \* function returns a future, "unwrapping"
  promise,   \* what its state_ holds
  pc,        \* where each thread stands in an operation on the state
  arg,       \* what the operation is about to store
  refs,      \* the owners of a shared_ptr to the state
  storage,   \* shared_state::storage_; "inner" is another state (storage_ 2)
  inner,     \* the result of that state
  stack,     \* continuations attached and not consumed
  consumed,  \* continuations().executed()
  running,   \* continuations consumed and not called yet
  list,      \* all the continuations of the consumed list
  lost,      \* those not called because one before them threw
  cpc,       \* where each client stands
  shared,    \* the futures are shared_futures
  ready,     \* ready[c]: the flag detail::wait's continuation sets
  notified,  \* notified[c]: number of calls of c's notification
  asked,     \* asked[c]: what c has attached so far
  got,       \* got[c]: what get() found
  unawaited, \* is_awaiten() returned false
  spent,     \* the task's function is gone and has left no result
  cancels    \* deaths of a state not executed: the cancel action is called,
             \* the function of a task is destroyed

content == <<storage, inner>>
calls == <<consumed, running, list, lost>>
pvars == <<source, promise, pc, arg, unawaited, spent>>
svars == <<refs, stack, cancels, content, calls>>
cvars == <<cpc, shared, ready, notified, asked, got>>
vars == <<pvars, svars, cvars>>

\* The producer's thread, and the one that resolves the inner future.
Threads == {"producer", "inner"}
Goto(t, label) == pc' = [pc EXCEPT ![t] = label]

\* The holders of a shared_ptr: a promise before get_future, an operation of
\* a thread while it runs, a future, a continuation attached by detach.
Promise == <<"promise">>
Operation(t) == <<"operation", t>>
Future(c) == <<"future", c>>
Hold(c) == <<"hold", c>>
Results == {"value", "exception"}
Kinds == {"wake", "notify", "hold"}
Owners ==
  {Promise} \cup {Operation(t) : t \in Threads} \cup {Future(c) : c \in Clients}
    \cup {Hold(c) : c \in Clients}

\* What a reader finds: value_ref goes on to the inner state.
Result == IF storage = "inner" THEN inner ELSE storage

-----------------------------------------------------------------------------

\* A producer that owns the state until get_future()...
OwnsState ==
  /\ promise = "strong"
  /\ refs = {Promise}
  /\ cpc = [c \in Clients |-> "none"]

\* ...or whose future exists already.
SharesState ==
  /\ promise = "weak"
  /\ refs = {Future(First)}
  /\ cpc = [c \in Clients |-> IF c = First THEN "idle" ELSE "none"]

NewPromise == source = "promise" /\ OwnsState
MakePromise == source = "promise" /\ SharesState
PackagedTask == source # "promise" /\ OwnsState
Async == source # "promise" /\ SharesState

Init ==
  /\ source \in Sources
  /\ NewPromise \/ MakePromise \/ PackagedTask \/ Async
  /\ pc = [t \in Threads |-> "idle"]
  /\ arg = "none"
  /\ storage = "empty"
  /\ inner = "pending"
  /\ stack = {}
  /\ consumed = FALSE
  /\ running = {}
  /\ list = {}
  /\ lost = {}
  /\ shared = FALSE
  /\ ready = [c \in Clients |-> FALSE]
  /\ notified = [c \in Clients |-> 0]
  /\ asked = [c \in Clients |-> {}]
  /\ got = [c \in Clients |-> "none"]
  /\ unawaited = FALSE
  /\ spent = FALSE
  /\ cancels = 0

\* Mutant: ~cancellable_state does not look at executed().
ReplaceRefs_AlwaysCancels(R, A) ==
  /\ refs' = (refs \ R) \cup A
  /\ IF refs' = {}
       THEN /\ cancels' = cancels + 1
            /\ stack' = {}
       ELSE UNCHANGED <<cancels, stack>>

\* Give up the references in R and take those in A.  The last one runs
\* ~cancellable_state, which cancels what was not executed, and ~shared_state,
\* which drops the continuations left on the stack.
ReplaceRefs(R, A) ==
  /\ refs' = (refs \ R) \cup A
  /\ IF refs' = {}
       THEN /\ cancels' = cancels + (IF consumed THEN 0 ELSE 1)
            /\ stack' = {}
       ELSE UNCHANGED <<cancels, stack>>

Release(R) == ReplaceRefs(R, {})

-----------------------------------------------------------------------------
\* The promise or packaged_task.

\* get_future on a promise or task that still owns the state.
GetFuture ==
  /\ promise = "strong"
  /\ pc["producer"] = "idle"
  /\ promise' = "weak"
  /\ ReplaceRefs({Promise}, {Future(First)})
  /\ cpc' = [cpc EXCEPT ![First] = "idle"]
  /\ UNCHANGED <<source, pc, arg, unawaited, spent, content, calls,
                 shared, ready, notified, asked, got>>

\* Mutant: the operation keeps no shared_ptr to the state.
LockState_RawPointer(r) ==
  /\ promise # "gone"
  /\ pc["producer"] = "idle"
  /\ refs # {}
  /\ Goto("producer", "set")
  /\ arg' = r
  /\ UNCHANGED refs
  /\ UNCHANGED <<source, promise, unawaited, spent, stack, cancels, content, calls, cvars>>

\* get_state locks the weak pointer; there is nothing to do for a state that
\* is gone.
LockState(r) ==
  /\ promise # "gone"
  /\ pc["producer"] = "idle"
  /\ refs # {}
  /\ Goto("producer", "set")
  /\ arg' = r
  /\ refs' = refs \cup {Operation("producer")}
  /\ UNCHANGED <<source, promise, unawaited, spent, stack, cancels, content, calls, cvars>>

\* set_value or set_exception.
BeginSet(r) == source = "promise" /\ r \in Results /\ LockState(r)

\* packaged_task::operator(): what the function returns or throws is stored;
\* for a future, its state, or a broken promise when it has none.  The
\* function is gone (func.state() is 0) afterwards.
BeginRun(r) ==
  /\ \/ source = "task" /\ r \in Results
     \/ source = "unwrapping" /\ r \in {"inner", "exception", "broken"}
  /\ LockState(r)

\* The destructor or a move assignment: a promise that still owns the state
\* does nothing, and the state dies with it; a task calls abandon() on its own
\* state all the same; otherwise the weak pointer is locked.
BeginAbandon ==
  /\ promise # "gone"
  /\ pc["producer"] = "idle"
  /\ promise' = "gone"
  /\ IF promise = "strong" /\ source = "promise"
       THEN Release({Promise}) /\ UNCHANGED <<pc, arg>>
       ELSE IF refs = {}
         THEN UNCHANGED <<pc, arg, refs, cancels, stack>>
         ELSE /\ Goto("producer", "abandon")
              /\ arg' = "broken"
              /\ refs' = (refs \ {Promise}) \cup {Operation("producer")}
              /\ UNCHANGED <<cancels, stack>>
  /\ UNCHANGED <<source, unawaited, spent, content, calls, cvars>>

\* emplace and set_exception throw promise_already_satisfied over a stored
\* result, task_state::run without a function; abandon returns over an executed
\* state and over one that waits for an inner state.
Refused ==
  /\ \/ pc["producer"] = "set" /\ (storage # "empty" \/ spent)
     \/ pc["producer"] = "abandon" /\ (consumed \/ storage = "inner")
  /\ Goto("producer", "idle")
  /\ arg' = "none"
  /\ Release({Operation("producer")})
  /\ UNCHANGED <<source, promise, unawaited, spent, content, calls, cvars>>

\* Mutant: emplace stores over a result.
Store_Overwrites ==
  /\ \/ pc["producer"] = "set" /\ ~spent
     \/ pc["producer"] = "abandon" /\ ~consumed /\ storage # "inner"
  /\ storage' = arg
  /\ arg' = "none"
  /\ Goto("producer", IF arg = "inner" THEN "push" ELSE "execute")
  /\ UNCHANGED <<source, promise, inner, unawaited, spent, refs, stack, cancels, calls, cvars>>

\* Mutant: abandon breaks a promise whose task has returned a future.
Store_AbandonsInner ==
  /\ \/ pc["producer"] = "set" /\ storage = "empty" /\ ~spent
     \/ pc["producer"] = "abandon" /\ ~consumed
  /\ storage' = arg
  /\ arg' = "none"
  /\ Goto("producer", IF arg = "inner" THEN "push" ELSE "execute")
  /\ UNCHANGED <<source, promise, inner, unawaited, spent, refs, stack, cancels, calls, cvars>>

\* The result is stored before the stack is consumed; an inner state, before
\* the continuation that consumes it is attached to that state.
Store ==
  /\ \/ pc["producer"] = "set" /\ storage = "empty" /\ ~spent
     \/ pc["producer"] = "abandon" /\ ~consumed /\ storage # "inner"
  /\ storage' = arg
  /\ arg' = "none"
  /\ Goto("producer", IF arg = "inner" THEN "push" ELSE "execute")
  /\ UNCHANGED <<source, promise, inner, unawaited, spent, refs, stack, cancels, calls, cvars>>

\* The value's constructor throws in storage_.emplace, and the exception goes
\* to the caller: a promise can be used again, the function of a task is gone.
StoreThrows ==
  /\ pc["producer"] = "set"
  /\ arg = "value"
  /\ storage = "empty"
  /\ ~spent
  /\ spent' = (source = "task")
  /\ Goto("producer", "idle")
  /\ arg' = "none"
  /\ Release({Operation("producer")})
  /\ UNCHANGED <<source, promise, unawaited, content, calls, cvars>>

\* Mutant: unwrap makes the state ready without waiting for the inner one.
Push_Executes ==
  /\ pc["producer"] = "push"
  /\ Goto("producer", "execute")
  /\ UNCHANGED <<source, promise, arg, unawaited, spent, svars, cvars>>

\* Mutant: the continuation is not called on an inner state that is ready.
Push_RefusedIgnored ==
  /\ pc["producer"] = "push"
  /\ Goto("producer", "release")
  /\ UNCHANGED <<source, promise, arg, unawaited, spent, svars, cvars>>

\* Mutant: the continuation owns the outer state.
Push_CapturesState ==
  /\ pc["producer"] = "push"
  /\ Goto("producer", IF inner = "pending" THEN "release" ELSE "execute")
  /\ refs' = refs \cup (IF inner = "pending" THEN {Operation("inner")} ELSE {})
  /\ UNCHANGED <<source, promise, arg, unawaited, spent, stack, cancels, content, calls, cvars>>

\* unwrap attaches its continuation to the inner state, which calls it at once
\* when it is ready.
Push ==
  /\ pc["producer"] = "push"
  /\ Goto("producer", IF inner = "pending" THEN "release" ELSE "execute")
  /\ UNCHANGED <<source, promise, arg, unawaited, spent, svars, cvars>>

\* continuations().execute(): the state becomes ready.
Execute(t) ==
  /\ pc[t] = "execute"
  /\ consumed' = TRUE
  /\ running' = stack
  /\ list' = stack
  /\ stack' = {}
  /\ Goto(t, "run")
  /\ UNCHANGED <<source, promise, arg, unawaited, spent, refs, cancels, content, lost, cvars>>

\* Effect of calling continuation <<kind, c>>.
CallEffect(kind, c) ==
  /\ ready' = IF kind = "wake" THEN [ready EXCEPT ![c] = TRUE] ELSE ready
  /\ notified' = IF kind = "notify" THEN [notified EXCEPT ![c] = @ + 1]
                                    ELSE notified

CallContinuation(t) ==
  /\ pc[t] = "run"
  /\ \E k \in running :
       /\ running' = running \ {k}
       /\ CallEffect(k[1], k[2])
  /\ UNCHANGED <<pvars, refs, stack, cancels, content, consumed, list, lost, cpc,
                 shared, asked, got>>

\* A notification, or post for one with an executor, throws.  The exception
\* leaves execute's loop with the rest of the list uncalled, and goes to the
\* caller of the operation.  A destructor has none: abandon runs in one and
\* under noexcept, and the program would be over.
ContinuationThrows(t) ==
  /\ pc[t] = "run"
  /\ t = "producer" => promise # "gone"
  /\ \E k \in running :
       /\ k[1] = "notify"
       /\ CallEffect(k[1], k[2])
       /\ lost' = running \ {k}
  /\ running' = {}
  /\ UNCHANGED <<pvars, refs, stack, cancels, content, consumed, list, cpc,
                 shared, asked, got>>

\* Mutant: execute's loop stops early.
FreeList_BreaksLoop(t) ==
  /\ pc[t] = "run"
  /\ refs' = refs \ {Hold(k[2]) : k \in {k \in list : k[1] = "hold"}}
  /\ list' = {}
  /\ Goto(t, "release")
  /\ UNCHANGED <<source, promise, arg, unawaited, spent, stack, cancels, content, consumed,
                 running, lost, cvars>>

\* Mutant: the consumed list is leaked.
FreeList_NotFreed(t) ==
  /\ pc[t] = "run"
  /\ running = {}
  /\ refs' = refs
  /\ list' = {}
  /\ Goto(t, "release")
  /\ UNCHANGED <<source, promise, arg, unawaited, spent, stack, cancels, content, consumed,
                 running, lost, cvars>>

\* The list dies at the end of execute, in the unwinding too, and detach's
\* captures with it; then the operation's own shared_ptr.
FreeList(t) ==
  /\ pc[t] = "run"
  /\ running = {}
  /\ refs' = refs \ {Hold(k[2]) : k \in {k \in list : k[1] = "hold"}}
  /\ list' = {}
  /\ Goto(t, "release")
  /\ UNCHANGED <<source, promise, arg, unawaited, spent, stack, cancels, content, consumed,
                 running, lost, cvars>>

EndOperation(t) ==
  /\ pc[t] = "release"
  /\ Goto(t, "idle")
  /\ Release({Operation(t)})
  /\ UNCHANGED <<source, promise, arg, unawaited, spent, content, calls, cvars>>

\* Mutant: the answer is taken from executed().
IsAwaiten_Executed ==
  /\ source = "promise"
  /\ promise = "weak"
  /\ pc["producer"] = "idle"
  /\ unawaited' = consumed
  /\ UNCHANGED <<source, promise, pc, arg, spent, svars, cvars>>

\* promise::is_awaiten on a promise whose future has been taken.
IsAwaiten ==
  /\ source = "promise"
  /\ promise = "weak"
  /\ pc["producer"] = "idle"
  /\ unawaited' = (refs = {})
  /\ UNCHANGED <<source, promise, pc, arg, spent, svars, cvars>>

-----------------------------------------------------------------------------
\* The inner future of an unwrapping task.

\* The inner state gets its result, and calls unwrap's continuation if that is
\* attached; a push still to come finds the state ready.
ResolveInner(r) ==
  /\ storage = "inner"
  /\ inner = "pending"
  /\ inner' = r
  /\ IF pc["producer"] = "push" THEN UNCHANGED pc ELSE Goto("inner", "lock")
  /\ UNCHANGED <<source, promise, arg, unawaited, spent, refs, stack, cancels, storage,
                 calls, cvars>>

\* Mutant: the continuation keeps a plain pointer to the outer state.
LockOuter_RawPointer ==
  /\ pc["inner"] = "lock"
  /\ Goto("inner", "execute")
  /\ UNCHANGED refs
  /\ UNCHANGED <<source, promise, arg, unawaited, spent, stack, cancels, content, calls, cvars>>

\* The continuation locks its weak pointer to the outer state, if that lives.
LockOuter ==
  /\ pc["inner"] = "lock"
  /\ IF refs = {}
       THEN Goto("inner", "idle") /\ UNCHANGED refs
       ELSE Goto("inner", "execute") /\ refs' = refs \cup {Operation("inner")}
  /\ UNCHANGED <<source, promise, arg, unawaited, spent, stack, cancels, content, calls, cvars>>

-----------------------------------------------------------------------------
\* The futures.

\* Mutant: a push refused by a consumed stack is not called.
Attach_RefusedIgnored(kind, c) ==
  /\ asked' = [asked EXCEPT ![c] = @ \cup {kind}]
  /\ IF consumed
       THEN UNCHANGED <<stack, refs, ready, notified>>
       ELSE /\ stack' = stack \cup {<<kind, c>>}
            /\ refs' = refs \cup (IF kind = "hold" THEN {Hold(c)} ELSE {})
            /\ UNCHANGED <<ready, notified>>
  /\ UNCHANGED <<cancels, content, calls>>

\* Attach a continuation; a ready state calls it at once and drops it (when it
\* throws then, only its own client is told).
Attach(kind, c) ==
  /\ asked' = [asked EXCEPT ![c] = @ \cup {kind}]
  /\ IF consumed
       THEN CallEffect(kind, c) /\ UNCHANGED <<stack, refs>>
       ELSE /\ stack' = stack \cup {<<kind, c>>}
            /\ refs' = refs \cup (IF kind = "hold" THEN {Hold(c)} ELSE {})
            /\ UNCHANGED <<ready, notified>>
  /\ UNCHANGED <<cancels, content, calls>>

\* notify, or a timed_waiter's constructor.  With an executor the continuation
\* posts the notification, which counts for its call.
Notify(c) ==
  /\ cpc[c] = "idle"
  /\ "notify" \notin asked[c]
  /\ Attach("notify", c)
  /\ UNCHANGED <<pvars, cpc, shared, got>>

\* detach: the continuation owns the state it is attached to.
Detach(c) ==
  /\ cpc[c] = "idle"
  /\ "hold" \notin asked[c]
  /\ Attach("hold", c)
  /\ UNCHANGED <<pvars, cpc, shared, got>>

\* future::share, and a copy of a shared_future for another client.
Share(c) ==
  /\ cpc[c] = "idle"
  /\ ~shared
  /\ shared' = TRUE
  /\ UNCHANGED <<pvars, svars, cpc, ready, notified, asked, got>>

Copy(c, d) ==
  /\ source \in Copied
  /\ cpc[c] = "idle"
  /\ shared
  /\ cpc[d] = "none"
  /\ cpc' = [cpc EXCEPT ![d] = "idle"]
  /\ refs' = refs \cup {Future(d)}
  /\ UNCHANGED <<pvars, stack, cancels, content, calls, shared, ready, notified, asked, got>>

\* Mutant: get() does not wait.
BeginGet_NoWait(c) ==
  /\ cpc[c] = "idle"
  /\ "wake" \notin asked[c]
  /\ Attach("wake", c)
  /\ cpc' = [cpc EXCEPT ![c] = "reading"]
  /\ UNCHANGED <<pvars, shared, got>>

\* is_ready(), by a client that reads a state it finds ready without waiting,
\* or by co_await, which looks at the state twice: await_ready...
IsReady(c) ==
  /\ cpc[c] = "idle"
  /\ cpc' = [cpc EXCEPT ![c] = IF consumed THEN "reading" ELSE "suspending"]
  /\ UNCHANGED <<pvars, svars, shared, ready, notified, asked, got>>

\* ...and await_suspend, which attaches the coroutine's handle, or resumes the
\* coroutine at once (await_resume is get()).
AwaitSuspend(c) ==
  /\ cpc[c] = "suspending"
  /\ Attach("wake", c)
  /\ cpc' = [cpc EXCEPT ![c] = "waiting"]
  /\ UNCHANGED <<pvars, shared, got>>

\* get(): wait() attaches the continuation that sets the local flag...
BeginGet(c) ==
  /\ cpc[c] = "idle"
  /\ "wake" \notin asked[c]
  /\ Attach("wake", c)
  /\ cpc' = [cpc EXCEPT ![c] = "waiting"]
  /\ UNCHANGED <<pvars, shared, got>>

\* ...and blocks until it is set.  A coroutine is resumed.
WakeUp(c) ==
  /\ cpc[c] = "waiting"
  /\ ready[c]
  /\ cpc' = [cpc EXCEPT ![c] = "reading"]
  /\ UNCHANGED <<pvars, svars, shared, ready, notified, asked, got>>

\* value_ref, or the inner state's, before future::get gives its state up...
ReadFuture(c) ==
  /\ cpc[c] = "reading"
  /\ ~shared
  /\ got' = [got EXCEPT ![c] = Result]
  /\ cpc' = [cpc EXCEPT ![c] = "gone"]
  /\ Release({Future(c)})
  /\ UNCHANGED <<pvars, content, calls, shared, ready, notified, asked>>

\* ...which shared_future::get does not.
ReadShared(c) ==
  /\ cpc[c] = "reading"
  /\ shared
  /\ got' = [got EXCEPT ![c] = Result]
  /\ cpc' = [cpc EXCEPT ![c] = "idle"]
  /\ UNCHANGED <<pvars, svars, shared, ready, notified, asked>>

\* ~future, ~shared_future.
Drop(c) ==
  /\ cpc[c] = "idle"
  /\ cpc' = [cpc EXCEPT ![c] = "gone"]
  /\ Release({Future(c)})
  /\ UNCHANGED <<pvars, content, calls, shared, ready, notified, asked, got>>

-----------------------------------------------------------------------------

ExecuteStep(t) ==
  Execute(t) \/ CallContinuation(t) \/ ContinuationThrows(t) \/ FreeList(t) \/ EndOperation(t)

ProducerStep == Refused \/ Store \/ StoreThrows \/ Push \/ ExecuteStep("producer")

PromiseStep ==
  \/ GetFuture
  \/ \E r \in Results \cup {"inner", "broken"} : BeginSet(r) \/ BeginRun(r)
  \/ BeginAbandon
  \/ IsAwaiten
  \/ ProducerStep

InnerStep == LockOuter \/ ExecuteStep("inner")

ClientStep(c) ==
  \/ Notify(c) \/ Detach(c) \/ Share(c)
  \/ \E d \in Clients : Copy(c, d)
  \/ IsReady(c) \/ AwaitSuspend(c) \/ BeginGet(c) \/ WakeUp(c)
  \/ ReadFuture(c) \/ ReadShared(c) \/ Drop(c)

\* Everything is over (not a step of the code), but for clients in get() whose
\* wake-up was lost.
Terminated ==
  /\ promise = "gone"
  /\ \A t \in Threads : pc[t] = "idle"
  /\ refs \subseteq {Future(c) : c \in {c \in Clients : <<"wake", c>> \in lost}}
  /\ UNCHANGED vars

Next ==
  \/ PromiseStep
  \/ (\E r \in Results \cup {"broken"} : ResolveInner(r)) \/ InnerStep
  \/ \E c \in Clients : ClientStep(c)
  \/ Terminated

Spec == Init /\ [][Next]_vars

\* Operations that have begun go on.  Nobody has to begin one: a promise may
\* live forever, and an inner future may never be resolved.
Fairness ==
  /\ WF_vars(ProducerStep)
  /\ WF_vars(InnerStep)
  /\ \A c \in Clients : WF_vars(AwaitSuspend(c) \/ WakeUp(c) \/ ReadFuture(c) \/ ReadShared(c))

FairSpec == Spec /\ Fairness

-----------------------------------------------------------------------------

TypeOK ==
  /\ source \in {"promise", "task", "unwrapping"}
  /\ promise \in {"strong", "weak", "gone"}
  /\ pc \in [Threads ->
              {"idle", "set", "abandon", "push", "lock", "execute", "run", "release"}]
  /\ arg \in Results \cup {"inner", "broken", "none"}
  /\ refs \in SUBSET Owners
  /\ storage \in Results \cup {"empty", "inner", "broken"}
  /\ inner \in Results \cup {"pending", "broken"}
  /\ stack \in SUBSET (Kinds \X Clients)
  /\ consumed \in BOOLEAN
  /\ running \in SUBSET (Kinds \X Clients)
  /\ list \in SUBSET (Kinds \X Clients)
  /\ lost \in SUBSET (Kinds \X Clients)
  /\ cpc \in [Clients -> {"none", "idle", "suspending", "waiting", "reading", "gone"}]
  /\ shared \in BOOLEAN
  /\ ready \in [Clients -> BOOLEAN]
  /\ notified \in [Clients -> Nat]
  /\ asked \in [Clients -> SUBSET Kinds]
  /\ got \in [Clients -> Results \cup {"none", "empty", "pending", "broken"}]
  /\ unawaited \in BOOLEAN
  /\ spent \in BOOLEAN
  /\ cancels \in Nat

\* A state ends in exactly one of two ways: somebody made it ready, or it was
\* destroyed before and cancelled exactly once (~cancellable_state), with
\* nobody ever told.  detach "prevents cancellation of the operations of this
\* future": the second way is closed to a state that was detached before it
\* got ready.
DeliveredXorCancelled ==
  /\ cancels <= 1
  /\ refs = {} => cancels = (IF consumed THEN 0 ELSE 1)
  /\ cancels = 1 =>
       /\ refs = {}
       /\ ~consumed
       /\ \A c \in Clients : notified[c] = 0 /\ ~ready[c] /\ "hold" \notin asked[c]

\* Whoever is told that the state is ready finds a result: value_ref's
\* assertion, the one of an inner state and the "storage is empty" branch are
\* unreachable, and everybody finds the same.
ReaderFindsResult ==
  \A c \in Clients :
    /\ cpc[c] = "reading" => consumed /\ Result \notin {"empty", "pending"}
    /\ got[c] # "none" => got[c] = Result /\ Result \notin {"empty", "pending"}

\* While a thread is inside an operation on the state, the state is alive,
\* whoever drops the last future meanwhile; unwrap's continuation may find the
\* outer state gone when it comes to lock it.
AliveWhileUsed ==
  /\ \A c \in Clients : cpc[c] \in {"suspending", "waiting", "reading"} => refs # {}
  /\ \A t \in Threads : pc[t] \notin {"idle", "lock"} => refs # {}

\* When execute is over, every notification attached before or during it has
\* been called, but for those in the list behind one that threw; none is called
\* twice.  Nothing is lost unless a notification was called that could throw.
NotifiedExactlyOnce ==
  /\ \A c \in Clients :
       /\ notified[c] <= 1
       /\ consumed /\ (\A t \in Threads : pc[t] # "run") =>
            notified[c] = IF "notify" \in asked[c] /\ <<"notify", c>> \notin lost THEN 1 ELSE 0
  /\ lost # {} => consumed /\ \E c \in Clients : notified[c] = 1

\* is_awaiten() returns false only if there is absolutely no way to get at a
\* future any more, now or later.
NotAwaitenIsFinal ==
  unawaited => refs = {} /\ \A c \in Clients : cpc[c] \in {"none", "gone"}

\* emplace, set_exception and abandon: the first result stays, whatever the
\* promise is used for later, and so does an inner state that has no result
\* yet when its task is destroyed.
ResultNeverReplaced == [][storage # "empty" => storage' = storage]_vars

\* A thread in get() returns, and a suspended coroutine is resumed, once the
\* promise has been used or destroyed and the inner future, if there is one,
\* has its result; unless its wake-up was in the list behind a notification
\* that threw.
GetReturns ==
  \A c \in Clients :
    (/\ cpc[c] \in {"suspending", "waiting"}
     /\ Result \notin {"empty", "pending"} \/ (promise = "gone" /\ storage # "inner"))
      ~> (cpc[c] \notin {"suspending", "waiting"} \/ <<"wake", c>> \in lost)

\* A state without promise and futures is reclaimed.  The cycle detach makes is
\* broken when the state gets ready, which may take its inner future; without
\* detach nothing keeps the state, and unwrap's continuation least of all: the
\* state owns the inner state, which owns that continuation.
NoLeak ==
  (/\ promise = "gone"
   /\ Result = "pending" => \A c \in Clients : "hold" \notin asked[c]
   /\ \A c \in Clients : cpc[c] \in {"none", "gone"})
    ~> refs = {}

-----------------------------------------------------------------------------
\* What the clients see of a state.  It is resolved by execute, not by the
\* store before it; the cancel action ends it otherwise.
Outcome ==
  IF consumed THEN Result ELSE IF cancels = 0 THEN "pending" ELSE "cancelled"

Contract == INSTANCE FutureContract WITH
  Results <- Results \cup {"broken"},
  outcome <- Outcome,
  wanted <- {c \in Clients : "notify" \in asked[c]},
  detached <- {c \in Clients : "hold" \in asked[c]},
  told <- notified,
  answer <- got

\* A shared state, whichever producer and clients share it, is one future of
\* FutureContract to all of them.
ImplementsContract == Contract!Spec
=============================================================================
