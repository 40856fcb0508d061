# A TLA+ model of portable_concurrency

These modules model the `portable_concurrency` C++14 library
(`src/portable_concurrency`): the lock-free stack of continuations that makes a
shared state ready, the shared state with its promise and futures,
continuations, `when_any`/`when_all`, the thread pool, the blocking waits, the
latch, a composition of pool and continuations, and the two containers all of
them keep their contents in. TLC checks the concurrent parts on small instances.
TLAPS proves the safety properties of the stack, the shared state, the
combinators, the pool, the waits and the latch for any number of threads,
clients, inputs, tasks or waiters, those of a continuation, those of the
composition for every graph of continuations, and those of the containers for any
number of objects. It also proves that the stack, the shared state and the pool
implement what their users rely on: three short abstract specifications.
`PROJECT.json` lists the runs, the lines of code each definition stands for, the
hazards of the code and the theorems.

To check a run: `tlc -config MCThen.cfg Then.tla`. To check the proofs: `tlapm`
on every module whose name ends in `Proofs`; each takes less than two minutes.

## Inventory of the system

Paths are below `src/portable_concurrency/bits/`.

| Component | State | Operations | Uses |
|---|---|---|---|
| `once_consumable_stack`, `continuations_stack` | one atomic pointer to a linked list, or a marker | `push`, `is_consumed`, `consume`; push-or-call, `execute`, `executed` | `small_unique_function` |
| `shared_state`, `cancellable_state`, `allocated_state` | the storage (empty, value, inner state, exception), a continuations_stack | `emplace`, `set_exception`, `abandon`, `unwrap`, `value_ref`, `exception` | continuations_stack |
| `promise` | nothing, a `shared_ptr` or a `weak_ptr` to a state | `set_value`, `set_exception`, `get_future`, `is_awaiten`, destruction, move assignment, `make_promise` | shared_state |
| `packaged_task`, `async` | the same, plus the function in the state | call, `get_future`, destruction | shared_state, an executor |
| `future`, `shared_future` | a `shared_ptr` to a state | `get`, `wait`, `is_ready`, `notify`, `then`, `next`, `detach`, `share`, copy, destruction | shared_state |
| `timed_waiter`, `wait`, `wait_for`, `wait_until` | mutex, condition variable, flag | constructor, copies, waiting with and without a limit | `future::notify` |
| `then.hpp` (`cnt_state`, `cnt_action`, `decorate_*`) | executor, action (function and parent), child state | `schedule`, `run`, `abandon` | parent's stack, executor, child state, inner state |
| `when_any`, `when_all` | the futures, flag and index or counter, a stack | `make`, `notify` | the stacks of the inputs |
| `closable_queue`, `static_thread_pool` | queue, closed flag; threads, attached counter, stopped flag | `push`, `pop`, `close`; `attach`, `stop`, `wait`, destruction | |
| `latch` | counter, number of waiters | `count_down`, `count_down_and_wait`, `wait`, `is_ready`, destruction | |
| `unique_function`, `small_unique_function` | a table pointer and a buffer without a type | construction, moves, call, destruction | |
| `either` | an alternative's number and its storage | construction, `emplace`, moves, `clean`, destruction | |
| `make_future`, coroutine glue | none of their own | short sequences of promise and future operations | promise, future |
| `algo_adapters`, traits, configuration | none | | |

How they interact. Everything meets in the shared state. A producer (promise,
packaged task, continuation, combined state) stores a result and then executes
the continuations; consumers attach continuations, and `wait`, `then`,
`when_any`, `unwrap`, `detach` and `timed_waiter` are nothing but particular
continuations. A continuation that comes too late is called by whoever attaches
it. Ownership runs against the flow of results: a future owns its state, the
state of a continuation owns its parent's state, and producers hold weak
pointers. That is what makes dropping a future a cancellation. Two things turn
the direction round: `detach`, whose continuation owns the state it is attached
to, and `when_any`/`when_all`, whose continuations own the combined state.

What is hard. A push racing with the consumer, with hand-written memory orders;
results read in the middle of being stored; the last owner disappearing in the
middle of an operation; a task that its executor destroys instead of running; a
promise destroyed without a result; an inner future resolved before, during or
after unwrapping; cycles of ownership; inputs resolved while a combinator still
attaches to them; lost wake-ups, a barrier, a relaxed flag and a task destroyed
under a mutex in the pool; continuations that the pool refuses or destroys while
it stops, each of which resolves a future whose continuations go to the same
pool; time limits racing with notifications, and objects dying while they
notify; exceptions out of attaching, posting and storing. The list with its
lines is `hazards` in `PROJECT.json`. There is no persistence and no message passing: crashes and lost
messages do not arise.

What makes each component correct:

- stack: each continuation called at most once and, without exceptions, at
  least once when the state is ready; no dangling node; what the producer wrote
  is visible to whoever learns that the state is ready;
- shared state: the first result wins and is there when the state is ready;
  delivered or cancelled, never both or neither; alive while it is used and dead
  when nobody needs it;
- continuation: the function called at most once, not at all for a child that
  was dropped before; no child forgotten; everything upstream released;
- combinators: ready exactly when promised, the index final, the cycle broken;
- pool: each accepted task in one place and executed once unless stopped;
  `stop`, `wait` and `attach` return; nothing runs after `wait`;
- waits: the status is the truth, a notification ends every wait, and touches
  no waiter that is gone;
- latch: a barrier; nobody uses it after its destructor, which returns;
- pool with continuations: every future that is held is resolved, and broken
  only for a reason; nothing reaches the destroyed queue;
- containers: the type recorded is the type stored; each value has one owner
  and is destroyed once.

## Modules

| Module | Models | Checked by |
|---|---|---|
| `ContinuationsContract` | what a continuations_stack promises: attach, become ready, call each continuation once | refined by the next |
| `OnceConsumableStack` (`OnceConsumableStackProofs`) | `once_consumable_stack` and `continuations_stack`, one step per atomic access | TLC, TLAPS |
| `FutureContract` | what a future promises to all who hold it: one outcome, one notification each, no cancellation after detach | refined by the next |
| `SharedState` (`SharedStateProofs`) | one shared state, its promise or packaged task, its futures and shared_futures, and the inner future of a task that unwraps | TLC, TLAPS |
| `Then` (`ContinuationProofs`) | one continuation: parent, `cnt_state`, executor, child, inner state | TLC, TLAPS |
| `Combinators` (`CombinatorsProofs`) | `when_any` and `when_all` | TLC, TLAPS |
| `ExecutorContract` | what a pool promises to those who post: first come, first served, each task once; what `wait` and the destructor may leave | refined by the next |
| `ThreadPool` (`ThreadPoolProofs`) | `static_thread_pool` and `closable_queue` | TLC, TLAPS |
| `TimedWaiter` (`TimedWaiterProofs`) | `timed_waiter`, and `wait`, `wait_for`, `wait_until` of a future | TLC, TLAPS |
| `Latch` (`LatchProofs`) | `latch` | TLC, TLAPS |
| `TaskGraph` (`MCTaskGraph`, `TaskGraphProofs`) | several continuations on one pool that is shut down | TLC, TLAPS |
| `Either` (`ContinuationProofs`) | `either` | TLAPS |
| `UniqueFunction` (`ContinuationProofs`) | `unique_function` and `small_unique_function` | TLAPS |

**OnceConsumableStack.** A pusher stands for the node and the continuation it
pushes. `PushLoad`, `PushCasSucceeds` and `PushCasFails` are the accesses of
`push` to `head_`, `CallInline` the call in `continuations_stack::push`,
`Consume`, `CallNext`, `LoopEnds`, `DeleteNode` are `execute` with the
destruction of its list, `Destroy` is the destructor. Memory orders are views:
`sees[t]` holds the threads whose earlier writes are visible to `t`, `headView`
those carried by the value in `head_`; an acquire access joins the second to the
first, a release access the first to the second. Every write to `head_` is a
read-modify-write, so all of them belong to one release sequence. `order` is a
history variable. There is one consumer, as the comment of `consume` demands. A
throwing continuation (`Throwing`) leaves `execute`'s loop.

**SharedState.** The members of `refs` are the `shared_ptr`s to the state, and
giving the last one up is `~cancellable_state`. A producer operation is
get_state (`BeginSet`, `BeginRun`, `BeginAbandon`), then `Refused`, `Store` or
`StoreThrows` (the value's constructor throws: nothing is stored or executed),
`Execute`, one `CallContinuation` each, `FreeList`, `EndOperation`; clients do
anything in between. The continuation stack is taken at the level of
`ContinuationsContract`. `ContinuationThrows` is a notification that throws, or
`post` for one with an executor: the exception leaves `execute`'s loop, the rest
of the list (`lost`) is freed without being called, and nobody is left to call
it. A thread in `get()` whose wake-up was among them blocks for ever; the
properties except exactly these. A promise or task that is being destroyed or
assigned to cannot throw (`std::terminate`).

A task whose function returns a future (`source = "unwrapping"`) stores the inner
state in its storage and attaches unwrap's continuation to it (`Push`). Whoever
resolves the inner future is the second thread: it calls that continuation
(`ResolveInner`), which locks its weak pointer (`LockOuter`) and executes the
outer state; a `Push` on an inner state that is ready executes in the producer's
thread. `abandon` leaves such a state alone (`Refused`). `Then` follows a
continuation that unwraps through both states; here the inner one is only
pending or resolved, and the outer one has its clients. `get()` is three steps: attach the continuation that
sets the local flag, wake up, read. `co_await` is `IsReady`, `AwaitSuspend` and
the same read: the coroutine is the continuation, and one that comes too late is
resumed by whoever attaches it. `notify` with an executor counts the call of
`post`; the posted function is then the executor's. `cancels` counts the calls
of a cancel action. For a packaged task, storing the result stands for running
the function, which is destroyed afterwards: a second call throws as a second
`set_value` does. `make_ready_future`, `make_exceptional_future` and a coroutine
that returns a future are prefixes of these behaviours, in which the promise is
set and gone before, or as soon as, the future is used. For `FutureContract` the
outcome is the result from `Execute` on, not from `Store` on: before that nobody
can see it. It is cancelled when the cancel action has been called.

**Then.** `kind` is `then`, `next` (which passes an error on without calling the
function) or the interruptible `then`, whose function gets a promise; `unwraps`
says that the function returns a future. `ppc` is the thread that resolves the
parent, `spc` the call of `schedule`, by that thread or by the one that calls
`then` on a ready parent; `tpc` is the posted task, which the executor runs
(`RunLock` to `FinishRun`) or destroys (`DiscardLock` to `CleanAction`) whenever
it likes; `ipc` resolves the inner state. `pref`, `cref` and `iref` are the
owners of the three states; a shared parent has a client too. `Failure` is an
allocation that throws while the continuation is attached (`AttachThrows`: the
continuation dies with the call) or a `post` that throws (`PostThrows`: the task
dies in the unwinding). `inplace_executor` is an executor that runs the task
within `PostTask`, so its behaviours are among these. Making the child ready is
one step here; what the child's own waiters see of it is the subject of
`SharedState`.

**Combinators.** Actor 0 is the thread in `make()`, actor i resolves input i.
`NotifyAny`, `StoreIndex`, `NotifyAll` and `Execute` are `notify`, by either.
`Settle` computes which states die when owners change, through the cycle.
Positions count from 1, and index 0 stands for `size_t(-1)`.

**ThreadPool.** A critical section of a mutex is one step, except the one that
never ends: `PopTakes` destroys the previous task of the thread under the queue's
mutex, and if that posts to the pool the thread stands at "relock" for ever.
Sleepers on a condition variable are explicit and may wake up spuriously. A
thread outside `fresh` may read a stale `stopped_`.

**TimedWaiter.** `kind` tells the three uses apart: a `timed_waiter` and its
copies, the temporary one of `future::wait_for`, and the stack frame of `wait`.
A waiter is alive while `refs` is not empty, and the notification is one of its
owners (except for `wait`, whose frame is not owned). A notification is three
steps, set the flag under the lock, notify, let the capture go (`SetFlag`,
`NotifyAll`, `EndCall` or `FreeList`); that of `wait` notifies under the lock,
which is why its frame may go as soon as the flag is seen. The state may become ready, or be destroyed unready
with all its notifications.

**Latch.** Every thread makes one call. `Destroy` is the destructor, by any one
of them after its own call. It is given one assumption about its user: whoever
destroys the latch has joined the threads in `Joined`, which call `count_down`.
The destructor waits for the threads inside `wait` and `count_down_and_wait`;
for a `count_down` that has left the lock but not yet notified it does not, and
without the assumption `NoUseAfterDestruction` fails.

The counter starts at what all the calls together subtract: `Units` has one
element for every one a call subtracts, and `counter` is the size of that set.

**TaskGraph.** The composition. `Then` and `ThreadPool` say how one continuation
gets from its parent to its child and one thread from `attach` to its end; here
each of these ways keeps only the steps at which the two meet. What is new is
the nesting. Resolving a future calls `schedule` for all its continuations; a
task the pool refuses, or destroys with its queue, resolves its own future in
turn, in the same thread, which so has a stack of `frames`. Two simplifications:
a worker reads the current `stopped_` (`ThreadPool` has the stale one), and a
refused post destroys its task in one step. `MCTaskGraph` gives the graph.

**Either** and **UniqueFunction.** The state the code records (`state_`,
`vtbl_`) and the state of the storage (`storage`, `buffer`: what was really
constructed there and not yet destroyed) are separate variables, so that a
forgotten `clean`, a move that leaves the source's tag, or a tag set before a
constructor throws all show. Moves follow the code: `either`'s leaves the
source empty, `unique_function`'s leaves `vtbl_` set on a moved-from callable.

## Runs

| Run | Instance | Shows |
|---|---|---|
| `MCStack` | 3 pushers, 1 consumer, 1 throwing continuation | safety of the stack, refinement of the contract with its fairness |
| `MCSharedState` | 2 clients of a promise, 1 of a task or of one that unwraps | 5 invariants, although notifications may throw; the first result stays; `get` and `co_await` return, nothing leaks; refinement of `FutureContract` |
| `MCPool` | 2 workers, 1 attached thread, 2 tasks | drained when waited, prompt stop; `wait` and `attach` return, accepted tasks run; refinement of `ExecutorContract` |
| `MCThen` | one continuation of every kind, early or late | safety and liveness of continuations, with exceptions |
| `MCCombinators` | sequences of 0 to 3 inputs | safety and liveness of the combinators |
| `MCLatch` | 2 threads of each kind, amounts 0 to 2 | the barrier, and a destructor that waits for those inside |
| `MCTimedWaiter` | 2 threads, 2 waiters | truthful status, no dangling waiter, no lost notification |
| `MCTaskGraph` | 3 continuations, 2 workers | results are explained, futures resolve while the pool shuts down |
| `MCPoolDestructor` | 1 worker, 2 tasks | *violated*: the destructor does not drain |
| `MCPoolAttached` | 1 worker, 1 attached thread | *violated*: `wait` does not cover attached threads |
| `MCPoolRepost` | 1 worker, 3 tasks | *violated*: a task whose destruction posts locks the queue up |
| `MCCombinatorsDrop` | sequences of 0 to 2 inputs | *violated*: dropping the combined future destroys nothing |

The violations are documented statements that the code does not keep; each has
an entry under `findings`.

Bounds. Three pushers give a compare-exchange that fails once because of another
pusher and once because of the consumer, lists of up to three nodes, and a
throwing continuation above or below others. Two clients give a last owner that
disappears while the other one reads; each attaches at most one continuation of
each kind and reads once. `Copied` bounds the producers whose `shared_future`s a
second client gets: in `MCSharedState` that is the promise. A task, and one that
unwraps, has one client there and so three threads at most, with that of the inner
future; the `notify`, `detach` and `get` of one client still put three
continuations in one list, of which one may throw. The theorems have no such
bound. Two workers and an
attached thread give the barrier a thread that must wake two others, and two
tasks one that is taken while the other is queued. Three inputs give two losers
of the race for the index. `Then` has no bound: one continuation is one
continuation. Two threads of each kind give the latch a waiter of each kind
asleep while another one is woken, and an amount of 2 or 0 a call that is not
the last, or nothing. Two waiters let a thread construct a new one, or share the
other's, while the first is being notified. The graph of `MCTaskGraph`, a
continuation with two continuations, is the smallest in which a thread that
handles one refusal or one result still has another continuation to schedule;
two workers let one of them leave while the other is in the middle. No symmetry
is used. `Terminated` lets TLC tell a finished system from a deadlock (in
`SharedState` a thread whose wake-up an exception took away counts as finished),
and only the repost run, which may lock up, switches the deadlock check off.

Fairness is weak and on what has begun: a thread inside a call goes on, and
threads of the pool are scheduled. No client has to call anything, no promise
has to be used or destroyed, no inner future resolved, no future to be dropped, no latch or pool to be
destroyed, and attached threads need not come. In `TimedWaiter` no time limit
has to expire, so that a wait can only end by the notification. In `Latch` every
thread makes its call, since a barrier that somebody does not reach holds for
ever. The executor of `Then` has to run *or* destroy what it was given. Spurious
wake-ups are allowed and never required. A task of the pool ends.

Mutants: every checked property has a variant of a definition, next to the
original, that a plausible mistake would produce (an order of memory too weak, a
missing notification, a lost reference, a boundary off by one) and that makes
TLC report the property.

## Proofs

The theorems hold for every value of the constants that the named assumptions
allow. Hardly any invariant that the runs check is inductive by itself; each module
states an `IInv` with the reasons, shows that `Init` implies it and that every
step keeps it (one lemma for each part of `IInv`, one case for each action), and
derives the properties. TLC checked each `IInv` on the instance of its run before
it was proved, and so the refinements. The type invariants of `SharedState` and
`Combinators` and `OnePlace` of `ThreadPool` are theorems only.

`OnceConsumableStackProofs` proves, for any set of pushers, finite or not, any
set of throwing continuations, and only from `StackAssumption` (the null pointer,
the marker, the consumer and the nodes are different things), that the invariants
`MCStack` checks hold in every behaviour of `Spec`, and that `Spec` implements
the specification of `ContinuationsContract`.

None of these invariants is inductive: that the consumer's iterator points at a
live node needs to be known of the whole list. `IInv` has five parts. `TypeOK`.
`Shape`: the history `order` read backwards is the linked list, without
repetitions, and a node's state agrees with its pusher's. `Anchors`: `head_` and
the detached list begin at the last element of `order`, and which phases go with
which head. `Walk`: the iterator, then the deleter, come down `order` from the
top; above them everything is called (deleted), at or below nothing, and the
loop stopped either at the bottom or under a continuation that throws. `Views`:
`head_` carries the views of all who pushed, and of the consumer once consumed.
One lemma per part goes through the actions; `Walk` is the longest, because
`DeleteNode` and `CallNext` move along it. The refinement maps each node to a
status of the contract; `ContractStep` shows that every step changes at most one
status, in a way the contract allows.

`ContinuationProofs`, first part: `Then`, which has no constants. TLC explores its
whole state space in `MCThen`; what the proof adds is the reason. `Owned` is the
inventory of the three states: `CntOwners`, `ParentOwners` and `InnerOwners` say
of each possible `shared_ptr` to the `cnt_state`, to the parent and to the inner
state between which steps of which thread it exists. The `Phases` say what each
thread's step tells about the storages and about the other threads: a posted task
means that the parent is ready and the action, if the child lives, untouched
(`TaskPhases`); the child's storage is empty until exactly one of the four that
may fill it has done so (`StoragePhases`). `FunctionCalledOnce` follows because the
function leaves the action at `MoveAction`, and a child that was dropped early
leaves no owner under which a task could still get there (`ChildPhases`).
`ChainReleased` needs `Owned` alone: whoever has nothing left to do owns nothing.
`ChildFateFinal` is an action property: neither a late task, a late promise nor a
late inner state changes the result of a child that is ready or revives one that
was destroyed. It needs one more invariant, `InnerOnce`.

`ContinuationProofs`, second part: the containers in which a continuation keeps
its action, its result and its task, any number of objects, from no assumption on
the constants. Both models are instances; the two invariants stand beside their
models. `EithersAreSound`: `state_` always names
the alternative that lies in the storage (`StateIsTrue`), so that `clean` runs
the right destructor, and every value that exists is held by exactly one either,
every value held exists (`OneOwner`), so that none is destroyed twice or lost.
The two need each other: what a move does to the owners depends on what `clean`
has destroyed. Moving an either to itself, which the code does not test for, is a
case on its own: `clean` comes first, and the either is empty.
`FunctionsAreSound`: `vtbl_` is the type of what lies in the buffer
(`VtblIsTrue`), every callable has one owner (`OneOwner`), an object that was
not moved from is not hollow (`NotHollow`), and a call on it reaches its callable
or throws `bad_function_call` (`CallsAreDefined`). `NotHollow` is the
strengthening: the last follows from it. The proofs hold for every number of
objects, which makes a run of TLC on a few of them superfluous.

`SharedStateProofs`, any set of clients, finite or not, from `FirstAssumption`
and `SourcesAssumption`. `IInv` is an inventory of ownership. `Ownership` says of
each possible `shared_ptr` exactly when it exists: the promise's before
`get_future`, an operation's while it runs, a client's as long as it has a
future, a detach's until its continuation is freed. So `refs = {}`, the death of
the state, is a fact about the producer and all clients at once, and
`NoUseOfDeadState` follows. `Phases` ties storage and stack to the producer's
step, `Accounts` every continuation a client asked for to where it is now,
`Answers` what was read to what is stored, `Endings` the cancel action to a
state that died unready. `DeliveryOrCancellation` needs them all: a detach that
is pending is an owner, so that a release can end the state only if no detach is
on the stack (`ReleaseKeepsHolds`). `Phases` has three parts: what each step of
either thread says of the storage (`StorageFilled`), that of the producer and the
thread of the inner future only one ever executes the stack (`OneExecutes`), and
which thread holds the list (`ListInUse`). `Losses` says that nothing is lost
unless a notification was called, and `Accounts` where each continuation is, the
lost ones included: from these follows `NotificationCalledOnce`. `FirstResultWins`
and `DeadStaysDead` are action properties of the same invariant; `ResultStep` is
the first of them for what a reader finds, which may lie in the inner state.
`Refinement` puts them together: for any
producer and clients the model implements `FutureContract`. A step that resolves,
asks, tells and answers nobody can only be the death of an unready state, which is
the abstract `Cancel` (`QuietStep`), and the invariant says that no detach is
pending then. The others are `Execute`, `CallContinuation` and
`ContinuationThrows` (`CallStep`), the attaching steps (`AttachStep`) and the
reads (`ReadStep`), one abstract step each.

`ThreadPoolProofs`, any finite number of threads and any set of tasks, with or
without tasks that post when they are destroyed, from `PoolAssumption`: the
names of threads, tasks and mutexes differ, there are finitely many threads, and
a reposting task has something to post. `Places` follows a task from the queue,
where it is once, to the one thread that runs it. `attached` is the size of
`Counted`, the threads between the two critical sections of `attach`; a thread
that gets through the barrier therefore proves that the set was empty. `Exits`
says why a thread left the loop: the queue is closed and empty, or it saw
`stopped_`, and that value travels with `mutex_` to those who attach later.
`LoopsOver` says that after the barrier nobody runs a task: threads that attach
then go straight through. `WaitDrains` and `StopTakesEffect` follow.
`Refinement` shows that pool and queue implement `ExecutorContract`: tasks start in
the order in which they were accepted, and `Join` finds what the abstract `Ends`
demands. A thread that takes a task and then locks the queue up (`relock`) holds
that task for ever, which the contract allows: it promises no progress. Two more
facts about the owner's calls, `Calls`, are an invariant of their own.

`LatchProofs`, any finite number of threads and any amounts, from
`LatchAssumption` (roles are disjoint, the threads are finitely many). `Counts`
is the accounting: the counter is the size of the set of units that calls still
to begin will subtract, `waiters_` the number of threads inside. The amounts
enter through the library's facts about finite sets, one call at a time. `Open`
says that nobody is through while the counter is positive, `Closing` who may
destroy the latch and what he knows then. `Destruction` has the hypothesis that
the threads that call `count_down` are among those the destroyer has joined; it
is what the constants of `MCLatch` say, and without it the property fails, since
the code notifies after its unlock.

`TimedWaiterProofs`, any sets of threads and waiters, from `WaiterAssumption`
(the producer, the threads and the capture are different owners). `Calls`
follows a notification from the stack to its one call, `Flags` says that a flag
is set by that call only, `Lives` who keeps the waiter until then: the capture
itself, or, for the frame of `wait`, a thread that cannot return before its flag
is set. `Waits` holds what a thread that attached too late has still to do.

`CombinatorsProofs`, sequences of any length, from `MaxSizeAssumption`. The
heart is `Counted`: `remains` is the size of `Owing`, the inputs that are not
ready or whose readiness has not been counted yet, and `make()` itself while it
loops. `NotifyAllCounts` shows that a call of `notify` removes one element and
every other step none, so that `operations_remains_` never wraps around and
reaches zero when nothing is owed. `Elected` says that at most one actor is
behind `ready_flag_`. `Making`, `Called` and `Owned` say who keeps the combined
state and which inputs it keeps; `SettleEffect` derives from `Settle` what the
cycle of owners lets go. `NoDanglingNorLeak` is both halves: the state lives
while it may be called, and nothing is left when everything is over.

`TaskGraphProofs`, every graph of continuations and any set of workers, from
`GraphAssumption` (a continuation is numbered after its parent; the promise's
thread, the owner and the workers differ). Which futures are alive is a
recursive function over the graph. `AliveDef` and `AliveShrinks` are inductions
over it, which the prover cannot do by a theorem that takes the hypothesis as a
parameter; each is put as a choice of the least counterexample instead (`Least`,
from the well-founded order on finite sets). In `IInv`, `Stacks` and `Once` say
what the frames of all threads together mean: a future's continuations are
called by one thread at one place of its stack, a task is with one worker and at
the bottom. `Queued` takes a continuation from its caller to the queue to a
worker, each at most once, and says that nothing has happened to one whose
parent is pending. `Expected` is the heart: a living future without a result is
about to be called, queued or run, or its parent is pending. So
`DestructionIsFinal`: when the destructor returns, nothing of the first kind is
left, and a pending future would have a living pending parent, down to the
promise. Every step lemma also proves that no dead future comes to life
(`TheDeadStayDead`), on which `Expected` rests: a continuation that `schedule`
skips is never asked for again.

Only model-checked:

- all liveness, the fairness part of the refinement included, and `ENABLED`,
  which are beyond this prover: that a future is resolved, a waiter woken, a task
  run and a call returned is shown on the instances of the runs;
- the documented statements that the code does not keep, which are refuted.

## Not modelled

- `std::terminate` when something throws in a `noexcept` function or a destructor
  (a notification called by `abandon`, for one), or when the pool's constructor
  cannot start a thread: the program is over.
- Exceptions of other continuations outside the stack and `SharedState`. `Then`,
  `Combinators`, `TimedWaiter` and `TaskGraph` follow one continuation of a state,
  or those of the library, which do not throw; a notification on the same state
  that throws before it is its turn would drop it uncalled, so that the child of a
  `then` or a combined future stays pending while somebody holds the parent's
  future. The inner state of `SharedState` has no other continuation either.
  An exception in a coroutine goes to its own promise.
- An allocation that fails when a node is pushed, except in `then`
  (`AttachThrows`): in `make()` of `when_any` and `when_all`, and in `notify`,
  `get`, `detach` and unwrap, where it goes to the caller.
- Calls on invalid futures and moved-from promises, which throw `no_state`, and a
  second `get_future`, which throws `future_already_retrieved`: no state changes.
- What the code leaves to its caller: `count_down` by more than the counter,
  moving a `unique_function` to itself, calling a moved-from one, an alternative
  of an `either` whose destructor comes back to that `either`.
- The number of notifications that polling with `wait_for` leaves on a state,
  which grows with the calls and is bounded by nothing, and the depth of the
  recursion of continuations run in place.
- `algo_adapters` (stateless function objects), type traits and configuration
  (compile time), build files and examples. The tests are read as documentation.

## Plan

Nothing of the plan is left: every component of the inventory that has state is
modelled, every safety property the passing runs check is a theorem, and the three
abstract specifications are implemented. What could follow:

1. the combined futures of `when_any` and `when_all`, and the child of `Then`, as
   implementations of `FutureContract`, of which `FirstStays`, `NoRevival` and
   `ChildFateFinal` are the outcome's part;
2. several continuations that post to an abstract executor in place of the pool of
   `TaskGraph`.
