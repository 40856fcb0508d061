-------------------------------- MODULE Then --------------------------------
(***************************************************************************)
(* One continuation attached with then or next of future<T> or             *)
(* shared_future<T>: the parent state, the cnt_state with the child's      *)
(* shared_state in it, the executor, and, when the function returns a      *)
(* future, the inner state the child is unwrapped from.  A shared parent   *)
(* has one more owner.                                                     *)
(*                                                                         *)
(* Ownership runs against the flow of results.  The child future owns the  *)
(* cnt_state, whose action owns the parent (and what the function has      *)
(* captured, such as the inner future); the parent's continuation stack,   *)
(* the executor's task and the inner state's stack hold weak pointers to   *)
(* the cnt_state.  Each set of owners is a variable; an object dies with   *)
(* its last owner.  Reaching the child's own continuations is one step:    *)
(* SharedState tells that part of the story.                               *)
(***************************************************************************)
EXTENDS Naturals, FiniteSets

VARIABLES
  kind,     \* "then"; "next", which skips the function on an error; or
            \* "interruptible", which gives it a promise of the child's result
  unwraps,  \* the function returns a future (the one it has captured)
  ppc,      \* the thread that resolves the parent
  spc,      \* then() attaching the continuation, and its call (schedule)
  pref,     \* owners of the parent state
  pst,      \* the parent's storage
  pready,   \* the parent's continuations are executed
  cref,     \* owners of the cnt_state and the child state in it
  action,   \* cnt_state::action
  cst,      \* the child's storage
  cready,   \* the child's continuations are executed
  tpc,      \* the task posted to the executor
  outcome,  \* what the function has left behind
  ran,      \* number of invocations of the function
  prm,      \* the promise an interruptible function was given
  ipc,      \* the thread that resolves the inner state
  iref,     \* owners of the inner state
  ist,      \* the inner state's storage
  iready,   \* the inner state's continuations are executed
  icnt,     \* unwrap's continuation is on the inner state's stack
  child,    \* the thread that owns the child future
  early     \* it dropped the future before the task had begun to run

parent == <<ppc, spc, pref, pst, pready>>
cnt == <<cref, action, cst, cready>>
exec == <<tpc, outcome, ran, prm>>
inner == <<ipc, iref, ist, iready, icnt>>
vars == <<kind, unwraps, parent, cnt, exec, inner, child, early>>

Results == {"value", "error"}

-----------------------------------------------------------------------------

\* then() of a future moves its state into the action.
OfFuture == pref = {"action"}

\* A shared_future's state may have other owners.
OfSharedFuture == pref = {"action", "client"}

Returning(k, future) == kind = k /\ unwraps = future

\* make_then_state has made the cnt_state, and is about to attach it to a
\* parent that has been, is being or will be resolved.
Init ==
  /\ OfFuture \/ OfSharedFuture
  /\ \/ \E k \in {"then", "next"}, u \in BOOLEAN : Returning(k, u)
     \/ Returning("interruptible", FALSE)
  /\ ppc = "idle"
  /\ spc = "attach"
  /\ pst = "empty"
  /\ pready = FALSE
  /\ cref = {"future"}
  /\ action = "present"
  /\ cst = "empty"
  /\ cready = FALSE
  /\ tpc = "none"
  /\ outcome = "none"
  /\ ran = 0
  /\ prm = "none"
  /\ ipc = "idle"
  /\ iref = IF unwraps THEN {"fn"} ELSE {}
  /\ ist = "empty"
  /\ iready = FALSE
  /\ icnt = FALSE
  /\ child = "making"
  /\ early = FALSE

\* Owner o lets go of the cnt_state; the last one destroys the action, with
\* the parent and the captured future in it, and the child's storage.
DropCnt(o) ==
  /\ cref' = cref \ {o}
  /\ IF cref \subseteq {o}
       THEN /\ pref' = pref \ {"action"}
            /\ iref' = iref \ ({"child"} \cup (IF action = "present" THEN {"fn"} ELSE {}))
            /\ action' = "clean"
       ELSE UNCHANGED <<pref, iref, action>>

-----------------------------------------------------------------------------
\* The parent is resolved: set_value, set_exception or a destroyed promise.

BeginResolve(r) ==
  /\ ppc = "idle"
  /\ IF pref = {}
       THEN /\ ppc' = "done"
            /\ UNCHANGED <<pref, pst>>
       ELSE /\ ppc' = "execute"
            /\ pref' = pref \cup {"op"}
            /\ pst' = r
  /\ UNCHANGED <<kind, unwraps, spc, pready, cnt, exec, inner, child, early>>

\* Readiness is published; the continuation is called if it is there.
ExecuteParent ==
  /\ ppc = "execute"
  /\ pready' = TRUE
  /\ IF spc = "attached"
       THEN ppc' = "call" /\ spc' = "lock"
       ELSE ppc' = "release" /\ UNCHANGED spc
  /\ UNCHANGED <<kind, unwraps, pref, pst, cnt, exec, inner, child, early>>

\* set_value returns, or is left by what the continuation has thrown.
ReleaseParent ==
  /\ ppc = "release" \/ (ppc = "call" /\ spc = "over")
  /\ pref' = pref \ {"op"}
  /\ ppc' = "done"
  /\ UNCHANGED <<kind, unwraps, spc, pst, pready, cnt, exec, inner, child, early>>

-----------------------------------------------------------------------------
\* The continuation is attached, and called by the parent's execute or by
\* then() itself.

\* make_then_state pushes; a push that is refused is a call.
Attach ==
  /\ spc = "attach"
  /\ IF pready
       THEN spc' = "lock" /\ UNCHANGED child
       ELSE spc' = "attached" /\ child' = "held"
  /\ UNCHANGED <<kind, unwraps, ppc, pref, pst, pready, cnt, exec, inner, early>>

\* An exception leaves then(): the cnt_state dies with its only owner, and
\* takes the parent along that the future has been moved to.
LeaveThen ==
  /\ child' = "dropped"
  /\ early' = (ran = 0)
  /\ DropCnt("future")

\* The allocation of the stack's node fails.
AttachThrows ==
  /\ spc = "attach"
  /\ spc' = "over"
  /\ LeaveThen
  /\ UNCHANGED <<kind, unwraps, ppc, pst, pready, cst, cready, exec, ipc, ist,
                 iready, icnt>>

\* cnt_state::schedule: nothing happens if the child is gone.
ScheduleLock ==
  /\ spc = "lock"
  /\ IF cref = {}
       THEN spc' = "over" /\ UNCHANGED cref
       ELSE spc' = "unlock" /\ cref' = cref \cup {"schedule"}
  /\ UNCHANGED <<kind, unwraps, ppc, pref, pst, pready, action, cst, cready, exec,
                 inner, child, early>>

\* Mutant: the executor gets a shared_ptr.
ScheduleUnlock_KeepsStrong ==
  /\ spc = "unlock"
  /\ UNCHANGED <<cref, pref, iref, action>>
  /\ spc' = "post"
  /\ UNCHANGED <<kind, unwraps, ppc, pst, pready, cst, cready, exec, ipc, ist,
                 iready, icnt, child, early>>

\* std::exchange(self, nullptr): only a weak pointer goes to the executor.
ScheduleUnlock ==
  /\ spc = "unlock"
  /\ DropCnt("schedule")
  /\ spc' = "post"
  /\ UNCHANGED <<kind, unwraps, ppc, pst, pready, cst, cready, exec, ipc, ist,
                 iready, icnt, child, early>>

\* post() takes the task, and then() may return.
PostTask ==
  /\ spc = "post"
  /\ tpc' = "posted"
  /\ spc' = "over"
  /\ child' = IF child = "making" THEN "held" ELSE child
  /\ UNCHANGED <<kind, unwraps, ppc, pref, pst, pready, cnt, outcome, ran, prm,
                 inner, early>>

\* post() throws: unwinding destroys the task it was given.
PostThrows ==
  /\ spc = "post"
  /\ tpc' = "rejected"
  /\ spc' = "unwind"
  /\ UNCHANGED <<kind, unwraps, ppc, pref, pst, pready, cnt, outcome, ran, prm,
                 inner, child, early>>

\* The exception leaves schedule, for set_value or for then().
Unwind ==
  /\ spc = "unwind"
  /\ tpc = "over"
  /\ spc' = "over"
  /\ IF child = "making"
       THEN LeaveThen
       ELSE UNCHANGED <<child, early, cref, pref, iref, action>>
  /\ UNCHANGED <<kind, unwraps, ppc, pst, pready, cst, cready, exec, ipc, ist,
                 iready, icnt>>

-----------------------------------------------------------------------------
\* The executor runs the task: cnt_action::operator() and cnt_state::run.

RunLock ==
  /\ tpc = "posted"
  /\ IF cref = {}
       THEN tpc' = "over" /\ UNCHANGED cref
       ELSE tpc' = "move" /\ cref' = cref \cup {"run"}
  /\ UNCHANGED <<kind, unwraps, parent, action, cst, cready, outcome, ran, prm, inner,
                 child, early>>

\* Mutant: run copies the function and leaves the action in place.
MoveAction_Copies ==
  /\ tpc = "move"
  /\ pref' = pref \cup {"func"}
  /\ tpc' = "invoke"
  /\ UNCHANGED <<kind, unwraps, ppc, spc, pst, pready, cref, action, cst, cready, outcome, ran, prm,
                 inner, child, early>>

\* The function and its parent move to run's local variable.
MoveAction ==
  /\ tpc = "move"
  /\ action' = "clean"
  /\ pref' = (pref \ {"action"}) \cup {"func"}
  /\ tpc' = "invoke"
  /\ UNCHANGED <<kind, unwraps, ppc, spc, pst, pready, cref, cst, cready, outcome, ran, prm,
                 inner, child, early>>

\* decorate_*: next passes an error on, anything else calls the function with
\* the parent, which then dies with the call.
SkipFunction ==
  /\ tpc = "invoke"
  /\ kind = "next" /\ pst = "error"
  /\ outcome' = "error"
  /\ tpc' = "store"
  /\ UNCHANGED <<kind, unwraps, parent, cnt, ran, prm, inner, child, early>>

CallFunction(o) ==
  /\ tpc = "invoke"
  /\ kind # "interruptible"
  /\ kind = "next" => pst = "value"
  /\ ran' = ran + 1
  /\ outcome' = o
  /\ tpc' = IF o = "future" THEN "unwrap" ELSE "store"
  /\ pref' = IF kind = "then" THEN pref \ {"func"} ELSE pref
  /\ UNCHANGED <<kind, unwraps, ppc, spc, pst, pready, cnt, prm, inner, child, early>>

\* The interruptible overloads: the function owns the parent and a promise
\* with a weak pointer to the child; run's own pointer is given up before.
CallInterruptible ==
  /\ tpc = "invoke"
  /\ kind = "interruptible"
  /\ ran' = ran + 1
  /\ prm' = "held"
  /\ cref' = cref \ {"run"}
  /\ tpc' = "called"
  /\ UNCHANGED <<kind, unwraps, parent, action, cst, cready, outcome, inner,
                 child, early>>

InterruptibleReturns ==
  /\ tpc = "called"
  /\ pref' = pref \ {"func"}
  /\ tpc' = "over"
  /\ UNCHANGED <<kind, unwraps, ppc, spc, pst, pready, cnt, outcome, ran, prm, inner,
                 child, early>>

\* Somebody, sooner or later, uses that promise or destroys it ("broken").
UsePromise(r) ==
  /\ prm = "held"
  /\ IF cref = {}
       THEN prm' = "gone" /\ UNCHANGED <<cref, cst>>
       ELSE prm' = "execute" /\ cst' = r /\ cref' = cref \cup {"promise"}
  /\ UNCHANGED <<kind, unwraps, parent, action, cready, tpc, outcome, ran, inner,
                 child, early>>

PromiseExecutes ==
  /\ prm = "execute"
  /\ cready' = TRUE
  /\ prm' = "release"
  /\ UNCHANGED <<kind, unwraps, parent, cref, action, cst, tpc, outcome, ran,
                 inner, child, early>>

PromiseReleases ==
  /\ prm = "release"
  /\ DropCnt("promise")
  /\ prm' = "gone"
  /\ UNCHANGED <<kind, unwraps, ppc, spc, pst, pready, cst, cready, tpc, outcome, ran,
                 ipc, ist, iready, icnt, child, early>>

Outcomes ==
  IF unwraps THEN {"future", "invalid", "error"} ELSE {"value", "error"}

\* Mutant: unwrap does not look at the null pointer of an invalid future.
StoreResult_NullNotChecked ==
  /\ tpc = "store"
  /\ cst' = outcome
  /\ tpc' = "execute"
  /\ UNCHANGED <<kind, unwraps, parent, cref, action, cready, outcome, ran, prm, inner,
                 child, early>>

\* set_state_value, or unwrap of a future without state.
StoreResult ==
  /\ tpc = "store"
  /\ cst' = IF outcome = "invalid" THEN "broken" ELSE outcome
  /\ tpc' = "execute"
  /\ UNCHANGED <<kind, unwraps, parent, cref, action, cready, outcome, ran, prm, inner,
                 child, early>>

ExecuteChild ==
  /\ tpc = "execute"
  /\ cready' = TRUE
  /\ tpc' = "finish"
  /\ UNCHANGED <<kind, unwraps, parent, cref, action, cst, outcome, ran, prm, inner,
                 child, early>>

\* unwrap: the child's storage keeps the inner state alive...
UnwrapStore ==
  /\ tpc = "unwrap"
  /\ cst' = "inner"
  /\ iref' = iref \cup {"child"}
  /\ tpc' = "push"
  /\ UNCHANGED <<kind, unwraps, parent, cref, action, cready, outcome, ran, prm, ipc,
                 ist, iready, icnt, child, early>>

\* Mutant: unwrap executes the continuations without waiting for the inner state.
UnwrapPush_ExecutesAtOnce ==
  /\ tpc = "push"
  /\ tpc' = "execute"
  /\ UNCHANGED icnt
  /\ UNCHANGED <<kind, unwraps, parent, cnt, outcome, ran, prm, ipc, iref, ist, iready,
                 child, early>>

\* ...and its readiness makes the child ready, now or later.
UnwrapPush ==
  /\ tpc = "push"
  /\ IF iready
       THEN tpc' = "execute" /\ UNCHANGED icnt
       ELSE tpc' = "finish" /\ icnt' = TRUE
  /\ UNCHANGED <<kind, unwraps, parent, cnt, outcome, ran, prm, ipc, iref, ist, iready,
                 child, early>>

\* The local function dies, with what it captured, and the aliasing pointer.
FinishRun ==
  /\ tpc = "finish"
  /\ tpc' = "over"
  /\ cref' = cref \ {"run"}
  /\ pref' = pref \ {"func"}
  /\ iref' = iref \ ({"fn"} \cup (IF cref \subseteq {"run"} THEN {"child"} ELSE {}))
  /\ UNCHANGED <<kind, unwraps, ppc, spc, pst, pready, action, cst, cready, outcome,
                 ran, prm, ipc, ist, iready, icnt, child, early>>

-----------------------------------------------------------------------------
\* The executor throws the task away: ~cnt_action and cnt_state::abandon.

DiscardLock ==
  /\ tpc \in {"posted", "rejected"}
  /\ IF cref = {}
       THEN tpc' = "over" /\ UNCHANGED cref
       ELSE tpc' = "abandon" /\ cref' = cref \cup {"abandon"}
  /\ UNCHANGED <<kind, unwraps, parent, action, cst, cready, outcome, ran, prm, inner,
                 child, early>>

AbandonChild ==
  /\ tpc = "abandon"
  /\ IF ~cready /\ cst # "inner"
       THEN cst' = "broken" /\ tpc' = "break"
       ELSE tpc' = "clean" /\ UNCHANGED cst
  /\ UNCHANGED <<kind, unwraps, parent, cref, action, cready, outcome, ran, prm, inner,
                 child, early>>

ExecuteBroken ==
  /\ tpc = "break"
  /\ cready' = TRUE
  /\ tpc' = "clean"
  /\ UNCHANGED <<kind, unwraps, parent, cref, action, cst, outcome, ran, prm, inner,
                 child, early>>

\* action.clean() gives the parent up although the child lives on.
CleanAction ==
  /\ tpc = "clean"
  /\ tpc' = "over"
  /\ action' = "clean"
  /\ cref' = cref \ {"abandon"}
  /\ pref' = pref \ {"action"}
  /\ iref' = iref \ {"fn"}
  /\ UNCHANGED <<kind, unwraps, ppc, spc, pst, pready, cst, cready, outcome, ran, prm, ipc,
                 ist, iready, icnt, child, early>>

-----------------------------------------------------------------------------
\* The inner state is resolved by its own promise.

BeginInner(r) ==
  /\ unwraps
  /\ ipc = "idle"
  /\ IF iref = {}
       THEN ipc' = "done" /\ UNCHANGED <<iref, ist>>
       ELSE ipc' = "execute" /\ iref' = iref \cup {"op"} /\ ist' = r
  /\ UNCHANGED <<kind, unwraps, parent, cnt, exec, iready, icnt, child, early>>

\* Mutant: set_value on the inner state does not execute its stack.
ExecuteInner_SkipsStack ==
  /\ ipc = "execute"
  /\ iready' = TRUE
  /\ ipc' = "release"
  /\ UNCHANGED <<kind, unwraps, parent, cnt, exec, iref, ist, icnt, child, early>>

ExecuteInner ==
  /\ ipc = "execute"
  /\ iready' = TRUE
  /\ ipc' = IF icnt THEN "lock" ELSE "release"
  /\ UNCHANGED <<kind, unwraps, parent, cnt, exec, iref, ist, icnt, child, early>>

\* unwrap's continuation: lock the child and execute its continuations.
InnerLocksChild ==
  /\ ipc = "lock"
  /\ IF cref = {}
       THEN ipc' = "release" /\ UNCHANGED cref
       ELSE ipc' = "ready" /\ cref' = cref \cup {"inner"}
  /\ UNCHANGED <<kind, unwraps, parent, action, cst, cready, exec, iref, ist,
                 iready, icnt, child, early>>

InnerExecutesChild ==
  /\ ipc = "ready"
  /\ cready' = TRUE
  /\ ipc' = "unlock"
  /\ UNCHANGED <<kind, unwraps, parent, cref, action, cst, exec, iref, ist, iready,
                 icnt, child, early>>

InnerUnlocksChild ==
  /\ ipc = "unlock"
  /\ DropCnt("inner")
  /\ ipc' = "release"
  /\ UNCHANGED <<kind, unwraps, ppc, spc, pst, pready, cst, cready, exec, ist, iready,
                 icnt, child, early>>

ReleaseInner ==
  /\ ipc = "release"
  /\ iref' = iref \ {"op"}
  /\ ipc' = "done"
  /\ UNCHANGED <<kind, unwraps, parent, cnt, exec, ist, iready, icnt, child, early>>

-----------------------------------------------------------------------------
\* The child future.

\* Another owner of the parent drops its shared_future.
DropParentCopy ==
  /\ "client" \in pref
  /\ pref' = pref \ {"client"}
  /\ UNCHANGED <<kind, unwraps, ppc, spc, pst, pready, cnt, exec, inner, child, early>>

DropChild ==
  /\ child = "held"
  /\ child' = "dropped"
  /\ early' = (ran = 0 /\ "run" \notin cref /\ tpc # "over")
  /\ DropCnt("future")
  /\ UNCHANGED <<kind, unwraps, ppc, spc, pst, pready, cst, cready, exec, ipc, ist,
                 iready, icnt>>

WaitForChild ==
  /\ child = "held"
  /\ child' = "waiting"
  /\ UNCHANGED <<kind, unwraps, parent, cnt, exec, inner, early>>

ChildWakes ==
  /\ child = "waiting"
  /\ cready
  /\ child' = "held"
  /\ UNCHANGED <<kind, unwraps, parent, cnt, exec, inner, early>>

-----------------------------------------------------------------------------

ParentStep == ExecuteParent \/ ReleaseParent

ScheduleStep ==
  Attach \/ ScheduleLock \/ ScheduleUnlock \/ PostTask \/ Unwind

\* Out of memory, or an executor that refuses.
Failure == AttachThrows \/ PostThrows

TaskStep ==
  \/ RunLock \/ MoveAction
  \/ SkipFunction \/ (\E o \in Outcomes : CallFunction(o))
  \/ StoreResult \/ ExecuteChild \/ UnwrapStore \/ UnwrapPush \/ FinishRun
  \/ CallInterruptible \/ InterruptibleReturns
  \/ DiscardLock \/ AbandonChild \/ ExecuteBroken \/ CleanAction

PromiseStep == PromiseExecutes \/ PromiseReleases

InnerStep ==
  \/ ExecuteInner \/ InnerLocksChild \/ InnerExecutesChild
  \/ InnerUnlocksChild \/ ReleaseInner

\* The threads of control are done with this continuation.
Quiet ==
  /\ ppc = "done"
  /\ spc \in {"attached", "over"}
  /\ prm \in {"none", "gone"}
  /\ tpc \in {"none", "over"}
  /\ unwraps => ipc = "done"

\* Everything is over (not a step of the code).
Terminated ==
  /\ Quiet
  /\ child = "dropped"
  /\ "client" \notin pref
  /\ UNCHANGED vars

Next ==
  \/ \E r \in Results : BeginResolve(r) \/ BeginInner(r)
  \/ \E r \in Results \cup {"broken"} : UsePromise(r)
  \/ ParentStep \/ ScheduleStep \/ Failure \/ TaskStep \/ PromiseStep \/ InnerStep
  \/ DropParentCopy \/ DropChild \/ WaitForChild \/ ChildWakes
  \/ Terminated

Spec == Init /\ [][Next]_vars

\* What has begun goes on, and an executor runs or destroys what it is given.
\* No promise has to be resolved and the child need not be dropped.
Fairness ==
  /\ WF_vars(ParentStep)
  /\ WF_vars(ScheduleStep)
  /\ WF_vars(TaskStep)
  /\ WF_vars(PromiseStep)
  /\ WF_vars(InnerStep)
  /\ WF_vars(ChildWakes)

FairSpec == Spec /\ Fairness

-----------------------------------------------------------------------------

\* The type invariant in parts, one for each group of variables the steps change
\* together: the parent, the continuation, its task, the inner state, the rest.
ParentTypes ==
  /\ ppc \in {"idle", "execute", "call", "release", "done"}
  /\ spc \in {"attach", "attached", "lock", "unlock", "post", "unwind", "over"}
  /\ pref \subseteq {"action", "func", "op", "client"}
  /\ pst \in Results \cup {"empty"}
  /\ pready \in BOOLEAN

CntTypes ==
  /\ cref \subseteq {"future", "schedule", "run", "abandon", "inner", "promise"}
  /\ action \in {"present", "clean"}
  /\ cst \in Results \cup {"empty", "broken", "inner"}
  /\ cready \in BOOLEAN

ExecTypes ==
  /\ tpc \in {"none", "posted", "rejected", "move", "invoke", "store", "execute", "unwrap",
              "push", "finish", "called", "abandon", "break", "clean", "over"}
  /\ outcome \in Results \cup {"none", "future", "invalid"}
  /\ ran \in Nat
  /\ prm \in {"none", "held", "execute", "release", "gone"}

InnerTypes ==
  /\ ipc \in {"idle", "execute", "lock", "ready", "unlock", "release", "done"}
  /\ iref \subseteq {"fn", "child", "op"}
  /\ ist \in Results \cup {"empty"}
  /\ iready \in BOOLEAN
  /\ icnt \in BOOLEAN

ClientTypes ==
  /\ kind \in {"then", "next", "interruptible"}
  /\ unwraps \in BOOLEAN
  /\ child \in {"making", "held", "waiting", "dropped"}
  /\ early \in BOOLEAN

TypeOK == ParentTypes /\ CntTypes /\ ExecTypes /\ InnerTypes /\ ClientTypes

\* The function is called at most once, with a live parent that is ready, and
\* never after the child was dropped before its task began (the future's
\* destructor cancels what has not started).
FunctionRunsOnce ==
  /\ ran <= 1
  /\ tpc = "invoke" => pready /\ "func" \in pref
  /\ tpc = "move" => action = "present"
  /\ early => ran = 0

\* Whoever finds the child ready finds a result; an unwrapped child is ready
\* only together with a live and ready inner state.
ChildHasResult ==
  cready /\ cref # {} =>
    /\ cst # "empty"
    /\ cst = "inner" => iready /\ ist # "empty" /\ iref # {}

\* A dropped child takes the chain behind it along: when the cnt_state is gone
\* and nobody is in the middle of an operation on it, it owns neither parent
\* nor inner state any more, however late or early that happened.
CancellationPropagates ==
  /\ cref = {} /\ ppc \in {"idle", "done"} /\ tpc \in {"none", "posted", "over"} =>
       pref \subseteq {"client"}
  /\ cref = {} /\ ipc \in {"idle", "done"} /\ tpc \in {"none", "posted", "over"} =>
       iref = {}
  /\ Quiet => pref \subseteq {"client"}
  /\ Quiet /\ child = "dropped" => cref = {}

\* A thread waiting for the child wakes up once the parent has been resolved,
\* and the inner state if there is one, whether the task is run or discarded,
\* or refused by post(), unless an interruptible function has a promise it
\* does not use: no path through schedule, run, unwrap and abandon forgets it.
ChildWakesUp ==
  child = "waiting" /\ ppc # "idle" /\ (unwraps => ipc # "idle")
    ~> child # "waiting" \/ prm = "held"
=============================================================================
