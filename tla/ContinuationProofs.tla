------------------------- MODULE ContinuationProofs -------------------------
(***************************************************************************)
(* Proofs about a continuation (Then) and about the two containers it is   *)
(* kept in, for any number of these: its action and its result lie in an   *)
(* either, the task its executor is given in a unique_function.            *)
(*                                                                         *)
(* What a thread may still do to a continuation depends on who is alive,   *)
(* so that the invariant says of each of the three states which step owns  *)
(* it (CntOwners, ParentOwners, InnerOwners), and of each thread what its  *)
(* step tells about the others and about the storage (the Phases).         *)
(***************************************************************************)
EXTENDS Then, TLAPS

CONSTANTS
  Eithers, Count, Values,   \* those of Either
  Functions, Callables      \* the Objects of UniqueFunction and what they hold

VARIABLES
  live, state, storage, held, existing,                   \* those of Either
  made, vtbl, buffer, callable, present, moved, called    \* UniqueFunction's

E == INSTANCE Either

F == INSTANCE UniqueFunction
       WITH Objects <- Functions, live <- made, held <- callable, existing <- present,
            outcome <- called

-----------------------------------------------------------------------------
\* then, next and unwrap.

\* The steps of run and of abandon between which the task has a shared_ptr to
\* the cnt_state.
Running == {"move", "invoke", "store", "execute", "unwrap", "push", "finish"}
Abandoning == {"abandon", "break", "clean"}

\* Who has a shared_ptr to the cnt_state.
CntOwners ==
  /\ "future" \in cref <=> child # "dropped"
  /\ "schedule" \in cref <=> spc = "unlock"
  /\ "run" \in cref <=> tpc \in Running
  /\ "abandon" \in cref <=> tpc \in Abandoning
  /\ "inner" \in cref <=> ipc \in {"ready", "unlock"}
  /\ "promise" \in cref <=> prm \in {"execute", "release"}

\* Who has one to the parent: the action, as long as it is there; the function
\* that was moved out of it; whoever resolves the parent.
ParentOwners ==
  /\ "action" \in pref <=> action = "present"
  /\ "func" \in pref <=>
       \/ tpc \in {"invoke", "called"}
       \/ kind = "next" /\ tpc \in {"store", "execute", "unwrap", "push", "finish"}
  /\ "op" \in pref <=> ppc \in {"execute", "call", "release"}

\* Who has one to the inner state: the function that has captured its future,
\* where that may be; the child; whoever resolves it.
InnerOwners ==
  /\ "fn" \in iref <=> unwraps /\ (action = "present" \/ tpc \in Running)
  /\ "child" \in iref <=> cst = "inner" /\ cref # {}
  /\ "op" \in iref <=> ipc \in {"execute", "lock", "ready", "unlock", "release"}

\* The parent is resolved once, and its continuation called by that or later.
ParentPhases ==
  /\ ppc \in {"idle", "execute"} => ~pready
  /\ ppc \in {"call", "release"} => pready
  /\ ppc = "done" /\ ~pready => pref = {}
  /\ spc = "attached" => ~pready
  /\ spc \in {"lock", "unlock", "post", "unwind"} => pready

\* The task is posted by schedule; the action leaves the cnt_state when the
\* task takes or cleans it, or with the cnt_state.
TaskPhases ==
  /\ tpc # "none" => spc \in {"unwind", "over"} /\ pready
  /\ spc = "unwind" => tpc # "none"
  /\ tpc = "none" /\ spc = "over" => cref = {}
  /\ tpc \in {"none", "posted", "rejected", "move"} \cup Abandoning =>
       (action = "clean" <=> cref = {})
  /\ tpc \notin {"none", "posted", "rejected", "move"} \cup Abandoning => action = "clean"

\* What the function has been called for, and what came of it.
FunctionPhases ==
  /\ tpc \in {"none", "posted", "rejected", "move", "invoke"} \cup Abandoning => ran = 0
  /\ ran <= 1
  /\ tpc = "unwrap" => unwraps /\ ran = 1
  /\ tpc = "store" => outcome \in Outcomes \ {"future"}
  /\ kind = "interruptible" =>
       ~unwraps /\ tpc \notin {"store", "execute", "unwrap", "push", "finish"}
  /\ prm # "none" <=> kind = "interruptible" /\ ran = 1
  /\ tpc = "called" => prm # "none"

\* The child is not dropped before it is handed over, and one that was dropped
\* early finds no task that might still run.
ChildPhases ==
  /\ child = "making" => spc \notin {"attached", "over"}
  /\ spc = "attach" => child = "making"
  /\ early => child = "dropped" /\ ran = 0 /\ "run" \notin cref

\* The child's storage is filled before it is made ready, by the task, the
\* promise or unwrap; what unwrap has stored becomes ready with the inner state.
StoragePhases ==
  /\ tpc \in {"none", "posted", "rejected", "move", "invoke", "store", "unwrap", "abandon"} =>
       cst = "empty"
  /\ prm = "held" => cst = "empty"
  /\ tpc \in {"execute", "push", "finish", "break"} => cst # "empty"
  /\ tpc = "push" => cst = "inner"
  /\ prm \in {"execute", "release"} => cst # "empty"
  /\ cst = "inner" => unwraps /\ ran = 1 /\ tpc \in {"execute", "push", "finish", "over"}
  /\ cready => cst # "empty"
  /\ cready /\ cst = "inner" => iready
  /\ tpc = "execute" /\ cst = "inner" => iready

\* The inner state is resolved once; unwrap's continuation is on its stack only
\* if the child stores it.
InnerPhases ==
  /\ ~unwraps => iref = {} /\ ipc = "idle"
  /\ iready => ist # "empty"
  /\ ipc = "execute" => ist # "empty"
  /\ ipc \in {"lock", "ready", "unlock"} => icnt
  /\ ipc \in {"lock", "ready", "unlock", "release"} => iready
  /\ icnt => cst = "inner"

Owned == CntOwners /\ ParentOwners /\ InnerOwners

Phases ==
  /\ ParentPhases /\ TaskPhases /\ FunctionPhases
  /\ ChildPhases /\ StoragePhases /\ InnerPhases

\* The inductive invariant.
IInv == TypeOK /\ Owned /\ Phases

-----------------------------------------------------------------------------

\* Letting go of the cnt_state only takes owners away.
LEMMA DropTypes ==
  ASSUME TypeOK, NEW o, DropCnt(o)
  PROVE  /\ pref' \subseteq {"action", "func", "op", "client"}
         /\ cref' \subseteq {"future", "schedule", "run", "abandon", "inner", "promise"}
         /\ iref' \subseteq {"fn", "child", "op"}
         /\ action' \in {"present", "clean"}
BY DEF TypeOK, ParentTypes, CntTypes, InnerTypes, DropCnt

\* The thread that resolves the parent, and another owner of it.
LEMMA ParentKeeps ==
  ASSUME IInv, (\E r \in Results : BeginResolve(r)) \/ ExecuteParent \/ ReleaseParent \/
         DropParentCopy
  PROVE  IInv'
<1> USE DEF IInv, TypeOK, Owned, Phases
<1>1. ASSUME NEW r \in Results, BeginResolve(r) PROVE IInv'
  <2> USE <1>1 DEF BeginResolve, Results, cnt, exec, inner
  <2>1. ParentTypes'
    BY DEF ParentTypes
  <2>2. ParentOwners'
    BY DEF ParentOwners
  <2>3. ParentPhases'
    BY DEF ParentPhases
  <2> QED
    BY <2>1, <2>2, <2>3 DEF CntTypes, ExecTypes, InnerTypes, ClientTypes, CntOwners,
       InnerOwners, TaskPhases, FunctionPhases, ChildPhases, StoragePhases, InnerPhases,
       Running, Abandoning, Outcomes, Results
<1>2. CASE ExecuteParent
  <2> USE <1>2 DEF ExecuteParent, cnt, exec, inner
  <2>1. ParentTypes'
    BY DEF ParentTypes, Results
  <2>2. CntOwners' /\ ParentOwners'
    BY DEF CntOwners, ParentOwners, Running, Abandoning
  <2>3. ParentPhases' /\ TaskPhases' /\ ChildPhases'
    BY DEF ParentPhases, TaskPhases, ChildPhases, Abandoning
  <2> QED
    BY <2>1, <2>2, <2>3 DEF CntTypes, ExecTypes, InnerTypes, ClientTypes, InnerOwners,
       FunctionPhases, StoragePhases, InnerPhases, Running, Abandoning, Outcomes, Results
<1>3. CASE ReleaseParent
  <2> USE <1>3 DEF ReleaseParent, cnt, exec, inner
  <2>1. ParentTypes'
    BY DEF ParentTypes, Results
  <2>2. ParentOwners'
    BY DEF ParentOwners
  <2>3. ParentPhases'
    BY DEF ParentPhases
  <2> QED
    BY <2>1, <2>2, <2>3 DEF CntTypes, ExecTypes, InnerTypes, ClientTypes, CntOwners,
       InnerOwners, TaskPhases, FunctionPhases, ChildPhases, StoragePhases, InnerPhases,
       Running, Abandoning, Outcomes, Results
<1>4. CASE DropParentCopy
  <2> USE <1>4 DEF DropParentCopy, cnt, exec, inner
  <2>1. ParentTypes'
    BY DEF ParentTypes, Results
  <2>2. ParentOwners'
    BY DEF ParentOwners
  <2>3. ParentPhases'
    BY DEF ParentPhases
  <2> QED
    BY <2>1, <2>2, <2>3 DEF CntTypes, ExecTypes, InnerTypes, ClientTypes, CntOwners,
       InnerOwners, TaskPhases, FunctionPhases, ChildPhases, StoragePhases, InnerPhases,
       Running, Abandoning, Outcomes, Results
<1> QED
  BY <1>1, <1>2, <1>3, <1>4

\* then() attaches the continuation, and schedule posts it.
LEMMA ScheduleKeeps ==
  ASSUME IInv, Attach \/ AttachThrows \/ ScheduleLock \/ ScheduleUnlock \/ PostTask \/
         PostThrows \/ Unwind
  PROVE  IInv'
<1> USE DEF IInv, TypeOK, Owned, Phases
<1>1. CASE Attach
  <2> USE <1>1 DEF Attach, cnt, exec, inner
  <2>1. ParentTypes' /\ ClientTypes'
    BY DEF ParentTypes, ClientTypes, Results
  <2>2. CntOwners'
    BY DEF CntOwners, ChildPhases, Running, Abandoning
  <2>3. ParentPhases' /\ TaskPhases' /\ ChildPhases'
    BY DEF ParentPhases, TaskPhases, ChildPhases, Abandoning
  <2> QED
    BY <2>1, <2>2, <2>3 DEF CntTypes, ExecTypes, InnerTypes, ParentOwners, InnerOwners,
       FunctionPhases, StoragePhases, InnerPhases, Running, Abandoning, Outcomes, Results
<1>2. CASE AttachThrows
  <2> USE <1>2 DEF AttachThrows, LeaveThen, DropCnt, exec
  <2>1. ParentTypes' /\ CntTypes' /\ InnerTypes' /\ ClientTypes'
    BY DropTypes DEF ParentTypes, CntTypes, InnerTypes, ClientTypes, Results
  <2>2. CntOwners' /\ ParentOwners' /\ InnerOwners'
    BY DEF CntOwners, ParentOwners, InnerOwners, Running, Abandoning
  <2>3. ParentPhases'
    BY DEF ParentPhases
  <2>4. TaskPhases'
    BY DEF CntTypes, CntOwners, TaskPhases, FunctionPhases, StoragePhases, InnerPhases,
       Running, Abandoning, Outcomes, Results
  <2>5. ChildPhases'
    BY DEF CntOwners, TaskPhases, FunctionPhases, ChildPhases, Running, Abandoning, Outcomes
  <2>6. InnerPhases'
    BY DEF InnerPhases
  <2> QED
    BY <2>1, <2>2, <2>3, <2>4, <2>5, <2>6 DEF ExecTypes, FunctionPhases, StoragePhases,
       Abandoning, Outcomes, Results
<1>3. CASE ScheduleLock
  <2> USE <1>3 DEF ScheduleLock, exec, inner
  <2>1. ParentTypes' /\ CntTypes'
    BY DEF ParentTypes, CntTypes, Results
  <2>2. CntOwners' /\ InnerOwners'
    BY DEF CntOwners, InnerOwners, Running, Abandoning
  <2>3. ParentPhases' /\ TaskPhases' /\ ChildPhases'
    BY DEF CntOwners, ParentPhases, TaskPhases, ChildPhases, Running, Abandoning
  <2> QED
    BY <2>1, <2>2, <2>3 DEF ExecTypes, InnerTypes, ClientTypes, ParentOwners, FunctionPhases,
       StoragePhases, InnerPhases, Abandoning, Outcomes, Results
<1>4. CASE ScheduleUnlock
  <2> USE <1>4 DEF ScheduleUnlock, DropCnt, exec
  <2>1. ParentTypes' /\ CntTypes' /\ InnerTypes'
    BY DropTypes DEF ParentTypes, CntTypes, InnerTypes, Results
  <2>2. CntOwners' /\ ParentOwners' /\ InnerOwners'
    BY DEF CntOwners, ParentOwners, InnerOwners, Running, Abandoning
  <2>3. ParentPhases' /\ TaskPhases' /\ ChildPhases' /\ InnerPhases'
    BY DEF ParentPhases, TaskPhases, ChildPhases, InnerPhases, Abandoning
  <2> QED
    BY <2>1, <2>2, <2>3 DEF ExecTypes, ClientTypes, FunctionPhases, StoragePhases, Abandoning,
       Outcomes, Results
<1>5. CASE PostTask
  <2> USE <1>5 DEF PostTask, cnt, inner
  <2>1. ParentTypes' /\ ExecTypes' /\ ClientTypes'
    BY DEF ParentTypes, ExecTypes, ClientTypes, Results
  <2>2. CntOwners' /\ ParentOwners' /\ InnerOwners'
    BY DEF CntOwners, ParentOwners, InnerOwners, TaskPhases, Running, Abandoning
  <2>3. ParentPhases' /\ TaskPhases' /\ FunctionPhases' /\ ChildPhases' /\ StoragePhases'
    BY DEF ParentPhases, TaskPhases, FunctionPhases, ChildPhases, StoragePhases, Abandoning,
       Outcomes
  <2> QED
    BY <2>1, <2>2, <2>3 DEF CntTypes, InnerTypes, InnerPhases, Results
<1>6. CASE PostThrows
  <2> USE <1>6 DEF PostThrows, cnt, inner
  <2>1. ParentTypes' /\ ExecTypes'
    BY DEF ParentTypes, ExecTypes, Results
  <2>2. CntOwners' /\ ParentOwners' /\ InnerOwners'
    BY DEF CntOwners, ParentOwners, InnerOwners, TaskPhases, Running, Abandoning
  <2>3. ParentPhases' /\ TaskPhases' /\ FunctionPhases' /\ ChildPhases' /\ StoragePhases'
    BY DEF ParentPhases, TaskPhases, FunctionPhases, ChildPhases, StoragePhases, Abandoning,
       Outcomes
  <2> QED
    BY <2>1, <2>2, <2>3 DEF CntTypes, InnerTypes, ClientTypes, InnerPhases, Results
<1>7. CASE Unwind
  <2> USE <1>7 DEF Unwind, LeaveThen, DropCnt, exec
  <2>1. ParentTypes'
    BY DropTypes DEF ParentTypes, Results
  <2>2. CntTypes'
    BY DropTypes DEF CntTypes, Results
  <2>3. InnerTypes'
    BY DropTypes DEF InnerTypes, Results
  <2>4. ClientTypes'
    BY DropTypes DEF ClientTypes
  <2>5. CntOwners' /\ ParentOwners' /\ InnerOwners'
    BY DEF CntOwners, ParentOwners, InnerOwners, Running, Abandoning
  <2>6. ParentPhases'
    BY DEF ParentPhases
  <2>7. TaskPhases'
    BY DEF TaskPhases, Abandoning
  <2>8. ChildPhases'
    BY DEF ClientTypes, CntOwners, ChildPhases, Running, Abandoning
  <2>9. InnerPhases'
    BY DEF InnerPhases
  <2> QED
    BY <2>1, <2>2, <2>3, <2>4, <2>5, <2>6, <2>7, <2>8, <2>9 DEF ExecTypes, FunctionPhases,
       StoragePhases, Abandoning, Outcomes, Results
<1> QED
  BY <1>1, <1>2, <1>3, <1>4, <1>5, <1>6, <1>7

\* cnt_state::run, up to the call of the function.
LEMMA RunKeeps ==
  ASSUME IInv, RunLock \/ MoveAction \/ SkipFunction \/ (\E o \in Outcomes : CallFunction(o))
  PROVE  IInv'
<1> USE DEF IInv, TypeOK, Owned, Phases
<1>1. CASE RunLock
  <2> USE <1>1 DEF RunLock, parent, inner
  <2>1. CntTypes' /\ ExecTypes'
    BY DEF CntTypes, ExecTypes, Results
  <2>2. CntOwners' /\ ParentOwners' /\ InnerOwners'
    BY DEF CntTypes, CntOwners, ParentOwners, InnerOwners, TaskPhases, Running, Abandoning,
       Results
  <2>3. TaskPhases' /\ FunctionPhases' /\ ChildPhases' /\ StoragePhases'
    BY DEF CntTypes, CntOwners, TaskPhases, FunctionPhases, ChildPhases, StoragePhases,
       InnerPhases, Running, Abandoning, Outcomes, Results
  <2> QED
    BY <2>1, <2>2, <2>3 DEF ParentTypes, InnerTypes, ClientTypes, ParentPhases, InnerPhases,
       Results
<1>2. CASE MoveAction
  <2> USE <1>2 DEF MoveAction, inner
  <2>1. ParentTypes' /\ CntTypes' /\ ExecTypes'
    BY DEF ParentTypes, CntTypes, ExecTypes, Results
  <2>2. CntOwners' /\ ParentOwners' /\ InnerOwners'
    BY DEF CntOwners, ParentOwners, InnerOwners, Running, Abandoning
  <2>3. ParentPhases' /\ TaskPhases' /\ FunctionPhases' /\ StoragePhases'
    BY DEF ParentPhases, TaskPhases, FunctionPhases, StoragePhases, Abandoning, Outcomes
  <2> QED
    BY <2>1, <2>2, <2>3 DEF InnerTypes, ClientTypes, ChildPhases, InnerPhases, Results
<1>3. CASE SkipFunction
  <2> USE <1>3 DEF SkipFunction, Results, parent, cnt, inner
  <2>1. ExecTypes'
    BY DEF ExecTypes
  <2>2. CntOwners' /\ ParentOwners' /\ InnerOwners'
    BY DEF CntOwners, ParentOwners, InnerOwners, Running, Abandoning
  <2>3. TaskPhases' /\ FunctionPhases' /\ StoragePhases'
    BY DEF TaskPhases, FunctionPhases, StoragePhases, Abandoning, Outcomes
  <2> QED
    BY <2>1, <2>2, <2>3 DEF ParentTypes, CntTypes, InnerTypes, ClientTypes, ParentPhases,
       ChildPhases, InnerPhases, Results
<1>4. ASSUME NEW o \in Outcomes, CallFunction(o) PROVE IInv'
  <2> USE <1>4 DEF CallFunction, Outcomes, Results, cnt, inner
  <2>1. ParentTypes' /\ ExecTypes'
    BY DEF ParentTypes, ExecTypes
  <2>2. CntOwners' /\ ParentOwners' /\ InnerOwners'
    BY DEF ClientTypes, CntOwners, ParentOwners, InnerOwners, Running, Abandoning
  <2>3. ParentPhases' /\ TaskPhases' /\ FunctionPhases' /\ ChildPhases' /\ StoragePhases'
    BY DEF CntOwners, ParentPhases, TaskPhases, FunctionPhases, ChildPhases, StoragePhases,
       Running, Abandoning
  <2> QED
    BY <2>1, <2>2, <2>3 DEF CntTypes, InnerTypes, ClientTypes, InnerPhases, Results
<1> QED
  BY <1>1, <1>2, <1>3, <1>4

\* An interruptible function, and the promise it was given.
LEMMA InterruptibleKeeps ==
  ASSUME IInv, CallInterruptible \/ InterruptibleReturns \/
         (\E r \in Results \cup {"broken"} : UsePromise(r)) \/ PromiseExecutes \/
         PromiseReleases
  PROVE  IInv'
<1> USE DEF IInv, TypeOK, Owned, Phases
<1>1. CASE CallInterruptible
  <2> USE <1>1 DEF CallInterruptible, parent, inner
  <2>1. CntTypes' /\ ExecTypes'
    BY DEF CntTypes, ExecTypes, Results
  <2>2. CntOwners' /\ ParentOwners' /\ InnerOwners'
    BY DEF CntOwners, ParentOwners, InnerOwners, FunctionPhases, InnerPhases, Running,
       Abandoning, Outcomes
  <2>3. TaskPhases' /\ FunctionPhases' /\ ChildPhases' /\ StoragePhases'
    BY DEF CntOwners, TaskPhases, FunctionPhases, ChildPhases, StoragePhases, Running,
       Abandoning, Outcomes
  <2> QED
    BY <2>1, <2>2, <2>3 DEF ParentTypes, InnerTypes, ClientTypes, ParentPhases, InnerPhases,
       Results
<1>2. CASE InterruptibleReturns
  <2> USE <1>2 DEF InterruptibleReturns, cnt, inner
  <2>1. ParentTypes' /\ ExecTypes'
    BY DEF ParentTypes, ExecTypes, Results
  <2>2. CntOwners' /\ ParentOwners' /\ InnerOwners'
    BY DEF CntOwners, ParentOwners, InnerOwners, Running, Abandoning
  <2>3. ParentPhases' /\ TaskPhases' /\ FunctionPhases' /\ StoragePhases'
    BY DEF ParentPhases, TaskPhases, FunctionPhases, StoragePhases, Abandoning, Outcomes
  <2> QED
    BY <2>1, <2>2, <2>3 DEF CntTypes, InnerTypes, ClientTypes, ChildPhases, InnerPhases,
       Results
<1>3. ASSUME NEW r \in Results \cup {"broken"}, UsePromise(r) PROVE IInv'
  <2> USE <1>3 DEF UsePromise, Results, parent, inner
  <2>1. CntTypes' /\ ExecTypes'
    BY DEF CntTypes, ExecTypes
  <2>2. CntOwners' /\ InnerOwners'
    BY DEF CntOwners, InnerOwners, FunctionPhases, InnerPhases, Running, Abandoning, Outcomes
  <2>3. TaskPhases' /\ FunctionPhases' /\ ChildPhases' /\ StoragePhases' /\ InnerPhases'
    BY DEF TaskPhases, FunctionPhases, ChildPhases, StoragePhases, InnerPhases, Abandoning,
       Outcomes
  <2> QED
    BY <2>1, <2>2, <2>3 DEF ParentTypes, InnerTypes, ClientTypes, ParentOwners, ParentPhases,
       Results
<1>4. CASE PromiseExecutes
  <2> USE <1>4 DEF PromiseExecutes, parent, inner
  <2>1. CntTypes' /\ ExecTypes'
    BY DEF CntTypes, ExecTypes, Results
  <2>2. CntOwners'
    BY DEF CntOwners, Running, Abandoning
  <2>3. FunctionPhases' /\ StoragePhases'
    BY DEF FunctionPhases, StoragePhases, Abandoning, Outcomes
  <2> QED
    BY <2>1, <2>2, <2>3 DEF ParentTypes, InnerTypes, ClientTypes, ParentOwners, InnerOwners,
       ParentPhases, TaskPhases, ChildPhases, InnerPhases, Running, Abandoning, Results
<1>5. CASE PromiseReleases
  <2> USE <1>5 DEF PromiseReleases, DropCnt
  <2>1. ParentTypes' /\ CntTypes' /\ ExecTypes' /\ InnerTypes'
    BY DropTypes DEF ParentTypes, CntTypes, ExecTypes, InnerTypes, Results
  <2>2. CntOwners' /\ ParentOwners' /\ InnerOwners'
    BY DEF CntOwners, ParentOwners, InnerOwners, Running, Abandoning
  <2>3. ParentPhases' /\ TaskPhases' /\ FunctionPhases' /\ ChildPhases' /\ StoragePhases' /\
        InnerPhases'
    BY DEF ParentPhases, TaskPhases, FunctionPhases, ChildPhases, StoragePhases, InnerPhases,
       Abandoning, Outcomes
  <2> QED
    BY <2>1, <2>2, <2>3 DEF ClientTypes
<1> QED
  BY <1>1, <1>2, <1>3, <1>4, <1>5

\* cnt_state::run, from the result of the function on.
LEMMA StoreKeeps ==
  ASSUME IInv, StoreResult \/ ExecuteChild \/ UnwrapStore \/ UnwrapPush \/ FinishRun
  PROVE  IInv'
<1> USE DEF IInv, TypeOK, Owned, Phases
<1>1. CASE StoreResult
  <2> USE <1>1 DEF StoreResult, Results, parent, inner
  <2>1. CntTypes' /\ ExecTypes'
    BY DEF CntTypes, ExecTypes, FunctionPhases, Abandoning, Outcomes
  <2>2. CntOwners' /\ ParentOwners' /\ InnerOwners'
    BY DEF CntOwners, ParentOwners, InnerOwners, FunctionPhases, StoragePhases, Running,
       Abandoning, Outcomes
  <2>3. TaskPhases' /\ FunctionPhases' /\ StoragePhases' /\ InnerPhases'
    BY DEF TaskPhases, FunctionPhases, StoragePhases, InnerPhases, Abandoning, Outcomes
  <2> QED
    BY <2>1, <2>2, <2>3 DEF ParentTypes, InnerTypes, ClientTypes, ParentPhases, ChildPhases,
       Results
<1>2. CASE ExecuteChild
  <2> USE <1>2 DEF ExecuteChild, parent, inner
  <2>1. CntTypes' /\ ExecTypes'
    BY DEF CntTypes, ExecTypes, Results
  <2>2. CntOwners' /\ ParentOwners' /\ InnerOwners'
    BY DEF CntOwners, ParentOwners, InnerOwners, Running, Abandoning
  <2>3. TaskPhases' /\ FunctionPhases' /\ StoragePhases'
    BY DEF TaskPhases, FunctionPhases, StoragePhases, Abandoning, Outcomes
  <2> QED
    BY <2>1, <2>2, <2>3 DEF ParentTypes, InnerTypes, ClientTypes, ParentPhases, ChildPhases,
       InnerPhases, Results
<1>3. CASE UnwrapStore
  <2> USE <1>3 DEF UnwrapStore, parent
  <2>1. CntTypes' /\ ExecTypes' /\ InnerTypes'
    BY DEF CntTypes, ExecTypes, InnerTypes, Results
  <2>2. CntOwners' /\ ParentOwners' /\ InnerOwners'
    BY DEF CntOwners, ParentOwners, InnerOwners, Running, Abandoning
  <2>3. TaskPhases' /\ FunctionPhases' /\ StoragePhases' /\ InnerPhases'
    BY DEF TaskPhases, FunctionPhases, StoragePhases, InnerPhases, Abandoning, Outcomes
  <2> QED
    BY <2>1, <2>2, <2>3 DEF ParentTypes, ClientTypes, ParentPhases, ChildPhases, Results
<1>4. CASE UnwrapPush
  <2> USE <1>4 DEF UnwrapPush, parent, cnt
  <2>1. ExecTypes' /\ InnerTypes'
    BY DEF ExecTypes, InnerTypes, Results
  <2>2. CntOwners' /\ ParentOwners' /\ InnerOwners'
    BY DEF CntOwners, ParentOwners, InnerOwners, Running, Abandoning
  <2>3. TaskPhases' /\ FunctionPhases' /\ StoragePhases' /\ InnerPhases'
    BY DEF TaskPhases, FunctionPhases, StoragePhases, InnerPhases, Abandoning, Outcomes
  <2> QED
    BY <2>1, <2>2, <2>3 DEF ParentTypes, CntTypes, ClientTypes, ParentPhases, ChildPhases,
       Results
<1>5. CASE FinishRun
  <2> USE <1>5 DEF FinishRun
  <2>1. ParentTypes' /\ CntTypes' /\ ExecTypes' /\ InnerTypes'
    BY DEF ParentTypes, CntTypes, ExecTypes, InnerTypes, Results
  <2>2. CntOwners' /\ ParentOwners' /\ InnerOwners'
    BY DEF CntOwners, ParentOwners, InnerOwners, TaskPhases, Running, Abandoning
  <2>3. ParentPhases' /\ TaskPhases' /\ FunctionPhases' /\ ChildPhases' /\ StoragePhases' /\
        InnerPhases'
    BY DEF ParentPhases, TaskPhases, FunctionPhases, ChildPhases, StoragePhases, InnerPhases,
       Abandoning, Outcomes
  <2> QED
    BY <2>1, <2>2, <2>3 DEF ClientTypes
<1> QED
  BY <1>1, <1>2, <1>3, <1>4, <1>5

\* cnt_state::abandon.
LEMMA AbandonKeeps ==
  ASSUME IInv, DiscardLock \/ AbandonChild \/ ExecuteBroken \/ CleanAction
  PROVE  IInv'
<1> USE DEF IInv, TypeOK, Owned, Phases
<1>1. CASE DiscardLock
  <2> USE <1>1 DEF DiscardLock, parent, inner
  <2>1. CntTypes' /\ ExecTypes'
    BY DEF CntTypes, ExecTypes, Results
  <2>2. CntOwners' /\ ParentOwners' /\ InnerOwners'
    BY DEF CntOwners, ParentOwners, InnerOwners, Running, Abandoning
  <2>3. TaskPhases' /\ FunctionPhases' /\ ChildPhases' /\ StoragePhases'
    BY DEF TaskPhases, FunctionPhases, ChildPhases, StoragePhases, Abandoning, Outcomes
  <2> QED
    BY <2>1, <2>2, <2>3 DEF ParentTypes, InnerTypes, ClientTypes, ParentPhases, InnerPhases,
       Results
<1>2. CASE AbandonChild
  <2> USE <1>2 DEF AbandonChild, Results, parent, inner
  <2>1. CntTypes' /\ ExecTypes'
    BY DEF CntTypes, ExecTypes
  <2>2. CntOwners' /\ ParentOwners' /\ InnerOwners'
    BY DEF CntOwners, ParentOwners, InnerOwners, Running, Abandoning
  <2>3. TaskPhases' /\ FunctionPhases' /\ StoragePhases' /\ InnerPhases'
    BY DEF TaskPhases, FunctionPhases, StoragePhases, InnerPhases, Abandoning, Outcomes
  <2> QED
    BY <2>1, <2>2, <2>3 DEF ParentTypes, InnerTypes, ClientTypes, ParentPhases, ChildPhases,
       Results
<1>3. CASE ExecuteBroken
  <2> USE <1>3 DEF ExecuteBroken, parent, inner
  <2>1. CntTypes' /\ ExecTypes'
    BY DEF CntTypes, ExecTypes, Results
  <2>2. CntOwners' /\ ParentOwners' /\ InnerOwners'
    BY DEF CntOwners, ParentOwners, InnerOwners, Running, Abandoning
  <2>3. TaskPhases' /\ FunctionPhases' /\ StoragePhases'
    BY DEF TaskPhases, FunctionPhases, StoragePhases, Abandoning, Outcomes
  <2> QED
    BY <2>1, <2>2, <2>3 DEF ParentTypes, InnerTypes, ClientTypes, ParentPhases, ChildPhases,
       InnerPhases, Results
<1>4. CASE CleanAction
  <2> USE <1>4 DEF CleanAction
  <2>1. ParentTypes' /\ CntTypes' /\ ExecTypes' /\ InnerTypes'
    BY DEF ParentTypes, CntTypes, ExecTypes, InnerTypes, Results
  <2>2. CntOwners' /\ ParentOwners' /\ InnerOwners'
    BY DEF CntOwners, ParentOwners, InnerOwners, StoragePhases, Running, Abandoning
  <2>3. ParentPhases' /\ TaskPhases' /\ FunctionPhases' /\ ChildPhases' /\ StoragePhases' /\
        InnerPhases'
    BY DEF ParentPhases, TaskPhases, FunctionPhases, ChildPhases, StoragePhases, InnerPhases,
       Abandoning, Outcomes
  <2> QED
    BY <2>1, <2>2, <2>3 DEF ClientTypes
<1> QED
  BY <1>1, <1>2, <1>3, <1>4

\* The thread that resolves the inner state.
LEMMA InnerKeeps ==
  ASSUME IInv, (\E r \in Results : BeginInner(r)) \/ ExecuteInner \/ InnerLocksChild \/
         InnerExecutesChild \/ InnerUnlocksChild \/ ReleaseInner
  PROVE  IInv'
<1> USE DEF IInv, TypeOK, Owned, Phases
<1>1. ASSUME NEW r \in Results, BeginInner(r) PROVE IInv'
  <2> USE <1>1 DEF BeginInner, Results, parent, cnt, exec
  <2>1. InnerTypes'
    BY DEF InnerTypes
  <2>2. CntOwners' /\ InnerOwners'
    BY DEF CntOwners, InnerOwners, Running, Abandoning
  <2>3. InnerPhases'
    BY DEF InnerPhases
  <2> QED
    BY <2>1, <2>2, <2>3 DEF ParentTypes, CntTypes, ExecTypes, ClientTypes, ParentOwners,
       ParentPhases, TaskPhases, FunctionPhases, ChildPhases, StoragePhases, Abandoning,
       Outcomes, Results
<1>2. CASE ExecuteInner
  <2> USE <1>2 DEF ExecuteInner, parent, cnt, exec
  <2>1. InnerTypes'
    BY DEF InnerTypes, Results
  <2>2. CntOwners' /\ InnerOwners'
    BY DEF CntOwners, InnerOwners, Running, Abandoning
  <2>3. StoragePhases' /\ InnerPhases'
    BY DEF StoragePhases, InnerPhases
  <2> QED
    BY <2>1, <2>2, <2>3 DEF ParentTypes, CntTypes, ExecTypes, ClientTypes, ParentOwners,
       ParentPhases, TaskPhases, FunctionPhases, ChildPhases, Abandoning, Outcomes, Results
<1>3. CASE InnerLocksChild
  <2> USE <1>3 DEF InnerLocksChild, parent, exec
  <2>1. CntTypes' /\ InnerTypes'
    BY DEF CntTypes, InnerTypes, Results
  <2>2. CntOwners' /\ InnerOwners'
    BY DEF CntOwners, InnerOwners, Running, Abandoning
  <2>3. TaskPhases' /\ ChildPhases' /\ InnerPhases'
    BY DEF TaskPhases, ChildPhases, InnerPhases, Abandoning
  <2> QED
    BY <2>1, <2>2, <2>3 DEF ParentTypes, ExecTypes, ClientTypes, ParentOwners, ParentPhases,
       FunctionPhases, StoragePhases, Abandoning, Outcomes, Results
<1>4. CASE InnerExecutesChild
  <2> USE <1>4 DEF InnerExecutesChild, parent, exec
  <2>1. CntTypes' /\ InnerTypes'
    BY DEF CntTypes, InnerTypes, Results
  <2>2. CntOwners' /\ InnerOwners'
    BY DEF CntOwners, InnerOwners, Running, Abandoning
  <2>3. StoragePhases' /\ InnerPhases'
    BY DEF StoragePhases, InnerPhases
  <2> QED
    BY <2>1, <2>2, <2>3 DEF ParentTypes, ExecTypes, ClientTypes, ParentOwners, ParentPhases,
       TaskPhases, FunctionPhases, ChildPhases, Abandoning, Outcomes, Results
<1>5. CASE InnerUnlocksChild
  <2> USE <1>5 DEF InnerUnlocksChild, DropCnt, exec
  <2>1. ParentTypes' /\ CntTypes' /\ InnerTypes'
    BY DropTypes DEF ParentTypes, CntTypes, InnerTypes, Results
  <2>2. CntOwners' /\ ParentOwners' /\ InnerOwners'
    BY DEF CntOwners, ParentOwners, InnerOwners, Running, Abandoning
  <2>3. ParentPhases' /\ TaskPhases' /\ ChildPhases' /\ InnerPhases'
    BY DEF ParentPhases, TaskPhases, ChildPhases, InnerPhases, Abandoning
  <2> QED
    BY <2>1, <2>2, <2>3 DEF ExecTypes, ClientTypes, FunctionPhases, StoragePhases, Abandoning,
       Outcomes, Results
<1>6. CASE ReleaseInner
  <2> USE <1>6 DEF ReleaseInner, parent, cnt, exec
  <2>1. InnerTypes'
    BY DEF InnerTypes, Results
  <2>2. CntOwners' /\ InnerOwners'
    BY DEF CntOwners, InnerOwners, Running, Abandoning
  <2>3. InnerPhases'
    BY DEF InnerPhases
  <2> QED
    BY <2>1, <2>2, <2>3 DEF ParentTypes, CntTypes, ExecTypes, ClientTypes, ParentOwners,
       ParentPhases, TaskPhases, FunctionPhases, ChildPhases, StoragePhases, Abandoning,
       Outcomes, Results
<1> QED
  BY <1>1, <1>2, <1>3, <1>4, <1>5, <1>6

\* The owner of the child.
LEMMA ChildKeeps ==
  ASSUME IInv, DropChild \/ WaitForChild \/ ChildWakes
  PROVE  IInv'
<1> USE DEF IInv, TypeOK, Owned, Phases
<1>1. CASE DropChild
  <2> USE <1>1 DEF DropChild, DropCnt, exec
  <2>1. ParentTypes' /\ CntTypes' /\ InnerTypes' /\ ClientTypes'
    BY DropTypes DEF ParentTypes, CntTypes, InnerTypes, ClientTypes, Results
  <2>2. CntOwners' /\ ParentOwners' /\ InnerOwners'
    BY DEF CntOwners, ParentOwners, InnerOwners, Running, Abandoning
  <2>3. ParentPhases'
    BY DEF ParentPhases
  <2>4. TaskPhases'
    BY DEF TaskPhases, Abandoning
  <2>5. ChildPhases'
    BY DEF ClientTypes, ChildPhases
  <2>6. InnerPhases'
    BY DEF InnerPhases
  <2>7. ExecTypes' /\ FunctionPhases' /\ StoragePhases'
    BY DEF ExecTypes, FunctionPhases, StoragePhases, Abandoning, Outcomes, Results
  <2> QED
    BY <2>1, <2>2, <2>3, <2>4, <2>5, <2>6, <2>7
<1>2. CASE WaitForChild
  <2> USE <1>2 DEF WaitForChild, parent, cnt, exec, inner
  <2>1. ClientTypes'
    BY DEF ClientTypes
  <2>2. CntOwners'
    BY DEF CntOwners, Running, Abandoning
  <2>3. ChildPhases'
    BY DEF ChildPhases
  <2>4. ParentTypes' /\ CntTypes' /\ ExecTypes' /\ InnerTypes' /\ ParentOwners' /\
        InnerOwners' /\ ParentPhases' /\ TaskPhases' /\ FunctionPhases' /\ StoragePhases' /\
        InnerPhases'
    BY DEF ParentTypes, CntTypes, ExecTypes, InnerTypes, ParentOwners, InnerOwners,
       ParentPhases, TaskPhases, FunctionPhases, StoragePhases, InnerPhases, Running,
       Abandoning, Outcomes, Results
  <2> QED
    BY <2>1, <2>2, <2>3, <2>4
<1>3. CASE ChildWakes
  <2> USE <1>3 DEF ChildWakes, parent, cnt, exec, inner
  <2>1. ClientTypes'
    BY DEF ClientTypes
  <2>2. CntOwners'
    BY DEF CntOwners, Running, Abandoning
  <2>3. ChildPhases'
    BY DEF ChildPhases
  <2> QED
    BY <2>1, <2>2, <2>3 DEF ParentTypes, CntTypes, ExecTypes, InnerTypes, ParentOwners,
       InnerOwners, ParentPhases, TaskPhases, FunctionPhases, StoragePhases, InnerPhases,
       Running, Abandoning, Outcomes, Results
<1> QED
  BY <1>1, <1>2, <1>3

\* Every step of Next is a step of one of these.
LEMMA StepKeeps ==
  ASSUME IInv, [Next]_vars
  PROVE  IInv'
<1>1. CASE UNCHANGED vars
  BY <1>1 DEF IInv, Owned, Phases, vars, parent, cnt, exec, inner, TypeOK, ParentTypes, CntTypes,
     ExecTypes, InnerTypes, ClientTypes, CntOwners, ParentOwners, InnerOwners, ParentPhases,
     TaskPhases, FunctionPhases, ChildPhases, StoragePhases, InnerPhases, Running, Abandoning,
     Results, Outcomes
<1>2. CASE Next /\ ~Terminated
  BY <1>2, ParentKeeps, ScheduleKeeps, RunKeeps, InterruptibleKeeps, StoreKeeps, AbandonKeeps,
     InnerKeeps, ChildKeeps
     DEF Next, ParentStep, ScheduleStep, Failure, TaskStep, PromiseStep, InnerStep
<1> QED
  BY <1>1, <1>2 DEF Terminated

\* The cnt_state has one owner, the child that is being made.
LEMMA InitKeeps == Init => IInv
<1> SUFFICES ASSUME Init
             PROVE  IInv
  OBVIOUS
<1> USE DEF Init, OfFuture, OfSharedFuture, Returning
<1>1. TypeOK
  BY DEF TypeOK, ParentTypes, CntTypes, ExecTypes, InnerTypes, ClientTypes, Results
<1>2. Owned
  BY DEF Owned, CntOwners, ParentOwners, InnerOwners, Running, Abandoning
<1>3. Phases
  BY DEF Phases, ParentPhases, TaskPhases, FunctionPhases, ChildPhases, StoragePhases,
     InnerPhases, Abandoning
<1> QED
  BY <1>1, <1>2, <1>3 DEF IInv

\* Every shared_ptr to the parent, to the cnt_state and to the inner state is
\* where the steps of the threads say that it is.
THEOREM ContinuationInvariant == Spec => []IInv
BY InitKeeps, StepKeeps, PTL DEF Spec

\* The variables keep their types.
THEOREM ContinuationTypes == Spec => []TypeOK
<1>1. IInv => TypeOK
  BY DEF IInv
<1> QED
  BY <1>1, ContinuationInvariant, PTL

\* run moves the function out of the action: nobody calls it a second time,
\* nobody calls it for a child that was dropped in time, and its argument is
\* alive and ready.
THEOREM FunctionCalledOnce == Spec => []FunctionRunsOnce
<1>1. ASSUME IInv PROVE FunctionRunsOnce
  <2> USE <1>1 DEF IInv
  <2>1. ran <= 1 /\ (early => ran = 0)
    BY DEF Phases, FunctionPhases, ChildPhases
  <2>2. tpc = "invoke" => pready /\ "func" \in pref
    BY DEF Owned, ParentOwners, Phases, TaskPhases
  <2>3. tpc = "move" => action = "present"
    BY DEF TypeOK, CntTypes, Owned, CntOwners, Running, Phases, TaskPhases
  <2> QED
    BY <2>1, <2>2, <2>3 DEF FunctionRunsOnce
<1> QED
  BY <1>1, ContinuationInvariant, PTL

\* set_state_value, unwrap, abandon and the interruptible promise: whichever of
\* them makes the child ready has stored a result, and what unwrap has stored
\* is an inner state that is ready and lives as long as the child.
THEOREM ChildResultFound == Spec => []ChildHasResult
<1>1. ASSUME IInv PROVE ChildHasResult
  <2> USE <1>1 DEF IInv
  <2>1. cready => cst # "empty" /\ (cst = "inner" => iready)
    BY DEF Phases, StoragePhases
  <2>2. iready => ist # "empty"
    BY DEF Phases, InnerPhases
  <2>3. cst = "inner" /\ cref # {} => iref # {}
    BY DEF Owned, InnerOwners
  <2> QED
    BY <2>1, <2>2, <2>3 DEF ChildHasResult
<1> QED
  BY <1>1, ContinuationInvariant, PTL

\* The owners of the three states: whoever has nothing left to do has let go.
\* What is left of a chain whose child is dropped is what its clients hold.
THEOREM ChainReleased == Spec => []CancellationPropagates
<1>1. ASSUME IInv PROVE CancellationPropagates
  <2> USE <1>1 DEF IInv
  <2>1. pref \subseteq {"action", "func", "op", "client"} /\ iref \subseteq {"fn", "child", "op"}
    BY DEF TypeOK, ParentTypes, InnerTypes
  <2>2. ASSUME action = "clean", ppc \in {"idle", "done"}, tpc \in {"none", "posted", "over"}
        PROVE  pref \subseteq {"client"}
    <3>1. "action" \notin pref /\ "func" \notin pref /\ "op" \notin pref
      BY <2>2 DEF Owned, ParentOwners
    <3> QED
      BY <2>1, <3>1
  <2>3. cref = {} => action = "clean"
    BY DEF TypeOK, CntTypes, Owned, CntOwners, Phases, TaskPhases, Abandoning
  <2>4. ASSUME cref = {}, ipc \in {"idle", "done"}, tpc \in {"none", "posted", "over"}
        PROVE  iref = {}
    <3>1. "fn" \notin iref /\ "child" \notin iref /\ "op" \notin iref
      BY <2>3, <2>4 DEF Owned, InnerOwners, Running
    <3> QED
      BY <2>1, <3>1
  <2>5. ASSUME Quiet PROVE pref \subseteq {"client"}
    <3>1. ppc = "done" /\ spc \in {"attached", "over"} /\ tpc \in {"none", "over"}
      BY <2>5 DEF Quiet
    <3>2. CASE tpc = "none" /\ spc = "attached"
      BY <3>1, <3>2 DEF Phases, ParentPhases
    <3>3. CASE tpc = "over" \/ spc = "over"
      <4>1. action = "clean"
        BY <2>3, <3>1, <3>3 DEF Phases, TaskPhases, Abandoning
      <4> QED
        BY <2>2, <3>1, <4>1
    <3> QED
      BY <3>1, <3>2, <3>3
  <2>6. ASSUME Quiet, child = "dropped" PROVE cref = {}
    <3>1. ipc \in {"idle", "done"}
      BY <2>6 DEF Quiet, Phases, InnerPhases, TypeOK, ClientTypes
    <3>2. \A o \in {"future", "schedule", "run", "abandon", "inner", "promise"} : o \notin cref
      BY <2>6, <3>1 DEF Quiet, Owned, CntOwners, Running, Abandoning
    <3> QED
      BY <3>2 DEF TypeOK, CntTypes
  <2> QED
    BY <2>2, <2>3, <2>4, <2>5, <2>6 DEF CancellationPropagates
<1> QED
  BY <1>1, ContinuationInvariant, PTL

\* set_state_value, unwrap, abandon and the interruptible promise exclude each
\* other: the child's storage is written once.
LEMMA StorageStep ==
  ASSUME IInv, [Next]_vars, cst # "empty"
  PROVE  cst' = cst
<1> USE DEF IInv, Phases, parent, cnt, exec, inner
<1>1. CASE StoreResult \/ UnwrapStore \/ AbandonChild
           \/ \E r \in Results \cup {"broken"} : UsePromise(r)
  BY <1>1 DEF StoragePhases, StoreResult, UnwrapStore, AbandonChild, UsePromise
<1>2. CASE \E r \in Results : BeginResolve(r) \/ BeginInner(r)
  BY <1>2 DEF BeginResolve, BeginInner
<1>3. CASE ParentStep \/ ScheduleStep \/ Failure
  BY <1>3 DEF ParentStep, ExecuteParent, ReleaseParent, ScheduleStep, Attach, ScheduleLock,
     ScheduleUnlock, PostTask, Unwind, Failure, AttachThrows, PostThrows
<1>4. CASE TaskStep /\ ~(StoreResult \/ UnwrapStore \/ AbandonChild)
  BY <1>4 DEF TaskStep, RunLock, MoveAction, SkipFunction, CallFunction, ExecuteChild,
     UnwrapPush, FinishRun, CallInterruptible, InterruptibleReturns, DiscardLock,
     ExecuteBroken, CleanAction
<1>5. CASE PromiseStep \/ InnerStep
  BY <1>5 DEF PromiseStep, PromiseExecutes, PromiseReleases, InnerStep, ExecuteInner,
     InnerLocksChild, InnerExecutesChild, InnerUnlocksChild, ReleaseInner
<1>6. CASE DropParentCopy \/ DropChild \/ WaitForChild \/ ChildWakes
  BY <1>6 DEF DropParentCopy, DropChild, WaitForChild, ChildWakes
<1>7. CASE Terminated \/ UNCHANGED vars
  BY <1>7 DEF Terminated, vars
<1> QED
  BY <1>1, <1>2, <1>3, <1>4, <1>5, <1>6, <1>7 DEF Next

\* The other threads leave the inner state to its promise, but for who has it.
LEMMA InnerUntouched ==
  ASSUME [Next]_vars, ~InnerStep, \A r \in Results : ~BeginInner(r)
  PROVE  UNCHANGED <<ipc, ist, iready>>
<1> USE DEF parent, cnt, exec, inner
<1>1. CASE \/ \E r \in Results : BeginResolve(r)
           \/ \E r \in Results \cup {"broken"} : UsePromise(r)
  BY <1>1 DEF BeginResolve, UsePromise
<1>2. CASE ParentStep \/ ScheduleStep \/ Failure
  BY <1>2 DEF ParentStep, ExecuteParent, ReleaseParent, ScheduleStep, Attach, ScheduleLock,
     ScheduleUnlock, PostTask, Unwind, Failure, AttachThrows, PostThrows
<1>3. CASE TaskStep
  BY <1>3 DEF TaskStep, RunLock, MoveAction, SkipFunction, CallFunction, StoreResult,
     ExecuteChild, UnwrapStore, UnwrapPush, FinishRun, CallInterruptible,
     InterruptibleReturns, DiscardLock, AbandonChild, ExecuteBroken, CleanAction
<1>4. CASE PromiseStep \/ DropParentCopy \/ DropChild \/ WaitForChild \/ ChildWakes
  BY <1>4 DEF PromiseStep, PromiseExecutes, PromiseReleases, DropParentCopy, DropChild,
     WaitForChild, ChildWakes
<1>5. CASE Terminated \/ UNCHANGED vars
  BY <1>5 DEF Terminated, vars
<1> QED
  BY <1>1, <1>2, <1>3, <1>4, <1>5 DEF Next

\* The inner state is not ready before its promise is used, which it is once.
InnerOnce == ipc = "idle" => ~iready

\* BeginInner leaves "idle" for good, ExecuteInner comes later.
LEMMA InnerResolvedOnce == Spec => []InnerOnce
<1> USE DEF InnerOnce, parent, cnt, exec, inner
<1>1. Init => InnerOnce
  BY DEF Init
<1>2. InnerOnce /\ [Next]_vars => InnerOnce'
  <2> SUFFICES ASSUME InnerOnce, [Next]_vars PROVE InnerOnce'
    OBVIOUS
  <2>1. CASE InnerStep \/ \E r \in Results : BeginInner(r)
    BY <2>1 DEF InnerStep, BeginInner, ExecuteInner, InnerLocksChild, InnerExecutesChild,
       InnerUnlocksChild, ReleaseInner
  <2>2. CASE ~(InnerStep \/ \E r \in Results : BeginInner(r))
    BY <2>2, InnerUntouched
  <2> QED
    BY <2>1, <2>2
<1> QED
  BY <1>1, <1>2, PTL DEF Spec

\* Whoever makes the child ready, or adds an owner, is one of its owners.
LEMMA FateStep ==
  ASSUME IInv, [Next]_vars
  PROVE  /\ cready => cready'
         /\ cref = {} => cref' = {} /\ cready' = cready
<1> USE DEF IInv, Owned, CntOwners, parent, cnt, exec, inner
<1>1. CASE \/ \E r \in Results : BeginResolve(r) \/ BeginInner(r)
           \/ \E r \in Results \cup {"broken"} : UsePromise(r)
  BY <1>1 DEF BeginResolve, BeginInner, UsePromise
<1>2. CASE ParentStep \/ ScheduleStep \/ Failure
  BY <1>2 DEF ParentStep, ExecuteParent, ReleaseParent, ScheduleStep, Attach, ScheduleLock,
     ScheduleUnlock, PostTask, Unwind, Failure, AttachThrows, PostThrows,
     LeaveThen, DropCnt
<1>3. CASE TaskStep
  BY <1>3 DEF TaskStep, RunLock, MoveAction, SkipFunction, CallFunction, StoreResult,
     ExecuteChild, UnwrapStore, UnwrapPush, FinishRun, CallInterruptible,
     InterruptibleReturns, DiscardLock, AbandonChild, ExecuteBroken, CleanAction, DropCnt,
     Running, Abandoning
<1>4. CASE PromiseStep \/ InnerStep
  BY <1>4 DEF PromiseStep, PromiseExecutes, PromiseReleases, InnerStep, ExecuteInner,
     InnerLocksChild, InnerExecutesChild, InnerUnlocksChild, ReleaseInner, DropCnt
<1>5. CASE DropParentCopy \/ DropChild \/ WaitForChild \/ ChildWakes
  BY <1>5 DEF DropParentCopy, DropChild, WaitForChild, ChildWakes, DropCnt
<1>6. CASE Terminated \/ UNCHANGED vars
  BY <1>6 DEF Terminated, vars
<1> QED
  BY <1>1, <1>2, <1>3, <1>4, <1>5, <1>6 DEF Next

\* What get() finds in a child: its own result, or that of the inner state.
ChildResult == IF cst = "inner" THEN ist ELSE cst

\* A child that is ready stays so, with the result it has, and one that was
\* destroyed, ready or cancelled, stays what it was.
ChildFateStays ==
  [][/\ cready => cready' /\ ChildResult' = ChildResult
     /\ cref = {} => cref' = {} /\ cready' = cready]_vars

\* A continuation that is run, discarded or refused gives its child one result,
\* or cancels it: neither a late task nor a late inner state changes which.
THEOREM ChildFateFinal == Spec => ChildFateStays
<1>1. ASSUME IInv, InnerOnce, [Next]_vars, cready
      PROVE  ChildResult' = ChildResult
  <2>1. cst' = cst /\ cst # "empty"
    BY <1>1, StorageStep DEF IInv, Phases, StoragePhases
  <2>2. ASSUME cst = "inner" PROVE ist' = ist
    <3>1. iready
      BY <1>1, <2>2 DEF IInv, Phases, StoragePhases
    <3>2. CASE InnerStep
      BY <3>2 DEF InnerStep, ExecuteInner, InnerLocksChild, InnerExecutesChild,
         InnerUnlocksChild, ReleaseInner
    <3>3. \A r \in Results : ~BeginInner(r)
      BY <1>1, <3>1 DEF InnerOnce, BeginInner
    <3> QED
      BY <1>1, <3>2, <3>3, InnerUntouched
  <2> QED
    BY <2>1, <2>2 DEF ChildResult
<1>2. IInv /\ InnerOnce /\ [Next]_vars =>
        /\ cready => cready' /\ ChildResult' = ChildResult
        /\ cref = {} => cref' = {} /\ cready' = cready
  BY <1>1, FateStep
<1> QED
  BY <1>2, ContinuationInvariant, InnerResolvedOnce, PTL DEF Spec, ChildFateStays

-----------------------------------------------------------------------------
\* either.

\* Nothing is constructed.
LEMMA NoEithers == E!Init => E!IInv
  BY DEF E!Init, E!IInv, E!TypeOK, E!StateIsTrue, E!OneOwner, E!States, E!EmptyState

\* Construction of an empty either.
LEMMA ConstructEitherStep ==
  ASSUME E!IInv, NEW e \in Eithers, E!Construct(e)
  PROVE  E!IInv'
<1> USE DEF E!IInv, E!TypeOK, E!StateIsTrue, E!States, E!EmptyState, E!Alternatives
<1>1. E!TypeOK' /\ E!StateIsTrue'
  BY DEF E!Construct, E!OneOwner
<1>2. E!OneOwner'
  BY DEF E!Construct, E!OneOwner
<1> QED
  BY <1>1, <1>2

\* A new value: nobody holds it yet, and the old one dies.
LEMMA EmplaceEitherStep ==
  ASSUME E!IInv, NEW e \in Eithers, NEW i \in E!Alternatives, NEW v \in Values,
         E!ConstructWith(e, i, v) \/ E!Emplace(e, i, v)
  PROVE  E!IInv'
<1> USE DEF E!IInv, E!TypeOK, E!StateIsTrue, E!States, E!EmptyState, E!Alternatives
<1>1. E!TypeOK' /\ E!StateIsTrue'
  BY DEF E!ConstructWith, E!Emplace, E!Emplaced, E!Cleans, E!Dying, E!OneOwner
<1>2. E!OneOwner'
  BY DEF E!ConstructWith, E!Emplace, E!Emplaced, E!Cleans, E!Dying, E!OneOwner
<1> QED
  BY <1>1, <1>2

\* clean(), and whatever comes down to it.
LEMMA CleanEitherStep ==
  ASSUME E!IInv, NEW e \in Eithers, E!Clean(e) \/ E!Destroy(e)
  PROVE  E!IInv'
<1> USE DEF E!IInv, E!TypeOK, E!StateIsTrue, E!States, E!EmptyState, E!Alternatives
<1>1. E!TypeOK' /\ E!StateIsTrue'
  BY DEF E!Clean, E!Destroy, E!Cleans, E!CleanStorage, E!Dying, E!OneOwner
<1>2. E!OneOwner'
  BY DEF E!Clean, E!Destroy, E!Cleans, E!CleanStorage, E!Dying, E!OneOwner
<1> QED
  BY <1>1, <1>2

\* A move into a new either.
LEMMA MoveConstructEitherStep ==
  ASSUME E!IInv, NEW e \in Eithers, NEW src \in Eithers, E!MoveConstruct(e, src)
  PROVE  E!IInv'
<1> USE DEF E!IInv, E!TypeOK, E!StateIsTrue, E!States, E!EmptyState, E!Alternatives
<1>1. E!TypeOK' /\ E!StateIsTrue'
  BY DEF E!MoveConstruct, E!MoveFrom, E!Cleans, E!CleanStorage, E!Dying, E!OneOwner
<1>2. E!OneOwner'
  BY DEF E!MoveConstruct, E!MoveFrom, E!Cleans, E!CleanStorage, E!Dying, E!OneOwner
<1> QED
  BY <1>1, <1>2

\* A move over another either: the value it held dies with its only owner.
LEMMA MoveAssignEitherStep ==
  ASSUME E!IInv, NEW e \in Eithers, NEW src \in Eithers, E!MoveAssign(e, src)
  PROVE  E!IInv'
<1> USE DEF E!IInv, E!TypeOK, E!StateIsTrue, E!States, E!EmptyState, E!Alternatives
<1>1. E!TypeOK' /\ E!StateIsTrue'
  BY DEF E!MoveAssign, E!MoveFrom, E!Cleans, E!CleanStorage, E!Dying, E!OneOwner
<1>2. E!OneOwner'
  BY DEF E!MoveAssign, E!MoveFrom, E!Cleans, E!CleanStorage, E!Dying, E!OneOwner
<1> QED
  BY <1>1, <1>2

\* Eithers in any number, filled, moved, cleaned and destroyed in any order,
\* with constructors that throw: state_ always tells the truth about the
\* storage, and no value is lost, duplicated or destroyed twice.
THEOREM EithersAreSound == E!Spec => []E!IInv
<1>1. E!Init => E!IInv
  BY NoEithers
<1>2. E!IInv /\ [E!Next]_E!vars => E!IInv'
  <2> SUFFICES ASSUME E!IInv, [E!Next]_E!vars
               PROVE  E!IInv'
    OBVIOUS
  <2>1. CASE UNCHANGED E!vars
    BY <2>1 DEF E!IInv, E!vars, E!TypeOK, E!StateIsTrue, E!OneOwner
  <2>2. CASE E!Next
    BY <2>2, ConstructEitherStep, EmplaceEitherStep, CleanEitherStep, MoveConstructEitherStep,
       MoveAssignEitherStep
       DEF E!Next, E!EmplaceThrows, E!SelfAssign
  <2> QED
    BY <2>1, <2>2
<1> QED
  BY <1>1, <1>2, PTL DEF E!Spec

-----------------------------------------------------------------------------
\* unique_function and small_unique_function.

\* Nothing is constructed.
LEMMA NoFunctions == F!Init => F!IInv
  BY DEF F!Init, F!IInv, F!TypeOK, F!VtblIsTrue, F!OneOwner, F!NotHollow, F!CallsAreDefined, F!Stored

\* Construction of an empty function.
LEMMA EmptyFunctionStep ==
  ASSUME F!IInv, NEW o \in Functions, F!ConstructEmpty(o)
  PROVE  F!IInv'
<1> USE DEF F!IInv, F!ConstructEmpty, F!TypeOK, F!VtblIsTrue
<1>1. F!TypeOK' /\ F!VtblIsTrue'
  OBVIOUS
<1>2. F!OneOwner'
  BY DEF F!OneOwner
<1>3. F!NotHollow' /\ F!CallsAreDefined'
  BY DEF F!NotHollow, F!CallsAreDefined
<1> QED
  BY <1>1, <1>2, <1>3

\* Construction from a callable: it did not exist, so that nobody holds it.
LEMMA ConstructFunctionStep ==
  ASSUME F!IInv, NEW o \in Functions, NEW f \in Callables,
         F!ConstructSmall(o, f) \/ F!ConstructBig(o, f)
  PROVE  F!IInv'
<1> USE DEF F!IInv, F!ConstructSmall, F!ConstructBig, F!TypeOK, F!VtblIsTrue, F!Stored
<1>1. F!TypeOK' /\ F!VtblIsTrue'
  OBVIOUS
<1>2. F!OneOwner'
  BY DEF F!OneOwner
<1>3. F!NotHollow' /\ F!CallsAreDefined'
  BY DEF F!NotHollow, F!CallsAreDefined
<1> QED
  BY <1>1, <1>2, <1>3

\* A move into a new object.
LEMMA MoveConstructFunctionStep ==
  ASSUME F!IInv, NEW o \in Functions, NEW rhs \in Functions, F!MoveConstruct(o, rhs)
  PROVE  F!IInv'
<1> USE DEF F!IInv, F!MoveConstruct, F!MoveFrom, F!Destroyed, F!Dying, F!TypeOK, F!VtblIsTrue
<1>1. F!TypeOK' /\ F!VtblIsTrue'
  BY DEF F!Stored
<1>2. F!OneOwner'
  BY DEF F!OneOwner
<1>3. F!NotHollow' /\ F!CallsAreDefined'
  BY DEF F!NotHollow, F!CallsAreDefined, F!OneOwner
<1> QED
  BY <1>1, <1>2, <1>3

\* A move over an object: the callable it held dies with its only owner.
LEMMA MoveAssignFunctionStep ==
  ASSUME F!IInv, NEW o \in Functions, NEW rhs \in Functions, F!MoveAssign(o, rhs)
  PROVE  F!IInv'
<1> USE DEF F!IInv, F!MoveAssign, F!MoveFrom, F!Destroyed, F!Dying, F!TypeOK, F!VtblIsTrue
<1>1. F!TypeOK' /\ F!VtblIsTrue'
  BY DEF F!Stored
<1>2. F!OneOwner'
  BY DEF F!OneOwner
<1>3. F!NotHollow' /\ F!CallsAreDefined'
  BY DEF F!NotHollow, F!CallsAreDefined, F!OneOwner
<1> QED
  BY <1>1, <1>2, <1>3

\* Destruction, of moved-from objects too.
LEMMA DestroyFunctionStep ==
  ASSUME F!IInv, NEW o \in Functions, F!Destroy(o)
  PROVE  F!IInv'
<1> USE DEF F!IInv, F!Destroy, F!Destroyed, F!Dying, F!TypeOK, F!VtblIsTrue
<1>1. F!TypeOK' /\ F!VtblIsTrue'
  BY DEF F!Stored
<1>2. F!OneOwner'
  BY DEF F!OneOwner
<1>3. F!NotHollow' /\ F!CallsAreDefined'
  BY DEF F!NotHollow, F!CallsAreDefined
<1> QED
  BY <1>1, <1>2, <1>3

\* A call changes nothing but its outcome.
LEMMA CallFunctionStep ==
  ASSUME F!IInv, NEW o \in Functions, F!Call(o)
  PROVE  F!IInv'
<1> USE DEF F!IInv, F!Call
<1>1. called' \in {"bad_function_call", "called"}
  BY DEF F!TypeOK, F!VtblIsTrue, F!NotHollow, F!OneOwner
<1>2. F!TypeOK' /\ F!CallsAreDefined'
  BY <1>1 DEF F!TypeOK, F!CallsAreDefined
<1>3. F!VtblIsTrue' /\ F!OneOwner' /\ F!NotHollow'
  BY DEF F!VtblIsTrue, F!OneOwner, F!NotHollow
<1> QED
  BY <1>2, <1>3

\* unique_function and small_unique_function, in any number, moved and
\* destroyed in any order: vtbl_ always tells the truth about the buffer, no
\* callable is lost, duplicated or destroyed twice, and calls are defined.
THEOREM FunctionsAreSound == F!Spec => []F!IInv
<1>1. F!Init => F!IInv
  BY NoFunctions
<1>2. F!IInv /\ [F!Next]_F!vars => F!IInv'
  <2> SUFFICES ASSUME F!IInv, [F!Next]_F!vars
               PROVE  F!IInv'
    OBVIOUS
  <2>1. CASE UNCHANGED F!vars
    BY <2>1 DEF F!IInv, F!vars, F!TypeOK, F!VtblIsTrue, F!OneOwner, F!NotHollow, F!CallsAreDefined
  <2>2. CASE F!Next
    BY <2>2, EmptyFunctionStep, ConstructFunctionStep, MoveConstructFunctionStep,
       MoveAssignFunctionStep, DestroyFunctionStep, CallFunctionStep
       DEF F!Next
  <2> QED
    BY <2>1, <2>2
<1> QED
  BY <1>1, <1>2, PTL DEF F!Spec
=============================================================================
