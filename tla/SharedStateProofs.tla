-------------------------- MODULE SharedStateProofs --------------------------
(***************************************************************************)
(* Proofs about SharedState for any set of clients, finite or not.         *)
(*                                                                         *)
(* The argument is an inventory of ownership: Ownership says, for every    *)
(* shared_ptr there may be, when exactly it exists.  It makes the death of *)
(* the state, refs = {}, a fact about both threads and all the clients at  *)
(* once.  Phases ties the storage and the continuation stack to the steps  *)
(* the threads are at, and lets only one of them consume the stack;        *)
(* Accounts ties each client's continuations to what has been called, or   *)
(* lost, so far.                                                           *)
(***************************************************************************)
EXTENDS SharedState, TLAPS

\* Who has a shared_ptr: a promise before get_future, an operation while it
\* runs, a client with a future, and a detach that has not been freed.
Ownership ==
  /\ Promise \in refs <=> promise = "strong"
  /\ \A t \in Threads : Operation(t) \in refs <=> pc[t] \notin {"idle", "lock"}
  /\ \A c \in Clients :
       /\ Future(c) \in refs <=> cpc[c] \notin {"none", "gone"}
       /\ Hold(c) \in refs <=> <<"hold", c>> \in stack \cup list

Ready == Result \notin {"empty", "pending"}

\* The storage is filled before the stack is consumed, once.
StorageFilled ==
  /\ storage = "empty" => pc["producer"] # "push"
  /\ storage \notin {"empty", "inner"} => consumed \/ pc["producer"] = "execute"
  /\ consumed => Ready
  /\ pc["producer"] = "set" => arg \in Results \cup {"inner", "broken"}
  /\ pc["producer"] = "abandon" => arg = "broken"

\* The thread of the inner future comes in when the producer has attached
\* unwrap's continuation and left; one of the two executes.
OneExecutes ==
  /\ pc["producer"] # "lock"
  /\ pc["inner"] \notin {"set", "abandon", "push"}
  /\ pc["producer"] = "push" => storage = "inner" /\ ~consumed /\ pc["inner"] = "idle"
  /\ pc["inner"] # "idle" =>
       storage = "inner" /\ Ready /\ pc["producer"] \notin {"push", "execute", "run"}
  /\ pc["inner"] = "lock" => ~consumed
  /\ \A t \in Threads : pc[t] = "execute" => ~consumed /\ Ready
  /\ \A t \in Threads : pc[t] = "run" => consumed

\* The consumed list lives during execute only, and a loop that was left by an
\* exception has nothing more to call.
ListInUse ==
  /\ consumed \/ refs = {} => stack = {}
  /\ (\A t \in Threads : pc[t] # "run") => list = {}
  /\ running \subseteq list
  /\ lost # {} => consumed /\ running = {}

Phases == StorageFilled /\ OneExecutes /\ ListInUse

\* Every continuation that was asked for is on the stack, still to be called,
\* was called, or was lost; those of a state that died are gone.
Account(c) ==
  /\ \A k \in Kinds : <<k, c>> \in stack \cup list \cup lost => k \in asked[c]
  /\ ~consumed =>
       /\ notified[c] = 0
       /\ ~ready[c]
       /\ "notify" \in asked[c] /\ refs # {} => <<"notify", c>> \in stack
       /\ "hold" \in asked[c] => <<"hold", c>> \in stack
  /\ consumed =>
       notified[c] = IF "notify" \in asked[c] /\ <<"notify", c>> \notin running \cup lost
                       THEN 1 ELSE 0

Accounts == \A c \in Clients : Account(c)

\* Something is lost only behind a notification that was called.
Losses == lost # {} => \E c \in Clients : notified[c] = 1

\* Clients read a state only when it is ready.
Answers ==
  \A c \in Clients :
    /\ cpc[c] = "reading" => consumed
    /\ got[c] # "none" => consumed /\ got[c] = Result

\* What is true of a dead state, and will stay so.
Endings ==
  /\ cancels = IF refs = {} /\ ~consumed THEN 1 ELSE 0
  /\ unawaited => refs = {}

\* The inductive invariant.
IInv == TypeOK /\ Ownership /\ Phases /\ Accounts /\ Losses /\ Answers /\ Endings

-----------------------------------------------------------------------------

\* The owners are different from each other.
LEMMA OwnersDiffer ==
  /\ Promise \in Owners
  /\ \A t \in Threads : Operation(t) \in Owners /\ Operation(t) # Promise
  /\ Operation("producer") # Operation("inner")
  /\ \A c \in Clients : /\ Future(c) \in Owners /\ Future(c) # Promise
                        /\ Hold(c) \in Owners /\ Hold(c) # Promise
  /\ \A c \in Clients, t \in Threads : Future(c) # Operation(t) /\ Hold(c) # Operation(t)
  /\ \A c, d \in Clients : /\ Future(c) # Hold(d)
                           /\ Future(c) = Future(d) => c = d
                           /\ Hold(c) = Hold(d) => c = d
BY DEF Owners, Promise, Operation, Future, Hold, Threads

\* What may be given up here: everything but the captures of detach.
Releasable ==
  {Promise} \cup {Operation(t) : t \in Threads} \cup {Future(c) : c \in Clients}

\* Giving up references may end the state, and drop its continuations, but
\* not while a detach is pending; a state that ends unready is cancelled.
LEMMA ReleaseKeepsHolds ==
  ASSUME IInv, NEW R \in SUBSET Releasable, NEW A, ReplaceRefs(R, A), refs # {}
  PROVE  /\ stack' = stack \/ (stack' = {} /\ refs' = {})
         /\ \A c \in Clients : <<"hold", c>> \in stack => stack' = stack
         /\ cancels' = IF refs' = {} /\ ~consumed THEN 1 ELSE 0
<1> USE OwnersDiffer DEF IInv, Releasable, ReplaceRefs
<1>1. ASSUME NEW c \in Clients, <<"hold", c>> \in stack PROVE refs' # {}
  <2>1. Hold(c) \in refs
    BY <1>1 DEF Ownership
  <2>2. Hold(c) \notin R
    OBVIOUS
  <2> QED
    BY <2>1, <2>2
<1> QED
  BY <1>1 DEF Endings

\* A continuation that is attached, or called at once, changes no types.
LEMMA AttachTypes ==
  ASSUME TypeOK, NEW kind \in Kinds, NEW c \in Clients, Attach(kind, c)
  PROVE  /\ refs' \in SUBSET Owners
         /\ stack' \in SUBSET (Kinds \X Clients)
         /\ ready' \in [Clients -> BOOLEAN]
         /\ notified' \in [Clients -> Nat]
         /\ asked' \in [Clients -> SUBSET Kinds]
         /\ UNCHANGED <<cancels, content, calls>>
<1> USE DEF TypeOK, Attach
<1>1. asked' \in [Clients -> SUBSET Kinds]
  OBVIOUS
<1>2. refs' \in SUBSET Owners /\ stack' \in SUBSET (Kinds \X Clients)
  BY OwnersDiffer
<1>3. ready' \in [Clients -> BOOLEAN]
  BY DEF CallEffect
<1>4. notified' \in [Clients -> Nat]
  BY DEF CallEffect
<1> QED
  BY <1>1, <1>2, <1>3, <1>4

\* A continuation that is pushed is accounted for on the stack.
LEMMA PushAccount ==
  ASSUME TypeOK, ~consumed, refs # {}, NEW kind \in Kinds, NEW c \in Clients,
         NEW e \in Clients, Account(e), Attach(kind, c)
  PROVE  Account(e)'
<1>1. /\ stack' = stack \cup {<<kind, c>>}
      /\ UNCHANGED <<consumed, list, running, lost, ready, notified>>
  BY DEF Attach, calls
<1>2. asked' = [asked EXCEPT ![c] = asked[c] \cup {kind}] /\ asked \in [Clients -> SUBSET Kinds]
  BY DEF Attach, TypeOK
<1>3. \A k \in Kinds : k \in asked'[e] <=> k \in asked[e] \/ <<k, e>> = <<kind, c>>
  BY <1>2
<1> QED
  BY <1>1, <1>3 DEF Account, Kinds

\* Whoever is inside an operation has a reference, so that the state lives.
LEMMA OperationsAlive ==
  ASSUME IInv
  PROVE  /\ \A t \in Threads : pc[t] \notin {"idle", "lock"} => refs # {}
         /\ promise = "strong" => refs # {}
         /\ \A c \in Clients : cpc[c] \notin {"none", "gone"} => refs # {}
BY DEF IInv, Ownership

-----------------------------------------------------------------------------

\* The initial state satisfies the inductive invariant.
LEMMA InitInv == Init => IInv
<1> SUFFICES ASSUME Init PROVE IInv
  OBVIOUS
<1> USE FirstAssumption, SourcesAssumption, OwnersDiffer
    DEF Init, NewPromise, MakePromise, PackagedTask, Async, OwnsState, SharesState
<1>1. TypeOK
  BY DEF TypeOK, Results, Kinds
<1>2. Ownership
  BY DEF Ownership
<1>3. Phases
  BY DEF Phases, StorageFilled, OneExecutes, ListInUse, Ready, Threads
<1>4. Accounts /\ Losses
  BY DEF Accounts, Account, Losses
<1>5. Answers /\ Endings
  BY DEF Answers, Endings
<1> QED
  BY <1>1, <1>2, <1>3, <1>4, <1>5 DEF IInv

\* Every step keeps the types: what the producer stores is a result, the broken
\* promise or an inner state, and never the marker of an empty storage.
LEMMA TypeStep == IInv /\ [Next]_vars => TypeOK'
<1> SUFFICES ASSUME IInv, [Next]_vars PROVE TypeOK'
  OBVIOUS
<1> USE OwnersDiffer, FirstAssumption
        DEF IInv, TypeOK, pvars, svars, cvars, content, calls, Goto, Threads
<1>1. CASE GetFuture
  BY <1>1 DEF GetFuture, ReplaceRefs
<1>2. ASSUME NEW r \in Results \cup {"inner", "broken"}, LockState(r) PROVE TypeOK'
  BY <1>2 DEF LockState, Threads
<1>3. CASE BeginAbandon
  BY <1>3 DEF BeginAbandon, ReplaceRefs, Release
<1>4. CASE Refused
  BY <1>4 DEF Refused, ReplaceRefs, Release
<1>5. CASE Store
  BY <1>5 DEF Store, Phases, StorageFilled, Threads
<1>6. CASE StoreThrows
  BY <1>6 DEF StoreThrows, ReplaceRefs, Release
<1>7. CASE Push
  BY <1>7 DEF Push
<1>8. ASSUME NEW t \in Threads, ExecuteStep(t) PROVE TypeOK'
  <2>1. CASE Execute(t)
    BY <2>1 DEF Execute
  <2>2. CASE CallContinuation(t)
    BY <2>2 DEF CallContinuation, CallEffect
  <2>3. CASE ContinuationThrows(t)
    BY <2>3 DEF ContinuationThrows, CallEffect
  <2>4. CASE FreeList(t)
    BY <2>4 DEF FreeList
  <2>5. CASE EndOperation(t)
    BY <2>5 DEF EndOperation, ReplaceRefs, Release
  <2> QED
    BY <1>8, <2>1, <2>2, <2>3, <2>4, <2>5 DEF ExecuteStep
<1>9. CASE IsAwaiten
  BY <1>9 DEF IsAwaiten
<1>10. ASSUME NEW r \in Results \cup {"broken"}, ResolveInner(r) PROVE TypeOK'
  BY <1>10 DEF ResolveInner
<1>11. CASE LockOuter
  BY <1>11 DEF LockOuter
<1>12. ASSUME NEW c \in Clients, ClientStep(c) PROVE TypeOK'
  <2>1. CASE Notify(c)
    <3>1. Attach("notify", c) /\ UNCHANGED <<pvars, cpc, shared, got>>
      BY <2>1 DEF Notify
    <3> QED
      BY <3>1, AttachTypes DEF Kinds
  <2>2. CASE Detach(c)
    <3>1. Attach("hold", c) /\ UNCHANGED <<pvars, cpc, shared, got>>
      BY <2>2 DEF Detach
    <3> QED
      BY <3>1, AttachTypes DEF Kinds
  <2>3. CASE Share(c)
    BY <2>3 DEF Share
  <2>4. ASSUME NEW d \in Clients, Copy(c, d) PROVE TypeOK'
    BY <2>4 DEF Copy
  <2>5. CASE IsReady(c)
    BY <2>5 DEF IsReady
  <2>6. CASE AwaitSuspend(c)
    <3>1. Attach("wake", c) /\ UNCHANGED <<pvars, shared, got>>
      BY <2>6 DEF AwaitSuspend
    <3>2. cpc' \in [Clients -> {"none", "idle", "suspending", "waiting", "reading", "gone"}]
      BY <2>6 DEF AwaitSuspend
    <3> QED
      BY <3>1, <3>2, AttachTypes DEF Kinds
  <2>7. CASE BeginGet(c)
    <3>1. Attach("wake", c) /\ UNCHANGED <<pvars, shared, got>>
      BY <2>7 DEF BeginGet
    <3>2. cpc' \in [Clients -> {"none", "idle", "suspending", "waiting", "reading", "gone"}]
      BY <2>7 DEF BeginGet
    <3> QED
      BY <3>1, <3>2, AttachTypes DEF Kinds
  <2>8. CASE WakeUp(c)
    BY <2>8 DEF WakeUp
  <2>9. CASE ReadFuture(c)
    BY <2>9 DEF ReadFuture, ReplaceRefs, Release, Result
  <2>10. CASE ReadShared(c)
    BY <2>10 DEF ReadShared, Result
  <2>11. CASE Drop(c)
    BY <2>11 DEF Drop, ReplaceRefs, Release
  <2> QED
    BY <1>12, <2>1, <2>2, <2>3, <2>4, <2>5, <2>6, <2>7, <2>8, <2>9, <2>10, <2>11
       DEF ClientStep
<1>13. CASE UNCHANGED vars
  BY <1>13 DEF vars
<1> QED
  BY <1>1, <1>2, <1>3, <1>4, <1>5, <1>6, <1>7, <1>8, <1>9, <1>10, <1>11, <1>12, <1>13
     DEF Next, PromiseStep, ProducerStep, InnerStep, BeginSet, BeginRun, Terminated, Threads

\* Every step that begins or ends an operation, a future or a detach takes or
\* gives up its reference.
LEMMA OwnershipStep == IInv /\ [Next]_vars => Ownership'
<1> SUFFICES ASSUME IInv, [Next]_vars PROVE Ownership'
  OBVIOUS
<1> USE OwnersDiffer, FirstAssumption
        DEF IInv, TypeOK, pvars, svars, cvars, content, calls, Goto,
           Ownership, Phases, StorageFilled, OneExecutes, ListInUse, Ready, Result, Threads
<1>1. CASE GetFuture
  BY <1>1 DEF GetFuture, ReplaceRefs
<1>2. ASSUME NEW r \in Results \cup {"inner", "broken"}, LockState(r) PROVE Ownership'
  BY <1>2 DEF LockState
<1>3. CASE BeginAbandon
  BY <1>3 DEF BeginAbandon, ReplaceRefs, Release
<1>4. CASE Refused
  BY <1>4 DEF Refused, ReplaceRefs, Release
<1>5. CASE Store
  BY <1>5 DEF Store
<1>6. CASE StoreThrows
  BY <1>6 DEF StoreThrows, ReplaceRefs, Release
<1>7. CASE Push
  BY <1>7 DEF Push
<1>8. ASSUME NEW t \in Threads, ExecuteStep(t) PROVE Ownership'
  <2>1. CASE Execute(t)
    BY <2>1 DEF Execute
  <2>2. CASE CallContinuation(t)
    BY <2>2 DEF CallContinuation, CallEffect
  <2>3. CASE ContinuationThrows(t)
    BY <2>3 DEF ContinuationThrows, CallEffect
  <2>4. CASE FreeList(t)
    BY <2>4 DEF FreeList
  <2>5. CASE EndOperation(t)
    BY <2>5 DEF EndOperation, ReplaceRefs, Release
  <2> QED
    BY <1>8, <2>1, <2>2, <2>3, <2>4, <2>5 DEF ExecuteStep
<1>9. CASE IsAwaiten
  BY <1>9 DEF IsAwaiten
<1>10. ASSUME NEW r \in Results \cup {"broken"}, ResolveInner(r) PROVE Ownership'
  BY <1>10 DEF ResolveInner
<1>11. CASE LockOuter
  BY <1>11 DEF LockOuter
<1>12. ASSUME NEW c \in Clients, ClientStep(c) PROVE Ownership'
  <2>1. CASE Notify(c)
    BY <2>1 DEF Notify, Attach, CallEffect
  <2>2. CASE Detach(c)
    BY <2>2 DEF Detach, Attach, CallEffect
  <2>3. CASE Share(c)
    BY <2>3 DEF Share
  <2>4. ASSUME NEW d \in Clients, Copy(c, d) PROVE Ownership'
    BY <2>4 DEF Copy
  <2>5. CASE IsReady(c)
    BY <2>5 DEF IsReady
  <2>6. CASE AwaitSuspend(c)
    BY <2>6 DEF AwaitSuspend, Attach, CallEffect
  <2>7. CASE BeginGet(c)
    BY <2>7 DEF BeginGet, Attach, CallEffect
  <2>8. CASE WakeUp(c)
    BY <2>8 DEF WakeUp
  <2>9. CASE ReadFuture(c)
    BY <2>9 DEF ReadFuture, ReplaceRefs, Release
  <2>10. CASE ReadShared(c)
    BY <2>10 DEF ReadShared
  <2>11. CASE Drop(c)
    BY <2>11 DEF Drop, ReplaceRefs, Release
  <2> QED
    BY <1>12, <2>1, <2>2, <2>3, <2>4, <2>5, <2>6, <2>7, <2>8, <2>9, <2>10, <2>11
       DEF ClientStep
<1>13. CASE UNCHANGED vars
  BY <1>13 DEF vars
<1> QED
  BY <1>1, <1>2, <1>3, <1>4, <1>5, <1>6, <1>7, <1>8, <1>9, <1>10, <1>11, <1>12, <1>13
     DEF Next, PromiseStep, ProducerStep, InnerStep, BeginSet, BeginRun, Terminated, Threads

\* The threads' steps come in their order, and clients attach nothing to a
\* state that is ready or dead.
LEMMA PhasesStep == IInv /\ [Next]_vars => Phases'
<1> SUFFICES ASSUME IInv, [Next]_vars PROVE Phases'
  OBVIOUS
<1> USE OwnersDiffer, FirstAssumption
        DEF IInv, TypeOK, pvars, svars, cvars, content, calls, Goto,
           Ownership, Phases, StorageFilled, OneExecutes, ListInUse, Ready, Result, Threads
<1>1. CASE GetFuture
  BY <1>1 DEF GetFuture, ReplaceRefs
<1>2. ASSUME NEW r \in Results \cup {"inner", "broken"}, LockState(r) PROVE Phases'
  BY <1>2 DEF LockState
<1>3. CASE BeginAbandon
  BY <1>3 DEF BeginAbandon, ReplaceRefs, Release
<1>4. CASE Refused
  BY <1>4 DEF Refused, ReplaceRefs, Release
<1>5. CASE Store
  BY <1>5 DEF Store, Results
<1>6. CASE StoreThrows
  BY <1>6 DEF StoreThrows, ReplaceRefs, Release
<1>7. CASE Push
  <2>0. pc'["producer"] = (IF inner = "pending" THEN "release" ELSE "execute")
        /\ pc'["inner"] = "idle"
    BY <1>7 DEF Push
  <2>1. StorageFilled'
    BY <1>7 DEF Push
  <2>2. OneExecutes'
    BY <1>7, <2>0 DEF Push, Results
  <2>3. ListInUse'
    BY <1>7, <2>0 DEF Push
  <2> QED
    BY <2>1, <2>2, <2>3
<1>8. ASSUME NEW t \in Threads, ExecuteStep(t) PROVE Phases'
  <2>1. CASE Execute(t)
    BY <2>1 DEF Execute
  <2>2. CASE CallContinuation(t)
    BY <2>2 DEF CallContinuation, CallEffect
  <2>3. CASE ContinuationThrows(t)
    BY <2>3 DEF ContinuationThrows, CallEffect
  <2>4. CASE FreeList(t)
    BY <2>4 DEF FreeList
  <2>5. CASE EndOperation(t)
    BY <2>5 DEF EndOperation, ReplaceRefs, Release
  <2> QED
    BY <1>8, <2>1, <2>2, <2>3, <2>4, <2>5 DEF ExecuteStep
<1>9. CASE IsAwaiten
  BY <1>9 DEF IsAwaiten
<1>10. ASSUME NEW r \in Results \cup {"broken"}, ResolveInner(r) PROVE Phases'
  <2>0. pc'["producer"] = pc["producer"] /\ ~consumed
        /\ pc'["inner"] = (IF pc["producer"] = "push" THEN "idle" ELSE "lock")
    BY <1>10 DEF ResolveInner
  <2>1. StorageFilled'
    BY <1>10 DEF ResolveInner
  <2>2. OneExecutes'
    BY <1>10, <2>0 DEF ResolveInner, Results
  <2>3. ListInUse'
    BY <1>10, <2>0 DEF ResolveInner
  <2> QED
    BY <2>1, <2>2, <2>3
<1>11. CASE LockOuter
  <2>1. StorageFilled'
    BY <1>11 DEF LockOuter
  <2>2. OneExecutes'
    BY <1>11 DEF LockOuter
  <2>3. ListInUse'
    BY <1>11 DEF LockOuter
  <2> QED
    BY <2>1, <2>2, <2>3
<1>12. ASSUME NEW c \in Clients, ClientStep(c) PROVE Phases'
  <2>1. CASE Notify(c)
    BY <2>1 DEF Notify, Attach, CallEffect
  <2>2. CASE Detach(c)
    BY <2>2 DEF Detach, Attach, CallEffect
  <2>3. CASE Share(c)
    BY <2>3 DEF Share
  <2>4. ASSUME NEW d \in Clients, Copy(c, d) PROVE Phases'
    BY <2>4 DEF Copy
  <2>5. CASE IsReady(c)
    BY <2>5 DEF IsReady
  <2>6. CASE AwaitSuspend(c)
    BY <2>6 DEF AwaitSuspend, Attach, CallEffect
  <2>7. CASE BeginGet(c)
    BY <2>7 DEF BeginGet, Attach, CallEffect
  <2>8. CASE WakeUp(c)
    BY <2>8 DEF WakeUp
  <2>9. CASE ReadFuture(c)
    BY <2>9 DEF ReadFuture, ReplaceRefs, Release
  <2>10. CASE ReadShared(c)
    BY <2>10 DEF ReadShared
  <2>11. CASE Drop(c)
    BY <2>11 DEF Drop, ReplaceRefs, Release
  <2> QED
    BY <1>12, <2>1, <2>2, <2>3, <2>4, <2>5, <2>6, <2>7, <2>8, <2>9, <2>10, <2>11
       DEF ClientStep
<1>13. CASE UNCHANGED vars
  BY <1>13 DEF vars
<1> QED
  BY <1>1, <1>2, <1>3, <1>4, <1>5, <1>6, <1>7, <1>8, <1>9, <1>10, <1>11, <1>12, <1>13
     DEF Next, PromiseStep, ProducerStep, InnerStep, BeginSet, BeginRun, Terminated, Threads

\* No continuation gets lost between attaching, consuming and calling it,
\* whoever does the last two, but those behind one that throws; and the state
\* does not die under a detach.
LEMMA AccountsStep == IInv /\ [Next]_vars => Accounts'
<1> SUFFICES ASSUME IInv, [Next]_vars, NEW e \in Clients PROVE Account(e)'
  BY DEF Accounts
<1> USE OwnersDiffer DEF IInv, TypeOK, pvars, svars, cvars, content, calls, Goto,
           Ownership, Phases, StorageFilled, OneExecutes, ListInUse, Ready, Result, Threads
<1>0. Account(e)
  BY DEF Accounts
<1>1. CASE GetFuture
  BY <1>0, <1>1, ReleaseKeepsHolds, OperationsAlive DEF Account, Releasable, GetFuture
<1>2. ASSUME NEW r \in Results \cup {"inner", "broken"}, LockState(r) PROVE Account(e)'
  BY <1>0, <1>2 DEF Account, LockState
<1>3. CASE BeginAbandon
  BY <1>0, <1>3, ReleaseKeepsHolds, OperationsAlive
     DEF Account, BeginAbandon, ReplaceRefs, Release
<1>4. CASE Refused
  BY <1>0, <1>4, ReleaseKeepsHolds, OperationsAlive DEF Account, Refused, ReplaceRefs, Release
<1>5. CASE Store
  BY <1>0, <1>5 DEF Account, Store
<1>6. CASE StoreThrows
  BY <1>0, <1>6, ReleaseKeepsHolds, OperationsAlive
     DEF Account, StoreThrows, ReplaceRefs, Release
<1>7. CASE Push
  BY <1>0, <1>7 DEF Account, Push
<1>8. ASSUME NEW t \in Threads, ExecuteStep(t) PROVE Account(e)'
  <2>1. CASE Execute(t)
    BY <1>0, <2>1 DEF Account, Execute
  <2>2. CASE CallContinuation(t)
    BY <1>0, <2>2 DEF Account, CallContinuation, CallEffect
  <2>3. CASE ContinuationThrows(t)
    BY <1>0, <2>3 DEF Account, ContinuationThrows, CallEffect
  <2>4. CASE FreeList(t)
    BY <1>0, <2>4 DEF Account, FreeList
  <2>5. CASE EndOperation(t)
    BY <1>0, <2>5, ReleaseKeepsHolds, OperationsAlive
       DEF Account, EndOperation, ReplaceRefs, Release
  <2> QED
    BY <1>8, <2>1, <2>2, <2>3, <2>4, <2>5 DEF ExecuteStep
<1>9. CASE IsAwaiten
  BY <1>0, <1>9 DEF Account, IsAwaiten
<1>10. ASSUME NEW r \in Results \cup {"broken"}, ResolveInner(r) PROVE Account(e)'
  BY <1>0, <1>10 DEF Account, ResolveInner
<1>11. CASE LockOuter
  BY <1>0, <1>11 DEF Account, LockOuter
<1>12. ASSUME NEW c \in Clients, ClientStep(c) PROVE Account(e)'
  <2>1. CASE Notify(c)
    BY <1>0, <2>1 DEF Account, Notify, Attach, CallEffect
  <2>2. CASE Detach(c)
    <3>1. CASE consumed
      BY <1>0, <2>2, <3>1 DEF Account, Detach, Attach, CallEffect
    <3>2. CASE ~consumed
      BY <1>0, <2>2, <3>2, PushAccount, OperationsAlive DEF Detach, Kinds
    <3> QED
      BY <3>1, <3>2
  <2>3. CASE Share(c)
    BY <1>0, <2>3 DEF Account, Share
  <2>4. ASSUME NEW d \in Clients, Copy(c, d) PROVE Account(e)'
    <3>1. refs # {}
      BY <2>4, OperationsAlive DEF Copy
    <3> QED
      BY <1>0, <2>4, <3>1 DEF Account, Copy
  <2>5. CASE IsReady(c)
    BY <1>0, <2>5 DEF Account, IsReady
  <2>6. CASE AwaitSuspend(c)
    BY <1>0, <2>6 DEF Account, AwaitSuspend, Attach, CallEffect
  <2>7. CASE BeginGet(c)
    BY <1>0, <2>7 DEF Account, BeginGet, Attach, CallEffect
  <2>8. CASE WakeUp(c)
    BY <1>0, <2>8 DEF Account, WakeUp
  <2>9. CASE ReadFuture(c)
    BY <1>0, <2>9, ReleaseKeepsHolds, OperationsAlive
       DEF Account, ReadFuture, ReplaceRefs, Release
  <2>10. CASE ReadShared(c)
    BY <1>0, <2>10 DEF Account, ReadShared
  <2>11. CASE Drop(c)
    BY <1>0, <2>11, ReleaseKeepsHolds, OperationsAlive DEF Account, Drop, ReplaceRefs, Release
  <2> QED
    BY <1>12, <2>1, <2>2, <2>3, <2>4, <2>5, <2>6, <2>7, <2>8, <2>9, <2>10, <2>11
       DEF ClientStep
<1>13. CASE UNCHANGED vars
  BY <1>0, <1>13 DEF Account, vars
<1> QED
  BY <1>1, <1>2, <1>3, <1>4, <1>5, <1>6, <1>7, <1>8, <1>9, <1>10, <1>11, <1>12, <1>13
     DEF Next, PromiseStep, ProducerStep, InnerStep, BeginSet, BeginRun, Terminated, Threads

\* An exception leaves something behind only after a call, and calls stay.
LEMMA LossesStep == IInv /\ [Next]_vars => Losses'
<1> SUFFICES ASSUME IInv, [Next]_vars PROVE Losses'
  OBVIOUS
<1> USE DEF IInv, TypeOK, pvars, svars, cvars, content, calls, Goto,
           Ownership, Phases, StorageFilled, OneExecutes, ListInUse, Ready, Result,
           Threads, Accounts, Account, Losses
<1>1. CASE GetFuture
  BY <1>1 DEF GetFuture, ReplaceRefs
<1>2. ASSUME NEW r \in Results \cup {"inner", "broken"}, LockState(r) PROVE Losses'
  BY <1>2 DEF LockState
<1>3. CASE BeginAbandon
  BY <1>3 DEF BeginAbandon, ReplaceRefs, Release
<1>4. CASE Refused
  BY <1>4 DEF Refused, ReplaceRefs, Release
<1>5. CASE Store
  BY <1>5 DEF Store
<1>6. CASE StoreThrows
  BY <1>6 DEF StoreThrows, ReplaceRefs, Release
<1>7. CASE Push
  BY <1>7 DEF Push
<1>8. ASSUME NEW t \in Threads, ExecuteStep(t) PROVE Losses'
  <2>1. CASE Execute(t)
    BY <2>1 DEF Execute
  <2>2. CASE CallContinuation(t)
    BY <2>2 DEF CallContinuation, CallEffect
  <2>3. CASE ContinuationThrows(t)
    <3>1. PICK k \in running : k[1] = "notify" /\ CallEffect(k[1], k[2])
      BY <2>3 DEF ContinuationThrows
    <3>2. k[2] \in Clients /\ k = <<"notify", k[2]>> /\ "notify" \in Kinds
      BY <3>1 DEF Kinds
    <3>3. consumed /\ lost = {}
      BY <2>3, <3>1 DEF ContinuationThrows
    <3>4. notified[k[2]] = 0
      BY <3>1, <3>2, <3>3
    <3>5. notified'[k[2]] = 1
      BY <3>1, <3>2, <3>4 DEF CallEffect
    <3> QED
      BY <3>2, <3>5
  <2>4. CASE FreeList(t)
    BY <2>4 DEF FreeList
  <2>5. CASE EndOperation(t)
    BY <2>5 DEF EndOperation, ReplaceRefs, Release
  <2> QED
    BY <1>8, <2>1, <2>2, <2>3, <2>4, <2>5 DEF ExecuteStep
<1>9. CASE IsAwaiten
  BY <1>9 DEF IsAwaiten
<1>10. ASSUME NEW r \in Results \cup {"broken"}, ResolveInner(r) PROVE Losses'
  BY <1>10 DEF ResolveInner
<1>11. CASE LockOuter
  BY <1>11 DEF LockOuter
<1>12. ASSUME NEW c \in Clients, ClientStep(c) PROVE Losses'
  <2>1. CASE Notify(c)
    <3>1. ASSUME NEW d \in Clients, lost # {}, notified[d] = 1 PROVE notified'[d] = 1
      <4>1. CASE d = c
        <5>1. Account(c) /\ consumed /\ notified[c] = 1
          BY <3>1, <4>1
        <5>2. "notify" \in asked[c]
          BY ONLY <5>1 DEF Account
        <5> QED
          BY <2>1, <5>2 DEF Notify
      <4>2. CASE d # c
        BY <2>1, <3>1, <4>2 DEF Notify, Attach, CallEffect
      <4> QED
        BY <4>1, <4>2
    <3>2. lost' = lost
      BY <2>1 DEF Notify, Attach
    <3> QED
      BY <3>1, <3>2
  <2>2. CASE Detach(c)
    BY <2>2 DEF Detach, Attach, CallEffect
  <2>3. CASE Share(c)
    BY <2>3 DEF Share
  <2>4. ASSUME NEW d \in Clients, Copy(c, d) PROVE Losses'
    BY <2>4 DEF Copy
  <2>5. CASE IsReady(c)
    BY <2>5 DEF IsReady
  <2>6. CASE AwaitSuspend(c)
    BY <2>6 DEF AwaitSuspend, Attach, CallEffect
  <2>7. CASE BeginGet(c)
    BY <2>7 DEF BeginGet, Attach, CallEffect
  <2>8. CASE WakeUp(c)
    BY <2>8 DEF WakeUp
  <2>9. CASE ReadFuture(c)
    BY <2>9 DEF ReadFuture, ReplaceRefs, Release
  <2>10. CASE ReadShared(c)
    BY <2>10 DEF ReadShared
  <2>11. CASE Drop(c)
    BY <2>11 DEF Drop, ReplaceRefs, Release
  <2> QED
    BY <1>12, <2>1, <2>2, <2>3, <2>4, <2>5, <2>6, <2>7, <2>8, <2>9, <2>10, <2>11
       DEF ClientStep
<1>13. CASE UNCHANGED vars
  BY <1>13 DEF vars
<1> QED
  BY <1>1, <1>2, <1>3, <1>4, <1>5, <1>6, <1>7, <1>8, <1>9, <1>10, <1>11, <1>12, <1>13
     DEF Next, PromiseStep, ProducerStep, InnerStep, BeginSet, BeginRun, Terminated, Threads

\* A client comes to read through a ready state, and the storage of a ready
\* state does not change.
LEMMA AnswersStep == IInv /\ [Next]_vars => Answers'
<1> SUFFICES ASSUME IInv, [Next]_vars PROVE Answers'
  OBVIOUS
<1> USE OwnersDiffer, FirstAssumption
        DEF IInv, TypeOK, pvars, svars, cvars, content, calls, Goto,
           Ownership, Phases, StorageFilled, OneExecutes, ListInUse, Ready, Result,
           Threads, Accounts, Account, Answers
<1>1. CASE GetFuture
  BY <1>1 DEF GetFuture, ReplaceRefs
<1>2. ASSUME NEW r \in Results \cup {"inner", "broken"}, LockState(r) PROVE Answers'
  BY <1>2 DEF LockState
<1>3. CASE BeginAbandon
  BY <1>3 DEF BeginAbandon, ReplaceRefs, Release
<1>4. CASE Refused
  BY <1>4 DEF Refused, ReplaceRefs, Release
<1>5. CASE Store
  BY <1>5 DEF Store
<1>6. CASE StoreThrows
  BY <1>6 DEF StoreThrows, ReplaceRefs, Release
<1>7. CASE Push
  BY <1>7 DEF Push
<1>8. ASSUME NEW t \in Threads, ExecuteStep(t) PROVE Answers'
  <2>1. CASE Execute(t)
    BY <2>1 DEF Execute
  <2>2. CASE CallContinuation(t)
    BY <2>2 DEF CallContinuation, CallEffect
  <2>3. CASE ContinuationThrows(t)
    BY <2>3 DEF ContinuationThrows, CallEffect
  <2>4. CASE FreeList(t)
    BY <2>4 DEF FreeList
  <2>5. CASE EndOperation(t)
    BY <2>5 DEF EndOperation, ReplaceRefs, Release
  <2> QED
    BY <1>8, <2>1, <2>2, <2>3, <2>4, <2>5 DEF ExecuteStep
<1>9. CASE IsAwaiten
  BY <1>9 DEF IsAwaiten
<1>10. ASSUME NEW r \in Results \cup {"broken"}, ResolveInner(r) PROVE Answers'
  BY <1>10 DEF ResolveInner
<1>11. CASE LockOuter
  BY <1>11 DEF LockOuter
<1>12. ASSUME NEW c \in Clients, ClientStep(c) PROVE Answers'
  <2>1. CASE Notify(c)
    BY <2>1 DEF Notify, Attach, CallEffect
  <2>2. CASE Detach(c)
    BY <2>2 DEF Detach, Attach, CallEffect
  <2>3. CASE Share(c)
    BY <2>3 DEF Share
  <2>4. ASSUME NEW d \in Clients, Copy(c, d) PROVE Answers'
    BY <2>4 DEF Copy
  <2>5. CASE IsReady(c)
    BY <2>5 DEF IsReady
  <2>6. CASE AwaitSuspend(c)
    BY <2>6 DEF AwaitSuspend, Attach, CallEffect
  <2>7. CASE BeginGet(c)
    BY <2>7 DEF BeginGet, Attach, CallEffect
  <2>8. CASE WakeUp(c)
    BY <2>8 DEF WakeUp
  <2>9. CASE ReadFuture(c)
    BY <2>9 DEF ReadFuture, ReplaceRefs, Release
  <2>10. CASE ReadShared(c)
    BY <2>10 DEF ReadShared
  <2>11. CASE Drop(c)
    BY <2>11 DEF Drop, ReplaceRefs, Release
  <2> QED
    BY <1>12, <2>1, <2>2, <2>3, <2>4, <2>5, <2>6, <2>7, <2>8, <2>9, <2>10, <2>11
       DEF ClientStep
<1>13. CASE UNCHANGED vars
  BY <1>13 DEF vars
<1> QED
  BY <1>1, <1>2, <1>3, <1>4, <1>5, <1>6, <1>7, <1>8, <1>9, <1>10, <1>11, <1>12, <1>13
     DEF Next, PromiseStep, ProducerStep, InnerStep, BeginSet, BeginRun, Terminated, Threads

\* Nobody gets hold of a dead state again, and a state dies once.
LEMMA EndingsStep == IInv /\ [Next]_vars => Endings'
<1> SUFFICES ASSUME IInv, [Next]_vars PROVE Endings'
  OBVIOUS
<1> USE OwnersDiffer, FirstAssumption
        DEF IInv, TypeOK, pvars, svars, cvars, content, calls, Goto,
           Ownership, Phases, StorageFilled, OneExecutes, ListInUse, Ready, Result, Threads, Endings
<1>1. CASE GetFuture
  BY <1>1 DEF GetFuture, ReplaceRefs
<1>2. ASSUME NEW r \in Results \cup {"inner", "broken"}, LockState(r) PROVE Endings'
  BY <1>2 DEF LockState
<1>3. CASE BeginAbandon
  BY <1>3 DEF BeginAbandon, ReplaceRefs, Release
<1>4. CASE Refused
  BY <1>4 DEF Refused, ReplaceRefs, Release
<1>5. CASE Store
  BY <1>5 DEF Store
<1>6. CASE StoreThrows
  BY <1>6 DEF StoreThrows, ReplaceRefs, Release
<1>7. CASE Push
  BY <1>7 DEF Push
<1>8. ASSUME NEW t \in Threads, ExecuteStep(t) PROVE Endings'
  <2>1. CASE Execute(t)
    BY <2>1 DEF Execute
  <2>2. CASE CallContinuation(t)
    BY <2>2 DEF CallContinuation, CallEffect
  <2>3. CASE ContinuationThrows(t)
    BY <2>3 DEF ContinuationThrows, CallEffect
  <2>4. CASE FreeList(t)
    BY <2>4 DEF FreeList
  <2>5. CASE EndOperation(t)
    BY <2>5 DEF EndOperation, ReplaceRefs, Release
  <2> QED
    BY <1>8, <2>1, <2>2, <2>3, <2>4, <2>5 DEF ExecuteStep
<1>9. CASE IsAwaiten
  BY <1>9 DEF IsAwaiten
<1>10. ASSUME NEW r \in Results \cup {"broken"}, ResolveInner(r) PROVE Endings'
  BY <1>10 DEF ResolveInner
<1>11. CASE LockOuter
  BY <1>11 DEF LockOuter
<1>12. ASSUME NEW c \in Clients, ClientStep(c) PROVE Endings'
  <2>1. CASE Notify(c)
    BY <2>1 DEF Notify, Attach, CallEffect
  <2>2. CASE Detach(c)
    BY <2>2 DEF Detach, Attach, CallEffect
  <2>3. CASE Share(c)
    BY <2>3 DEF Share
  <2>4. ASSUME NEW d \in Clients, Copy(c, d) PROVE Endings'
    BY <2>4, OperationsAlive DEF Copy
  <2>5. CASE IsReady(c)
    BY <2>5 DEF IsReady
  <2>6. CASE AwaitSuspend(c)
    BY <2>6 DEF AwaitSuspend, Attach, CallEffect
  <2>7. CASE BeginGet(c)
    BY <2>7 DEF BeginGet, Attach, CallEffect
  <2>8. CASE WakeUp(c)
    BY <2>8 DEF WakeUp
  <2>9. CASE ReadFuture(c)
    <3>1. ReplaceRefs({Future(c)}, {}) /\ refs # {} /\ UNCHANGED <<consumed, unawaited>>
      BY <2>9, OperationsAlive DEF ReadFuture, Release
    <3>2. cancels' = IF refs' = {} /\ ~consumed THEN 1 ELSE 0
      BY <3>1, ReleaseKeepsHolds DEF Releasable
    <3> QED
      BY <3>1, <3>2
  <2>10. CASE ReadShared(c)
    BY <2>10 DEF ReadShared
  <2>11. CASE Drop(c)
    <3>1. ReplaceRefs({Future(c)}, {}) /\ refs # {} /\ UNCHANGED <<consumed, unawaited>>
      BY <2>11, OperationsAlive DEF Drop, Release
    <3>2. cancels' = IF refs' = {} /\ ~consumed THEN 1 ELSE 0
      BY <3>1, ReleaseKeepsHolds DEF Releasable
    <3> QED
      BY <3>1, <3>2
  <2> QED
    BY <1>12, <2>1, <2>2, <2>3, <2>4, <2>5, <2>6, <2>7, <2>8, <2>9, <2>10, <2>11
       DEF ClientStep
<1>13. CASE UNCHANGED vars
  BY <1>13 DEF vars
<1> QED
  BY <1>1, <1>2, <1>3, <1>4, <1>5, <1>6, <1>7, <1>8, <1>9, <1>10, <1>11, <1>12, <1>13
     DEF Next, PromiseStep, ProducerStep, InnerStep, BeginSet, BeginRun, Terminated, Threads

\* Every step keeps the inductive invariant.
LEMMA InvStep == IInv /\ [Next]_vars => IInv'
BY TypeStep, OwnershipStep, PhasesStep, AccountsStep, LossesStep, AnswersStep,
   EndingsStep DEF IInv

\* The inductive invariant holds in every reachable state.
THEOREM InductiveInvariant == Spec => []IInv
<1> QED
  BY InvStep, InitInv, PTL DEF Spec

-----------------------------------------------------------------------------

\* The variables keep their types.
THEOREM TypeCorrect == Spec => []TypeOK
<1>1. IInv => TypeOK
  BY DEF IInv
<1> QED
  BY <1>1, InductiveInvariant, PTL

\* ~cancellable_state: a state is made ready or cancelled once, with nobody
\* told, and it is never cancelled after detach.
THEOREM DeliveryOrCancellation == Spec => []DeliveredXorCancelled
<1>1. IInv => DeliveredXorCancelled
  <2>1. ASSUME IInv PROVE cancels <= 1 /\ (refs = {} => cancels = (IF consumed THEN 0 ELSE 1))
    BY <2>1 DEF IInv, Endings
  <2>2. ASSUME IInv, cancels = 1, NEW c \in Clients
        PROVE  refs = {} /\ ~consumed /\ notified[c] = 0 /\ ~ready[c] /\ "hold" \notin asked[c]
    <3>1. refs = {} /\ ~consumed /\ stack = {}
      BY <2>2 DEF IInv, Endings, Phases, ListInUse
    <3>2. Account(c)
      BY <2>2 DEF IInv, Accounts
    <3> QED
      BY <3>1, <3>2 DEF Account
  <2> QED
    BY <2>1, <2>2, FirstAssumption DEF DeliveredXorCancelled
<1> QED
  BY <1>1, InductiveInvariant, PTL

\* value_ref: get(), co_await and a client that found is_ready() all find the
\* one result of the state.
THEOREM ResultFound == Spec => []ReaderFindsResult
<1>1. IInv => ReaderFindsResult
  BY DEF IInv, Phases, StorageFilled, Ready, Answers, ReaderFindsResult
<1> QED
  BY <1>1, InductiveInvariant, PTL

\* get_state: no operation of the promise or of a future works on a dead
\* state.
THEOREM NoUseOfDeadState == Spec => []AliveWhileUsed
<1>1. IInv => AliveWhileUsed
  BY OperationsAlive DEF AliveWhileUsed
<1> QED
  BY <1>1, InductiveInvariant, PTL

\* execute and push: a notification is called once, by the thread that makes
\* the state ready or by the one that came too late, unless another one in the
\* list threw before it.
THEOREM NotificationCalledOnce == Spec => []NotifiedExactlyOnce
<1>1. IInv => NotifiedExactlyOnce
  <2>1. ASSUME IInv, NEW c \in Clients
        PROVE  /\ notified[c] <= 1
               /\ consumed /\ (\A t \in Threads : pc[t] # "run") =>
                    notified[c] = IF "notify" \in asked[c] /\ <<"notify", c>> \notin lost
                                    THEN 1 ELSE 0
    <3>1. Account(c) /\ consumed \in BOOLEAN
          /\ ((\A t \in Threads : pc[t] # "run") => running = {})
      BY <2>1 DEF IInv, TypeOK, Phases, ListInUse, Accounts
    <3> QED
      BY <3>1 DEF Account
  <2>2. ASSUME IInv, lost # {} PROVE consumed /\ \E c \in Clients : notified[c] = 1
    BY <2>2 DEF IInv, Phases, ListInUse, Losses
  <2> QED
    BY <2>1, <2>2 DEF NotifiedExactlyOnce
<1> QED
  BY <1>1, InductiveInvariant, PTL

\* is_awaiten: after the answer FALSE nobody holds the state, ever again.
THEOREM NotAwaitenForever == Spec => []NotAwaitenIsFinal
<1>1. IInv => NotAwaitenIsFinal
  BY DEF IInv, TypeOK, Ownership, Endings, NotAwaitenIsFinal
<1> QED
  BY <1>1, InductiveInvariant, PTL

-----------------------------------------------------------------------------

\* weak_ptr::lock: from a state that is dead nobody gets a reference.
DeadForever == [][refs = {} => refs' = {}]_vars

\* Only Store writes the storage, and it finds it empty.
LEMMA StorageStep == IInv /\ [Next]_vars => (storage # "empty" => storage' = storage)
<1> SUFFICES ASSUME IInv, [Next]_vars PROVE storage # "empty" => storage' = storage
  OBVIOUS
<1> USE DEF IInv, Phases, StorageFilled, pvars, svars, cvars, content
<1>1. CASE Store
  BY <1>1 DEF Store
<1>2. CASE (PromiseStep \/ InnerStep \/ \E r \in Results \cup {"broken"} : ResolveInner(r))
           /\ ~Store
  BY <1>2 DEF PromiseStep, ProducerStep, InnerStep, ExecuteStep, GetFuture, BeginSet, BeginRun,
       LockState, BeginAbandon, Refused, StoreThrows, Push, Execute, CallContinuation,
       ContinuationThrows, FreeList, EndOperation, IsAwaiten, ResolveInner, LockOuter
<1>3. ASSUME NEW c \in Clients, ClientStep(c) PROVE storage' = storage
  BY <1>3 DEF ClientStep, Notify, Detach, Share, Copy, IsReady, AwaitSuspend, BeginGet, WakeUp,
       ReadFuture, ReadShared, Drop, Attach
<1>4. CASE Terminated \/ UNCHANGED vars
  BY <1>4 DEF Terminated, vars
<1> QED
  BY <1>1, <1>2, <1>3, <1>4 DEF Next

\* The result that a state has got is its result for ever, and a pending inner
\* state that it has got is not given up.
THEOREM FirstResultWins == Spec => ResultNeverReplaced
BY StorageStep, InductiveInvariant, PTL DEF Spec, ResultNeverReplaced

\* What readers of a ready state find does not change: an inner state has its
\* result by then.
LEMMA ResultStep == IInv /\ [Next]_vars => (consumed => Result' = Result)
<1> SUFFICES ASSUME IInv, [Next]_vars, consumed PROVE Result' = Result
  OBVIOUS
<1> USE DEF IInv, Phases, StorageFilled, Ready, Result, pvars, svars, cvars, content
<1>1. storage' = storage
  BY StorageStep
<1>2. CASE \E r \in Results \cup {"broken"} : ResolveInner(r)
  BY <1>2 DEF ResolveInner
<1>3. CASE PromiseStep \/ InnerStep
  <2>1. inner' = inner
    BY <1>3
       DEF PromiseStep, ProducerStep, InnerStep, ExecuteStep, GetFuture, BeginSet, BeginRun,
         LockState, BeginAbandon, Refused, Store, StoreThrows, Push, Execute, CallContinuation,
         ContinuationThrows, FreeList, EndOperation, IsAwaiten, LockOuter
  <2> QED
    BY <1>1, <2>1
<1>4. ASSUME NEW c \in Clients, ClientStep(c) PROVE Result' = Result
  <2>1. inner' = inner
    BY <1>4
       DEF ClientStep, Notify, Detach, Share, Copy, IsReady, AwaitSuspend, BeginGet, WakeUp,
         ReadFuture, ReadShared, Drop, Attach
  <2> QED
    BY <1>1, <2>1
<1>5. CASE Terminated \/ UNCHANGED vars
  BY <1>5 DEF Terminated, vars
<1> QED
  BY <1>2, <1>3, <1>4, <1>5 DEF Next

\* Every step that adds a reference is taken by somebody who has one.
LEMMA DeadStep == IInv /\ [Next]_vars => (refs = {} => refs' = {})
<1> SUFFICES ASSUME IInv, [Next]_vars, refs = {} PROVE refs' = {}
  OBVIOUS
<1> USE DEF pvars, svars, cvars, Threads
<1>1. /\ promise # "strong"
      /\ \A t \in Threads : pc[t] \in {"idle", "lock"}
      /\ \A c \in Clients : cpc[c] \in {"none", "gone"}
  BY OperationsAlive
<1>2. CASE PromiseStep
  BY <1>1, <1>2 DEF PromiseStep, ProducerStep, ExecuteStep, GetFuture, BeginSet, BeginRun,
       LockState, BeginAbandon, Refused, Store, StoreThrows, Push, Execute, CallContinuation,
       ContinuationThrows, FreeList, EndOperation, IsAwaiten
<1>3. CASE InnerStep \/ \E r \in Results \cup {"broken"} : ResolveInner(r)
  BY <1>1, <1>3 DEF InnerStep, ExecuteStep, ResolveInner, LockOuter, Execute, CallContinuation,
       ContinuationThrows, FreeList, EndOperation
<1>4. ASSUME NEW c \in Clients, ClientStep(c) PROVE refs' = {}
  BY <1>1, <1>4 DEF ClientStep, Notify, Detach, Share, Copy, IsReady, AwaitSuspend,
       BeginGet, WakeUp, ReadFuture, ReadShared, Drop
<1>5. CASE Terminated \/ UNCHANGED vars
  BY <1>5 DEF Terminated, vars
<1> QED
  BY <1>2, <1>3, <1>4, <1>5 DEF Next

\* weak_ptr::lock fails for ever once it has failed.
THEOREM DeadStaysDead == Spec => DeadForever
BY DeadStep, InductiveInvariant, PTL DEF Spec, DeadForever

-----------------------------------------------------------------------------
\* The refinement of FutureContract.

\* A step that makes nobody ready, asks, tells and answers nobody, is not seen
\* by the clients, unless it is the death of an unready state.
LEMMA QuietStep ==
  ASSUME IInv, IInv', UNCHANGED <<consumed, notified, asked, got>>,
         refs = {} => refs' = {}, consumed => Result' = Result
  PROVE  Contract!Cancel \/ UNCHANGED Contract!fvars
<1>1. cancels' = cancels => UNCHANGED Outcome
  BY DEF Outcome, IInv, TypeOK
<1>2. CASE cancels' = cancels
  BY <1>1, <1>2 DEF Contract!fvars
<1>3. CASE cancels' # cancels
  <2>1. refs' = {} /\ ~consumed /\ cancels = 0 /\ cancels' = 1
    BY <1>3 DEF IInv, Endings, TypeOK
  <2>2. Outcome = "pending" /\ Outcome' = "cancelled"
    BY <2>1 DEF Outcome
  <2>3. ASSUME NEW c \in Clients PROVE "hold" \notin asked[c]
    <3>1. stack' = {} /\ Account(c)' /\ asked' = asked /\ ~consumed'
      BY <2>1 DEF IInv, Phases, ListInUse, Accounts
    <3> QED
      BY <3>1 DEF Account
  <2> QED
    BY <2>2, <2>3 DEF Contract!Cancel
<1> QED
  BY <1>2, <1>3

\* A result that is there is one of the contract's.
LEMMA ReadyResult == IInv /\ Ready => Result \in Results \cup {"broken"}
BY DEF IInv, TypeOK, Ready, Result

\* Attaching is asking or detaching, or nothing the clients see.
LEMMA AttachStep ==
  ASSUME IInv, NEW c \in Clients, NEW kind \in Kinds, Attach(kind, c),
         kind \notin asked[c] \/ kind = "wake", refs # {}, UNCHANGED got
  PROVE  Contract!Next \/ UNCHANGED Contract!fvars
<1>1. /\ UNCHANGED Outcome
      /\ Outcome # "cancelled"
      /\ Contract!Resolved <=> consumed
  <2>1. UNCHANGED <<consumed, storage, inner, cancels>>
    BY DEF Attach, content, calls
  <2>2. consumed => Result \in Results \cup {"broken"}
    BY ReadyResult DEF IInv, Phases, StorageFilled
  <2>3. UNCHANGED Outcome
    BY <2>1 DEF Outcome, Result
  <2> QED
    BY <2>2, <2>3 DEF Outcome, Contract!Resolved, IInv, TypeOK, Endings, Results
<1>2. asked' = [asked EXCEPT ![c] = @ \cup {kind}] /\ asked \in [Clients -> SUBSET Kinds]
  BY DEF Attach, IInv, TypeOK
<1>3. notified' = [notified EXCEPT ![c] = IF consumed /\ kind = "notify" THEN @ + 1 ELSE @]
  BY DEF Attach, CallEffect, IInv, TypeOK
<1>4. CASE kind = "notify"
  <2>1. {d \in Clients : "notify" \in asked'[d]}
          = {d \in Clients : "notify" \in asked[d]} \cup {c}
    BY <1>2, <1>4
  <2>2. {d \in Clients : "hold" \in asked'[d]} = {d \in Clients : "hold" \in asked[d]}
    BY <1>2, <1>4
  <2>3. Contract!Ask(c)
    BY <1>1, <1>3, <1>4, <2>1, <2>2 DEF Contract!Ask
  <2> QED
    BY <2>3 DEF Contract!Next
<1>5. CASE kind = "hold"
  <2>1. {d \in Clients : "hold" \in asked'[d]}
          = {d \in Clients : "hold" \in asked[d]} \cup {c}
    BY <1>2, <1>5
  <2>2. {d \in Clients : "notify" \in asked'[d]} = {d \in Clients : "notify" \in asked[d]}
    BY <1>2, <1>5
  <2>3. notified' = notified
    BY <1>3, <1>5 DEF IInv, TypeOK
  <2>4. Contract!Detach(c)
    BY <1>1, <2>1, <2>2, <2>3 DEF Contract!Detach
  <2> QED
    BY <2>4 DEF Contract!Next
<1>6. CASE kind = "wake"
  <2>1. /\ {d \in Clients : "notify" \in asked'[d]} = {d \in Clients : "notify" \in asked[d]}
        /\ {d \in Clients : "hold" \in asked'[d]} = {d \in Clients : "hold" \in asked[d]}
    BY <1>2, <1>6
  <2>2. notified' = notified
    BY <1>3, <1>6 DEF IInv, TypeOK
  <2> QED
    BY <1>1, <2>1, <2>2 DEF Contract!fvars
<1> QED
  BY <1>4, <1>5, <1>6 DEF Kinds

\* Reading a ready state is an answer.
LEMMA ReadStep ==
  ASSUME IInv, NEW c \in Clients, cpc[c] = "reading",
         got' = [got EXCEPT ![c] = Result],
         UNCHANGED <<content, consumed, notified, asked>>
  PROVE  Contract!Next
<1>1. consumed /\ Result \in Results \cup {"broken"}
  BY ReadyResult DEF IInv, Answers, Phases, StorageFilled
<1>2. Outcome = Result /\ Outcome' = Result
  BY <1>1 DEF Outcome, Result, content
<1>3. Contract!Answer(c)
  BY <1>1, <1>2 DEF Contract!Answer, Contract!Resolved
<1> QED
  BY <1>3 DEF Contract!Next

\* Calling a continuation of the consumed list tells its client, if it was a
\* notification; throwing or not makes no difference to the clients.
LEMMA CallStep ==
  ASSUME IInv, NEW t \in Threads, pc[t] = "run", NEW k \in running, CallEffect(k[1], k[2]),
         UNCHANGED <<content, consumed, cancels, asked, got>>
  PROVE  Contract!Next \/ UNCHANGED Contract!fvars
<1>1. k[1] \in Kinds /\ k[2] \in Clients /\ k = <<k[1], k[2]>> /\ k \in list
  BY DEF IInv, TypeOK, Phases, ListInUse
<1>2. consumed /\ Result \in Results \cup {"broken"}
  BY ReadyResult DEF IInv, Phases, OneExecutes, StorageFilled
<1>3. Outcome = Result /\ Outcome' = Result
  BY <1>2 DEF Outcome, Result, content
<1>4. CASE k[1] = "notify"
  <2>1. "notify" \in asked[k[2]] /\ notified[k[2]] = 0
    BY <1>1, <1>2, <1>4 DEF IInv, Accounts, Account, Kinds
  <2>2. notified' = [notified EXCEPT ![k[2]] = 1]
    BY <1>1, <1>4, <2>1 DEF CallEffect
  <2>3. Contract!Tell(k[2])
    BY <1>1, <1>2, <1>3, <2>1, <2>2 DEF Contract!Tell, Contract!Resolved
  <2> QED
    BY <1>1, <2>3 DEF Contract!Next
<1>5. CASE k[1] # "notify"
  BY <1>3, <1>5 DEF CallEffect, Contract!fvars
<1> QED
  BY <1>4, <1>5

\* Every step is a step of FutureContract or changes nothing in it.
LEMMA ContractStep ==
  IInv /\ [Next]_vars => [Contract!Next]_(Contract!fvars)
<1> SUFFICES ASSUME IInv, [Next]_vars
             PROVE  Contract!Next \/ UNCHANGED Contract!fvars
  OBVIOUS
<1>0. IInv' /\ (refs = {} => refs' = {}) /\ (consumed => Result' = Result)
  BY InvStep, DeadStep, ResultStep
<1>q. ASSUME UNCHANGED <<consumed, notified, asked, got>>
      PROVE  Contract!Next \/ UNCHANGED Contract!fvars
  BY <1>0, <1>q, QuietStep DEF Contract!Next
<1>1. ASSUME NEW t \in Threads, ExecuteStep(t)
      PROVE  Contract!Next \/ UNCHANGED Contract!fvars
  <2>1. CASE Execute(t)
    <3>1. Result \in Results \cup {"broken"} /\ ~consumed /\ cancels = 0
      BY <2>1, OperationsAlive, ReadyResult DEF Execute, IInv, Phases, OneExecutes, Endings
    <3>2. /\ consumed' = TRUE
          /\ UNCHANGED <<content, notified, asked, got>>
      BY <2>1 DEF Execute, cvars
    <3>3. Contract!Resolve(Result)
      BY <3>1, <3>2 DEF Contract!Resolve, Outcome, Result, content
    <3> QED
      BY <3>1, <3>3 DEF Contract!Next
  <2>2. CASE CallContinuation(t)
    BY <2>2, CallStep DEF CallContinuation
  <2>3. CASE ContinuationThrows(t)
    BY <2>3, CallStep DEF ContinuationThrows
  <2>4. CASE FreeList(t) \/ EndOperation(t)
    BY <1>q, <2>4 DEF FreeList, EndOperation, calls, cvars
  <2> QED
    BY <1>1, <2>1, <2>2, <2>3, <2>4 DEF ExecuteStep
<1>2. CASE \/ GetFuture \/ BeginAbandon \/ IsAwaiten \/ Refused \/ Store \/ StoreThrows \/ Push
           \/ \E r \in Results \cup {"inner", "broken"} : BeginSet(r) \/ BeginRun(r)
           \/ (\E r \in Results \cup {"broken"} : ResolveInner(r)) \/ LockOuter
  BY <1>q, <1>2 DEF GetFuture, BeginAbandon, IsAwaiten, Refused, Store, StoreThrows, Push,
       BeginSet, BeginRun, LockState, ResolveInner, LockOuter, svars, cvars, calls
<1>3. ASSUME NEW c \in Clients, ClientStep(c)
      PROVE  Contract!Next \/ UNCHANGED Contract!fvars
  <2>0. cpc[c] \notin {"none", "gone"} => refs # {}
    BY OperationsAlive
  <2>1. CASE Notify(c) \/ Detach(c)
    BY <2>0, <2>1, AttachStep DEF Notify, Detach, Kinds
  <2>2. CASE BeginGet(c) \/ AwaitSuspend(c)
    BY <2>0, <2>2, AttachStep DEF BeginGet, AwaitSuspend, Kinds
  <2>3. CASE ReadFuture(c) \/ ReadShared(c)
    BY <2>3, ReadStep DEF ReadFuture, ReadShared, svars, calls
  <2>4. CASE Share(c) \/ IsReady(c) \/ WakeUp(c) \/ Drop(c) \/ \E d \in Clients : Copy(c, d)
    BY <1>q, <2>4 DEF Share, IsReady, WakeUp, Drop, Copy, svars, calls
  <2> QED
    BY <1>3, <2>1, <2>2, <2>3, <2>4 DEF ClientStep
<1>4. CASE Terminated \/ UNCHANGED vars
  BY <1>q, <1>4 DEF Terminated, vars, svars, cvars, calls
<1> QED
  BY <1>1, <1>2, <1>3, <1>4 DEF Next, PromiseStep, ProducerStep, InnerStep, Threads

\* cnt_stack, storage_ and the owners of a shared state together are one
\* future: the detailed model implements the abstract one.
THEOREM Refinement == Spec => ImplementsContract
<1>1. Init => Contract!Init
  BY DEF Init, Contract!Init, Outcome
<1> QED
  BY <1>1, ContractStep, InductiveInvariant, PTL
     DEF Spec, ImplementsContract, Contract!Spec
=============================================================================
